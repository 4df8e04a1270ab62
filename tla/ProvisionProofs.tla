-------------------------- MODULE ProvisionProofs ---------------------------
(***************************************************************************)
(* What must be in place before a seat works, proved: modules Publish,     *)
(* Formation and ConfigPlan, in this order.                                *)
(*                                                                         *)
(* Publish, for any number of publishers, files and outages: the inductive *)
(* invariant follows a staged directory through its stages.  The files     *)
(* before the current one are settled, the current one is as far as its    *)
(* stage says, and a directory about to be renamed is sealed with all its  *)
(* files settled.                                                          *)
(*                                                                         *)
(* Formation, for any number of calls and any shapes of requests: every    *)
(* step has a place on every path, paths are sorted by it, and what is on  *)
(* disk or was asked of the host lies before what is left of the path of   *)
(* the one call that executes.  So no step is taken twice, an effect still *)
(* finds its phase before it, and a result what it says.                   *)
(*                                                                         *)
(* ConfigPlan, for any surplus of seats, any operations and any edits: the *)
(* flag the user set is in the file while nothing of SLP is there, else in *)
(* the binding, or in the plan of a first activation.  And each owned seat *)
(* has its provider, so an activation can name the routes it records.      *)
(***************************************************************************)
EXTENDS Publish, Formation, ConfigPlan, SequenceTheorems, WellFoundedInduction, TLAPS

-----------------------------------------------------------------------------
(* Publication *)

\* A file nothing can take its bytes from; a candidate's has its mode for good.
Settled(asset, f) ==
    /\ f.has = Parts /\ "bytes" \in f.kept
    /\ asset = "runtime" => f.kept = Parts
\* What is published stays that way: what was synced was there.
Sound(asset, dir) ==
    /\ dir.sealed
    /\ \A n \in 1..Files :
        /\ "bytes" \in dir.files[n].has /\ "bytes" \in dir.files[n].kept
        /\ asset = "runtime" => dir.files[n].has = Parts /\ dir.files[n].kept = Parts

\* How far the current file is at a stage of its publication.
Written(run, f) ==
    CASE run.at = "mode" -> "bytes" \in f.has /\ (run.asset = "launch set" => "bytes" \in f.kept)
      [] run.at = "sync" -> "bytes" \in f.has /\ (run.asset = "runtime" => f.has = Parts)
      [] run.at = "read back" -> run.asset = "runtime" /\ f.has = Parts /\ f.kept = Parts
      [] OTHER -> TRUE
Staged(run, dir) ==
    /\ run.at \in {"look", "claim"} => run.file = 1
    /\ run.at \in {"write", "mode", "sync", "read back", "seal", "parent", "rename"} => dir \in Directories
    /\ run.at \in {"write", "mode", "sync", "read back"} =>
         /\ \A n \in 1..Files : n < run.file => Settled(run.asset, dir.files[n])
         /\ Written(run, dir.files[run.file])
    /\ run.at \in {"seal", "parent", "rename"} => \A n \in 1..Files : Settled(run.asset, dir.files[n])
    /\ run.at \in {"parent", "rename"} => dir.sealed

TypeOK ==
    /\ publisher \in [Publishers -> Publications \cup {Nothing}]
    /\ staged \in [Publishers -> Directories \cup {Nothing}]
    /\ published \in [Assets -> Directories \cup {Nothing}]
    /\ announced \in SUBSET Assets
    /\ outages \in Nat
StagedOK == \A p \in Publishers : publisher[p] # Nothing => Staged(publisher[p], staged[p])
\* A publisher that renamed verifies what it renamed, flushed.
FlushedOK ==
    \A p \in Publishers : publisher[p] # Nothing =>
        /\ publisher[p].at \in {"flush", "verify"} => published[publisher[p].asset] # Nothing
        /\ publisher[p].at = "verify" /\ ~publisher[p].reused => published[publisher[p].asset].named
AnnouncedOK == \A a \in announced : published[a] # Nothing /\ published[a].named
WholeOK == \A a \in Assets : published[a] # Nothing => Sound(a, published[a])
IInv == TypeOK /\ StagedOK /\ FlushedOK /\ AnnouncedOK /\ WholeOK

(***************************************************************************)
(* Records, so that the provers need not build them.                       *)
(***************************************************************************)

LEMMA ProceedType ==
    ASSUME NEW run \in Publications, NEW stage \in Stages
    PROVE  LET next == [run EXCEPT !.at = stage]
           IN  /\ next \in Publications /\ next.at = stage
               /\ next.asset = run.asset /\ next.file = run.file /\ next.reused = run.reused
BY DEF Publications

LEMMA NextFileType ==
    ASSUME NEW run \in Publications, NEW stage \in Stages, run.file < Files
    PROVE  run.file + 1 \in 1..Files
BY FilesAssumption DEF Publications

LEMMA LookingType == ASSUME NEW a \in Assets PROVE Looking(a) \in Publications
BY FilesAssumption DEF Looking, Publications, Stages

LEMMA FreshType == Fresh \in Directories
BY DEF Fresh, Directories, FileStates

\* A staged file is replaced and its directory is a directory still.
LEMMA PutType ==
    ASSUME NEW dir \in Directories, NEW n \in 1..Files, NEW f \in FileStates
    PROVE  [dir EXCEPT !.files[n] = f] \in Directories
BY DEF Directories

(***************************************************************************)
(* A step of one publisher that leaves what is published alone.            *)
(***************************************************************************)

\* What a publisher knows of what is published.
Flushed(run, dirs) ==
    /\ run.at \in {"flush", "verify"} => dirs[run.asset] # Nothing
    /\ run.at = "verify" /\ ~run.reused => dirs[run.asset].named

LEMMA FlushedFact ==
    ASSUME IInv, NEW p \in Publishers, publisher[p] # Nothing
    PROVE  Flushed(publisher[p], published)
BY DEF IInv, FlushedOK, Flushed

LEMMA OneMoves ==
    ASSUME IInv, NEW p \in Publishers,
           NEW run \in Publications \cup {Nothing}, NEW dir \in Directories \cup {Nothing},
           publisher' = [publisher EXCEPT ![p] = run],
           staged' = [staged EXCEPT ![p] = dir],
           published' = published, announced' = announced, outages' = outages,
           run # Nothing => Staged(run, dir),
           run # Nothing => Flushed(run, published)
    PROVE  IInv'
<1>1. TypeOK'
  BY DEF IInv, TypeOK
<1>2. StagedOK'
  <2> SUFFICES ASSUME NEW q \in Publishers, publisher'[q] # Nothing
               PROVE  Staged(publisher'[q], staged'[q])
    BY DEF StagedOK
  <2>1. CASE q = p
    BY <2>1 DEF IInv, TypeOK
  <2>2. CASE q # p
    <3>1. publisher'[q] = publisher[q] /\ staged'[q] = staged[q]
      BY <2>2 DEF IInv, TypeOK
    <3>2. QED
      BY <3>1 DEF IInv, StagedOK
  <2>3. QED
    BY <2>1, <2>2
<1>3. FlushedOK'
  <2> SUFFICES ASSUME NEW q \in Publishers, publisher'[q] # Nothing
               PROVE  Flushed(publisher'[q], published')
    BY DEF FlushedOK, Flushed
  <2>1. CASE q = p
    BY <2>1 DEF IInv, TypeOK
  <2>2. CASE q # p
    BY <2>2, FlushedFact DEF IInv, TypeOK
  <2>3. QED
    BY <2>1, <2>2
<1>4. AnnouncedOK' /\ WholeOK'
  BY DEF IInv, AnnouncedOK, WholeOK
<1>5. QED
  BY <1>1, <1>2, <1>3, <1>4 DEF IInv

(***************************************************************************)
(* The steps of a publication.                                             *)
(***************************************************************************)

\* What holds of a publisher that is somewhere.
LEMMA AtFacts ==
    ASSUME IInv, NEW p \in Publishers, publisher[p] # Nothing
    PROVE  /\ publisher[p] \in Publications /\ staged[p] \in Directories \cup {Nothing}
           /\ Staged(publisher[p], staged[p])
BY DEF IInv, TypeOK, StagedOK

\* Turning a publisher is replacing its record.
LEMMA ProceedsIs ==
    ASSUME IInv, NEW p \in Publishers, publisher[p] # Nothing, NEW stage, Proceeds(p, stage)
    PROVE  publisher' = [publisher EXCEPT ![p] = [publisher[p] EXCEPT !.at = stage]]
BY DEF IInv, TypeOK, Proceeds

LEMMA BeginStep ==
    ASSUME IInv, NEW p \in Publishers, Begin(p)
    PROVE  IInv'
<1>1. Looking("runtime") \in Publications
  BY LookingType DEF Assets
<1>2. staged' = [staged EXCEPT ![p] = staged[p]] /\ staged[p] \in Directories \cup {Nothing}
  BY DEF Begin, IInv, TypeOK
<1>3. Staged(Looking("runtime"), staged[p]) /\ Flushed(Looking("runtime"), published)
  BY DEF Staged, Flushed, Looking
<1>4. QED
  BY <1>1, <1>2, <1>3, OneMoves DEF Begin

LEMMA LookStep ==
    ASSUME IInv, NEW p \in Publishers, Look(p)
    PROVE  IInv'
<1> DEFINE run == publisher[p]
<1>1. run \in Publications /\ run.at = "look" /\ staged[p] \in Directories \cup {Nothing} /\ run # Nothing
  BY AtFacts DEF Look, At
<1>2. /\ staged' = [staged EXCEPT ![p] = staged[p]]
      /\ published' = published /\ announced' = announced /\ outages' = outages
  BY DEF Look, IInv, TypeOK
<1>3. CASE published[Asset(p)] = Nothing
  <2> DEFINE next == [run EXCEPT !.at = "claim"]
  <2>1. next \in Publications /\ next.at = "claim" /\ next.file = run.file
    BY <1>1, ProceedType DEF Stages
  <2>2. publisher' = [publisher EXCEPT ![p] = next]
    <3>1. Proceeds(p, "claim")
      BY <1>3 DEF Look
    <3>2. QED
      BY <1>1, <3>1, ProceedsIs
  <2>3. Staged(next, staged[p]) /\ Flushed(next, published)
    BY <1>1, <2>1, AtFacts DEF Staged, Flushed
  <2> HIDE DEF next
  <2>4. QED
    BY <1>2, <1>1, <2>1, <2>2, <2>3, OneMoves
<1>4. CASE published[Asset(p)] # Nothing
  <2> DEFINE next == [run EXCEPT !.at = "verify", !.reused = TRUE]
  <2>1. next \in Publications /\ next.at = "verify" /\ next.reused /\ next.asset = run.asset
    BY <1>1 DEF Stages, Publications
  <2>2. publisher' = [publisher EXCEPT ![p] = next]
    BY <1>1, <1>4 DEF Look, IInv, TypeOK
  <2>3. Staged(next, staged[p]) /\ Flushed(next, published)
    BY <1>4, <2>1 DEF Staged, Flushed, Asset
  <2> HIDE DEF next
  <2>4. QED
    BY <1>2, <1>1, <2>1, <2>2, <2>3, OneMoves
<1>5. QED
  BY <1>3, <1>4

LEMMA ClaimStep ==
    ASSUME IInv, NEW p \in Publishers, Claim(p)
    PROVE  IInv'
<1> DEFINE next == [publisher[p] EXCEPT !.at = "write"]
<1>1. publisher[p] # Nothing /\ publisher[p] \in Publications /\ publisher[p].at = "claim" /\ publisher[p].file = 1
  BY AtFacts DEF Claim, At, Staged
<1>2. next \in Publications /\ next.at = "write" /\ next.file = 1
  BY <1>1, ProceedType DEF Stages
<1>3. publisher' = [publisher EXCEPT ![p] = next]
  BY <1>1, ProceedsIs DEF Claim
<1>4. /\ staged' = [staged EXCEPT ![p] = Fresh]
      /\ published' = published /\ announced' = announced /\ outages' = outages
  BY DEF Claim
<1>5. Staged(next, Fresh) /\ Flushed(next, published)
  BY <1>2, FreshType DEF Staged, Written, Flushed
<1> HIDE DEF next
<1>6. QED
  BY <1>2, <1>3, <1>4, <1>5, FreshType, OneMoves

(***************************************************************************)
(* The files.                                                              *)
(***************************************************************************)

With(dir, n, f) == [dir EXCEPT !.files[n] = f]

LEMMA WithFacts ==
    ASSUME NEW dir \in Directories, NEW n \in 1..Files, NEW f \in FileStates
    PROVE  /\ With(dir, n, f) \in Directories
           /\ With(dir, n, f).files[n] = f
           /\ \A m \in 1..Files : m # n => With(dir, n, f).files[m] = dir.files[m]
BY DEF Directories, With

Writing == {"write", "mode", "sync", "read back"}

\* What holds of a publisher that is at a file.
LEMMA WritingFacts ==
    ASSUME IInv, NEW p \in Publishers, publisher[p] # Nothing, publisher[p].at \in Writing
    PROVE  /\ publisher[p] \in Publications /\ staged[p] \in Directories
           /\ Current(p) \in FileStates
           /\ Written(publisher[p], Current(p))
           /\ \A n \in 1..Files :
                n < publisher[p].file => Settled(publisher[p].asset, staged[p].files[n])
<1>1. publisher[p] \in Publications /\ Staged(publisher[p], staged[p])
  BY AtFacts
<1>2. staged[p] \in Directories /\ publisher[p].file \in 1..Files
  BY <1>1 DEF Staged, Writing, Publications
<1>3. Current(p) \in FileStates
  BY <1>2 DEF Current, Directories
<1>4. QED
  BY <1>1, <1>2, <1>3 DEF Staged, Writing, Current

LEMMA PutsIs ==
    ASSUME IInv, NEW p \in Publishers, staged[p] \in Directories, NEW f, Puts(p, f)
    PROVE  staged' = [staged EXCEPT ![p] = With(staged[p], publisher[p].file, f)]
BY DEF IInv, TypeOK, Puts, With

\* Where the end of a file leads.
After(run, next) ==
    /\ next.asset = run.asset
    /\ \/ run.file < Files /\ next.at = "write" /\ next.file = run.file + 1
       \/ run.file = Files /\ next.at = "seal"

LEMMA NextFileIs ==
    ASSUME IInv, NEW p \in Publishers, publisher[p] \in Publications, NextFile(p)
    PROVE  \E next \in Publications :
             publisher' = [publisher EXCEPT ![p] = next] /\ After(publisher[p], next)
<1> DEFINE run == publisher[p]
           place == IF run.file < Files THEN "write" ELSE "seal"
           file == IF run.file < Files THEN run.file + 1 ELSE run.file
           next == [run EXCEPT !.at = place, !.file = file]
<1>1. publisher' = [publisher EXCEPT ![p] = next]
  BY DEF NextFile, IInv, TypeOK
<1>2. /\ place \in Stages /\ file \in 1..Files
      /\ \/ run.file < Files /\ place = "write" /\ file = run.file + 1
         \/ run.file = Files /\ place = "seal"
  <2>1. run.file \in 1..Files
    BY DEF Publications
  <2>2. CASE run.file < Files
    BY <2>1, <2>2, FilesAssumption DEF Stages
  <2>3. CASE run.file = Files
    BY <2>1, <2>3, FilesAssumption DEF Stages
  <2>4. QED
    BY <2>1, <2>2, <2>3, FilesAssumption
<1> HIDE DEF place, file
<1>3. /\ next \in Publications /\ next.asset = run.asset
      /\ next.at = place /\ next.file = file
  BY <1>2 DEF Publications
<1> HIDE DEF run, next
<1>4. After(run, next)
  BY <1>2, <1>3 DEF After
<1>5. QED
  BY <1>1, <1>3, <1>4 DEF run

\* A file is done: those up to it are settled.
LEMMA FileDone ==
    ASSUME NEW run \in Publications, NEW next \in Publications, After(run, next),
           NEW dir \in Directories,
           \A n \in 1..Files : n <= run.file => Settled(run.asset, dir.files[n])
    PROVE  Staged(next, dir) /\ Flushed(next, published)
<1>1. run.file \in 1..Files
  BY DEF Publications
<1>2. CASE run.file < Files /\ next.at = "write" /\ next.file = run.file + 1
  BY <1>1, <1>2, FilesAssumption DEF After, Staged, Written, Flushed
<1>3. CASE run.file = Files /\ next.at = "seal"
  BY <1>1, <1>3, FilesAssumption DEF After, Staged, Written, Flushed
<1>4. QED
  BY <1>2, <1>3 DEF After

\* The current file turns into f while the publisher stays at it.
LEMMA FilePut ==
    ASSUME IInv, NEW p \in Publishers, publisher[p] # Nothing, publisher[p].at \in Writing,
           NEW stage \in Writing, Proceeds(p, stage),
           NEW f \in FileStates, Puts(p, f),
           published' = published, announced' = announced, outages' = outages,
           Written([publisher[p] EXCEPT !.at = stage], f)
    PROVE  IInv'
<1> DEFINE run == publisher[p]
           next == [run EXCEPT !.at = stage]
           dir == With(staged[p], run.file, f)
<1>1. run \in Publications /\ staged[p] \in Directories /\ run.file \in 1..Files
  BY WritingFacts DEF Publications
<1>2. /\ next \in Publications /\ next.at = stage
      /\ next.asset = run.asset /\ next.file = run.file
  <2>1. stage \in Stages
    BY DEF Writing, Stages
  <2>2. QED
    BY <1>1, <2>1, ProceedType
<1>3. publisher' = [publisher EXCEPT ![p] = next]
  BY ProceedsIs
<1>4. staged' = [staged EXCEPT ![p] = dir]
  BY <1>1, PutsIs
<1>5. dir \in Directories /\ dir.files[run.file] = f
      /\ \A m \in 1..Files : m # run.file => dir.files[m] = staged[p].files[m]
  BY <1>1, WithFacts
<1>6. \A n \in 1..Files : n < run.file => Settled(run.asset, dir.files[n])
  BY <1>1, <1>5, WritingFacts
<1>7. Written(next, f)
  OBVIOUS
<1> HIDE DEF run, next, dir
<1>8. Staged(next, dir) /\ Flushed(next, published)
  BY <1>2, <1>5, <1>6, <1>7 DEF Staged, Flushed, Writing
<1>9. QED
  BY <1>2, <1>3, <1>4, <1>5, <1>8, OneMoves

\* The current file turns into f, and with that it is done.
LEMMA FileEnds ==
    ASSUME IInv, NEW p \in Publishers, publisher[p] # Nothing, publisher[p].at \in Writing,
           NextFile(p), NEW f \in FileStates, Settled(publisher[p].asset, f),
           \/ Puts(p, f)
           \/ f = Current(p) /\ staged' = staged,
           published' = published, announced' = announced, outages' = outages
    PROVE  IInv'
<1> DEFINE run == publisher[p]
<1>1. run \in Publications /\ staged[p] \in Directories /\ run.file \in 1..Files
  BY WritingFacts DEF Publications
<1>2. PICK next \in Publications : publisher' = [publisher EXCEPT ![p] = next] /\ After(run, next)
  BY <1>1, NextFileIs
<1>3. PICK dir \in Directories :
        /\ staged' = [staged EXCEPT ![p] = dir]
        /\ dir.files[run.file] = f
        /\ \A m \in 1..Files : m # run.file => dir.files[m] = staged[p].files[m]
  <2>1. CASE Puts(p, f)
    <3>1. staged' = [staged EXCEPT ![p] = With(staged[p], run.file, f)]
      BY <1>1, <2>1, PutsIs
    <3> DEFINE new == With(staged[p], run.file, f)
    <3>2. /\ new \in Directories /\ new.files[run.file] = f
          /\ \A m \in 1..Files : m # run.file => new.files[m] = staged[p].files[m]
      BY <1>1, WithFacts
    <3> HIDE DEF new, run
    <3>3. QED
      BY <3>1, <3>2 DEF new
  <2>2. CASE f = Current(p) /\ staged' = staged
    <3>1. staged' = [staged EXCEPT ![p] = staged[p]] /\ staged[p].files[run.file] = f
      BY <2>2 DEF IInv, TypeOK, Current
    <3>2. QED
      BY <1>1, <3>1
  <2>3. QED
    BY <2>1, <2>2
<1>4. \A n \in 1..Files : n <= run.file => Settled(run.asset, dir.files[n])
  <2> SUFFICES ASSUME NEW n \in 1..Files, n <= run.file
               PROVE  Settled(run.asset, dir.files[n])
    OBVIOUS
  <2>1. CASE n = run.file
    BY <1>3, <2>1
  <2>2. CASE n < run.file
    BY <1>3, <2>2, WritingFacts
  <2>3. QED
    BY <1>1, <2>1, <2>2
<1>5. Staged(next, dir) /\ Flushed(next, published)
  BY <1>1, <1>2, <1>4, FileDone
<1>6. QED
  BY <1>2, <1>3, <1>5, OneMoves

LEMMA WriteBytesStep ==
    ASSUME IInv, NEW p \in Publishers, WriteBytes(p)
    PROVE  IInv'
<1> DEFINE stage == IF Asset(p) = "runtime" /\ ~IsReceipt(p) THEN "mode" ELSE "sync"
           f == [has |-> IF IsReceipt(p) THEN Parts ELSE {"bytes"}, kept |-> {}]
<1>1. publisher[p] # Nothing /\ publisher[p].at \in Writing /\ Proceeds(p, stage) /\ Puts(p, f)
      /\ published' = published /\ announced' = announced /\ outages' = outages
  BY DEF WriteBytes, At, Writing
<1>2. publisher[p] \in Publications
  BY <1>1, AtFacts
<1>3. stage \in Writing /\ f \in FileStates
  BY DEF Writing, FileStates, Parts
<1> DEFINE next == [publisher[p] EXCEPT !.at = stage]
<1>4. next.at = stage /\ next.asset = Asset(p)
  BY <1>2 DEF Publications, Asset
<1>5. "bytes" \in f.has /\ (IsReceipt(p) => f.has = Parts)
  BY DEF Parts
<1>6. CASE Asset(p) = "runtime" /\ ~IsReceipt(p)
  <2>1. stage = "mode" /\ Asset(p) # "launch set"
    BY <1>6
  <2> HIDE DEF next, stage, f
  <2>2. Written(next, f)
    BY <1>4, <1>5, <2>1 DEF Written
  <2>3. QED
    BY <1>1, <1>3, <2>2, FilePut DEF next
<1>7. CASE ~(Asset(p) = "runtime" /\ ~IsReceipt(p))
  <2>1. stage = "sync" /\ (Asset(p) = "runtime" => IsReceipt(p))
    BY <1>7
  <2> HIDE DEF next, stage, f
  <2>2. Written(next, f)
    BY <1>4, <1>5, <2>1 DEF Written
  <2>3. QED
    BY <1>1, <1>3, <2>2, FilePut DEF next
<1>8. QED
  BY <1>6, <1>7

LEMMA SetModeStep ==
    ASSUME IInv, NEW p \in Publishers, SetMode(p)
    PROVE  IInv'
<1> DEFINE f == [Current(p) EXCEPT !.has = Parts]
<1>1. publisher[p] # Nothing /\ publisher[p].at = "mode" /\ Puts(p, f)
      /\ published' = published /\ announced' = announced /\ outages' = outages
  BY DEF SetMode, At
<1>2. publisher[p].at \in Writing
  BY <1>1 DEF Writing
<1>3. /\ publisher[p] \in Publications /\ Current(p) \in FileStates
      /\ Written(publisher[p], Current(p))
  BY <1>1, <1>2, WritingFacts
<1>4. f \in FileStates /\ f.has = Parts /\ f.kept = Current(p).kept
  BY <1>3 DEF FileStates
<1> HIDE DEF f
<1>5. CASE Asset(p) = "runtime"
  <2> DEFINE next == [publisher[p] EXCEPT !.at = "sync"]
  <2>1. next.at = "sync"
    BY <1>3 DEF Publications
  <2>2. Written(next, f)
    BY <1>4, <2>1 DEF Written, Parts
  <2>3. Proceeds(p, "sync") /\ "sync" \in Writing
    BY <1>5 DEF SetMode, Writing
  <2>4. QED
    BY <1>1, <1>2, <1>4, <2>2, <2>3, FilePut
<1>6. CASE Asset(p) # "runtime"
  <2>1. NextFile(p)
    BY <1>6 DEF SetMode
  <2>2. publisher[p].asset = "launch set"
    BY <1>3, <1>6 DEF Publications, Asset, Assets
  <2>3. Settled(publisher[p].asset, f)
    BY <1>1, <1>3, <1>4, <2>2 DEF Settled, Written
  <2>4. QED
    BY <1>1, <1>2, <1>4, <2>1, <2>3, FileEnds
<1>7. QED
  BY <1>5, <1>6

LEMMA SyncFileStep ==
    ASSUME IInv, NEW p \in Publishers, SyncFile(p)
    PROVE  IInv'
<1> DEFINE f == [Current(p) EXCEPT !.kept = Current(p).has]
<1>1. publisher[p] # Nothing /\ publisher[p].at = "sync" /\ Puts(p, f)
      /\ published' = published /\ announced' = announced /\ outages' = outages
  BY DEF SyncFile, At
<1>2. publisher[p].at \in Writing
  BY <1>1 DEF Writing
<1>3. /\ publisher[p] \in Publications /\ Current(p) \in FileStates
      /\ Written(publisher[p], Current(p))
  BY <1>1, <1>2, WritingFacts
<1>4. f \in FileStates /\ f.has = Current(p).has /\ f.kept = Current(p).has
  BY <1>3 DEF FileStates
<1>5. "bytes" \in f.has /\ (Asset(p) = "runtime" => f.has = Parts)
  BY <1>1, <1>3, <1>4 DEF Written, Asset
<1> HIDE DEF f
<1>6. CASE Asset(p) = "launch set"
  <2> DEFINE next == [publisher[p] EXCEPT !.at = "mode"]
  <2>1. next.at = "mode" /\ next.asset = "launch set"
    BY <1>3, <1>6 DEF Publications, Asset
  <2>2. Written(next, f)
    BY <1>4, <1>5, <2>1 DEF Written
  <2>3. Proceeds(p, "mode") /\ "mode" \in Writing
    <3>1. ~IsReceipt(p)
      BY <1>6 DEF IsReceipt
    <3>2. QED
      BY <1>6, <3>1 DEF SyncFile, Writing
  <2>4. QED
    BY <1>1, <1>2, <1>4, <2>2, <2>3, FilePut
<1>7. CASE Asset(p) = "runtime" /\ IsReceipt(p)
  <2>1. NextFile(p)
    BY <1>7 DEF SyncFile
  <2>2. Settled(publisher[p].asset, f)
    BY <1>4, <1>5, <1>7 DEF Settled, Asset
  <2>3. QED
    BY <1>1, <1>2, <1>4, <2>1, <2>2, FileEnds
<1>8. CASE Asset(p) = "runtime" /\ ~IsReceipt(p)
  <2> DEFINE next == [publisher[p] EXCEPT !.at = "read back"]
  <2>1. next.at = "read back" /\ next.asset = "runtime"
    BY <1>3, <1>8 DEF Publications, Asset
  <2>2. Written(next, f)
    BY <1>4, <1>5, <1>8, <2>1 DEF Written
  <2>3. Proceeds(p, "read back") /\ "read back" \in Writing
    BY <1>8 DEF SyncFile, Writing
  <2>4. QED
    BY <1>1, <1>2, <1>4, <2>2, <2>3, FilePut
<1>9. QED
  BY <1>3, <1>6, <1>7, <1>8 DEF Publications, Assets, Asset

LEMMA ReadBackStep ==
    ASSUME IInv, NEW p \in Publishers, ReadBack(p)
    PROVE  IInv'
<1>1. publisher[p] # Nothing /\ publisher[p].at = "read back" /\ NextFile(p) /\ staged' = staged
      /\ published' = published /\ announced' = announced /\ outages' = outages
  BY DEF ReadBack, At
<1>2. publisher[p].at \in Writing
  BY <1>1 DEF Writing
<1>3. Current(p) \in FileStates /\ Written(publisher[p], Current(p))
  BY <1>1, <1>2, WritingFacts
<1>4. Settled(publisher[p].asset, Current(p))
  BY <1>1, <1>3 DEF Written, Settled, Parts
<1>5. QED
  BY <1>1, <1>2, <1>3, <1>4, FileEnds

(***************************************************************************)
(* The directory.                                                          *)
(***************************************************************************)

LEMMA SealStep ==
    ASSUME IInv, NEW p \in Publishers, Seal(p)
    PROVE  IInv'
<1> DEFINE place == IF Asset(p) = "runtime" THEN "rename" ELSE "parent"
           next == [publisher[p] EXCEPT !.at = place]
           dir == [staged[p] EXCEPT !.sealed = TRUE]
<1>1. /\ publisher[p] # Nothing /\ publisher[p] \in Publications /\ publisher[p].at = "seal"
      /\ staged[p] \in Directories
      /\ \A n \in 1..Files : Settled(publisher[p].asset, staged[p].files[n])
  BY AtFacts DEF Seal, At, Staged
<1>2. place \in Stages /\ place \in {"parent", "rename"}
  BY DEF Stages
<1>3. publisher' = [publisher EXCEPT ![p] = next]
  BY <1>1, ProceedsIs DEF Seal
<1> HIDE DEF place
<1>4. next \in Publications /\ next.at = place /\ next.asset = publisher[p].asset
  BY <1>1, <1>2, ProceedType
<1>5. dir \in Directories /\ dir.sealed /\ dir.files = staged[p].files
  BY <1>1 DEF Directories
<1>6. /\ staged' = [staged EXCEPT ![p] = dir]
      /\ published' = published /\ announced' = announced /\ outages' = outages
  BY <1>1 DEF Seal, IInv, TypeOK
<1> HIDE DEF next, dir
<1>7. Staged(next, dir) /\ Flushed(next, published)
  BY <1>1, <1>2, <1>4, <1>5 DEF Staged, Flushed
<1>8. QED
  BY <1>3, <1>4, <1>5, <1>6, <1>7, OneMoves

LEMMA MakeParentStep ==
    ASSUME IInv, NEW p \in Publishers, MakeParent(p)
    PROVE  IInv'
<1> DEFINE next == [publisher[p] EXCEPT !.at = "rename"]
<1>1. /\ publisher[p] # Nothing /\ publisher[p] \in Publications /\ publisher[p].at = "parent"
      /\ staged[p] \in Directories /\ staged[p].sealed
      /\ \A n \in 1..Files : Settled(publisher[p].asset, staged[p].files[n])
  BY AtFacts DEF MakeParent, At, Staged
<1>2. next \in Publications /\ next.at = "rename" /\ next.asset = publisher[p].asset
  BY <1>1, ProceedType DEF Stages
<1>3. publisher' = [publisher EXCEPT ![p] = next]
  BY <1>1, ProceedsIs DEF MakeParent
<1>4. /\ staged' = [staged EXCEPT ![p] = staged[p]]
      /\ published' = published /\ announced' = announced /\ outages' = outages
  BY DEF MakeParent, IInv, TypeOK
<1> HIDE DEF next
<1>5. Staged(next, staged[p]) /\ Flushed(next, published)
  BY <1>1, <1>2 DEF Staged, Flushed
<1>6. QED
  BY <1>1, <1>2, <1>3, <1>4, <1>5, OneMoves

\* A settled, sealed directory can be published.
LEMMA SettledIsSound ==
    ASSUME NEW asset, NEW dir, dir.sealed, \A n \in 1..Files : Settled(asset, dir.files[n])
    PROVE  Sound(asset, dir)
BY DEF Settled, Sound, Parts

LEMMA RenameStep ==
    ASSUME IInv, NEW p \in Publishers, Rename(p)
    PROVE  IInv'
<1> DEFINE run == publisher[p]
           asset == run.asset
<1>1. /\ run # Nothing /\ run \in Publications /\ run.at = "rename"
      /\ staged[p] \in Directories /\ staged[p].sealed
      /\ \A n \in 1..Files : Settled(asset, staged[p].files[n])
  BY AtFacts DEF Rename, At, Staged
<1>2. /\ staged' = [staged EXCEPT ![p] = Nothing]
      /\ announced' = announced /\ outages' = outages
  BY DEF Rename
<1>3. asset \in Assets /\ Asset(p) = asset
  BY <1>1 DEF Publications, Asset
<1>4. CASE published[asset] # Nothing
  <2> DEFINE next == [run EXCEPT !.at = "verify", !.reused = TRUE]
  <2>1. next \in Publications /\ next.at = "verify" /\ next.reused /\ next.asset = asset
    BY <1>1 DEF Stages, Publications
  <2>2. publisher' = [publisher EXCEPT ![p] = next] /\ published' = published
    BY <1>1, <1>3, <1>4 DEF Rename, IInv, TypeOK
  <2>3. Staged(next, Nothing) /\ Flushed(next, published)
    BY <1>4, <2>1 DEF Staged, Flushed
  <2> HIDE DEF next, run, asset
  <2>4. QED
    BY <1>2, <2>1, <2>2, <2>3, OneMoves
<1>5. CASE published[asset] = Nothing
  <2> DEFINE next == [run EXCEPT !.at = "flush"]
  <2>1. next \in Publications /\ next.at = "flush" /\ next.asset = asset
    BY <1>1, ProceedType DEF Stages
  <2>2. publisher' = [publisher EXCEPT ![p] = next]
    <3>1. Proceeds(p, "flush")
      BY <1>3, <1>5 DEF Rename
    <3>2. QED
      BY <1>1, <3>1, ProceedsIs
  <2>3. published' = [published EXCEPT ![asset] = staged[p]] /\ staged[p] # Nothing
    BY <1>1, <1>3, <1>5, NothingAssumption DEF Rename
  <2> HIDE DEF next, run, asset
  <2>4. TypeOK'
    BY <1>1, <1>2, <1>3, <2>1, <2>2, <2>3 DEF IInv, TypeOK
  <2>5. StagedOK'
    <3> SUFFICES ASSUME NEW q \in Publishers, publisher'[q] # Nothing
                 PROVE  Staged(publisher'[q], staged'[q])
      BY DEF StagedOK
    <3>1. CASE q = p
      <4>1. publisher'[q] = next
        BY <2>2, <3>1 DEF IInv, TypeOK
      <4>2. QED
        BY <2>1, <4>1 DEF Staged
    <3>2. CASE q # p
      <4>1. publisher'[q] = publisher[q] /\ staged'[q] = staged[q]
        BY <1>2, <2>2, <3>2 DEF IInv, TypeOK
      <4>2. QED
        BY <4>1, AtFacts
    <3>3. QED
      BY <3>1, <3>2
  <2>6. FlushedOK'
    <3> SUFFICES ASSUME NEW q \in Publishers, publisher'[q] # Nothing
                 PROVE  Flushed(publisher'[q], published')
      BY DEF FlushedOK, Flushed
    <3>1. CASE q = p
      <4>1. publisher'[q] = next /\ published'[asset] # Nothing
        BY <1>3, <2>2, <2>3, <3>1 DEF IInv, TypeOK
      <4>2. QED
        BY <2>1, <4>1 DEF Flushed
    <3>2. CASE q # p
      <4>1. publisher'[q] = publisher[q]
        BY <2>2, <3>2 DEF IInv, TypeOK
      <4>2. publisher[q] \in Publications /\ Flushed(publisher[q], published)
        BY <4>1, AtFacts, FlushedFact
      <4>3. publisher[q].asset \in Assets
        BY <4>2 DEF Publications
      <4>4. CASE publisher[q].asset = asset
        BY <1>5, <4>1, <4>2, <4>4 DEF Flushed
      <4>5. CASE publisher[q].asset # asset
        <5>1. published'[publisher[q].asset] = published[publisher[q].asset]
          BY <2>3, <4>3, <4>5 DEF IInv, TypeOK
        <5>2. QED
          BY <4>1, <4>2, <5>1 DEF Flushed
      <4>6. QED
        BY <4>4, <4>5
    <3>3. QED
      BY <3>1, <3>2
  <2>7. AnnouncedOK'
    BY <1>2, <1>3, <1>5, <2>3 DEF IInv, TypeOK, AnnouncedOK
  <2>8. WholeOK'
    <3>1. Sound(asset, staged[p])
      BY <1>1, SettledIsSound
    <3>2. QED
      BY <1>3, <2>3, <3>1 DEF IInv, TypeOK, WholeOK
  <2>9. QED
    BY <2>4, <2>5, <2>6, <2>7, <2>8 DEF IInv
<1>6. QED
  BY <1>4, <1>5

LEMMA FlushParentStep ==
    ASSUME IInv, NEW p \in Publishers, FlushParent(p)
    PROVE  IInv'
<1> DEFINE run == publisher[p]
           asset == run.asset
           next == [run EXCEPT !.at = "verify"]
           dir == [published[asset] EXCEPT !.named = TRUE]
<1>1. /\ run # Nothing /\ run \in Publications /\ run.at = "flush"
      /\ asset \in Assets /\ published[asset] # Nothing /\ published[asset] \in Directories
  BY AtFacts, FlushedFact DEF FlushParent, At, Flushed, Publications, IInv, TypeOK
<1>2. next \in Publications /\ next.at = "verify" /\ next.asset = asset
  BY <1>1, ProceedType DEF Stages
<1>3. publisher' = [publisher EXCEPT ![p] = next]
  BY <1>1, ProceedsIs DEF FlushParent
<1>4. /\ dir \in Directories /\ dir.named /\ dir # Nothing
      /\ dir.sealed = published[asset].sealed /\ dir.files = published[asset].files
  BY <1>1, NothingAssumption DEF Directories
<1>5. /\ published' = [published EXCEPT ![asset] = dir]
      /\ staged' = staged /\ announced' = announced /\ outages' = outages
  BY <1>1 DEF FlushParent, Asset, IInv, TypeOK
<1> HIDE DEF run, asset, next, dir
<1>6. TypeOK'
  BY <1>1, <1>2, <1>3, <1>4, <1>5 DEF IInv, TypeOK
<1>7. StagedOK'
  <2> SUFFICES ASSUME NEW q \in Publishers, publisher'[q] # Nothing
               PROVE  Staged(publisher'[q], staged'[q])
    BY DEF StagedOK
  <2>1. CASE q = p
    <3>1. publisher'[q] = next
      BY <1>3, <2>1 DEF IInv, TypeOK
    <3>2. QED
      BY <1>2, <3>1 DEF Staged
  <2>2. CASE q # p
    <3>1. publisher'[q] = publisher[q] /\ staged'[q] = staged[q]
      BY <1>3, <1>5, <2>2 DEF IInv, TypeOK
    <3>2. QED
      BY <3>1, AtFacts
  <2>3. QED
    BY <2>1, <2>2
<1>8. \A a \in Assets : (published'[a] = Nothing) = (published[a] = Nothing)
  BY <1>1, <1>4, <1>5 DEF IInv, TypeOK
<1>9. FlushedOK'
  <2> SUFFICES ASSUME NEW q \in Publishers, publisher'[q] # Nothing
               PROVE  Flushed(publisher'[q], published')
    BY DEF FlushedOK, Flushed
  <2>1. published'[asset] = dir
    BY <1>1, <1>5 DEF IInv, TypeOK
  <2>2. CASE q = p
    <3>1. publisher'[q] = next
      BY <1>3, <2>2 DEF IInv, TypeOK
    <3>2. QED
      BY <1>2, <1>4, <2>1, <3>1 DEF Flushed
  <2>3. CASE q # p
    <3>1. publisher'[q] = publisher[q]
      BY <1>3, <2>3 DEF IInv, TypeOK
    <3>2. publisher[q] \in Publications /\ Flushed(publisher[q], published)
      BY <3>1, AtFacts, FlushedFact
    <3>3. publisher[q].asset \in Assets
      BY <3>2 DEF Publications
    <3>4. CASE publisher[q].asset = asset
      BY <1>4, <2>1, <3>1, <3>4 DEF Flushed
    <3>5. CASE publisher[q].asset # asset
      <4>1. published'[publisher[q].asset] = published[publisher[q].asset]
        BY <1>5, <3>3, <3>5 DEF IInv, TypeOK
      <4>2. QED
        BY <3>1, <3>2, <4>1 DEF Flushed
    <3>6. QED
      BY <3>4, <3>5
  <2>4. QED
    BY <2>2, <2>3
<1>10. AnnouncedOK'
  BY <1>1, <1>4, <1>5 DEF IInv, TypeOK, AnnouncedOK
<1>11. WholeOK'
  <2>1. Sound(asset, dir)
    BY <1>1, <1>4 DEF IInv, WholeOK, Sound
  <2>2. QED
    BY <1>1, <1>5, <2>1 DEF IInv, TypeOK, WholeOK
<1>12. QED
  BY <1>6, <1>7, <1>9, <1>10, <1>11 DEF IInv

LEMMA VerifyStep ==
    ASSUME IInv, NEW p \in Publishers, Verify(p)
    PROVE  IInv'
<1> DEFINE run == publisher[p]
           asset == run.asset
<1>1. /\ run # Nothing /\ run \in Publications /\ run.at = "verify" /\ asset \in Assets
      /\ Flushed(run, published)
  BY AtFacts, FlushedFact DEF Verify, At, Publications
<1>2. staged' = staged /\ published' = published /\ outages' = outages
  BY DEF Verify
<1>3. PICK next \in Publications \cup {Nothing} :
        /\ publisher' = [publisher EXCEPT ![p] = next]
        /\ next # Nothing => next.at = "look" /\ next.file = 1
  <2>1. /\ Looking("launch set") \in Publications
        /\ Looking("launch set").at = "look" /\ Looking("launch set").file = 1
    BY LookingType DEF Looking, Assets
  <2> DEFINE next == IF Whole(published[Asset(p)]) /\ Asset(p) = "runtime"
                     THEN Looking("launch set") ELSE Nothing
  <2>2. publisher' = [publisher EXCEPT ![p] = next]
    BY DEF Verify
  <2>3. /\ next \in Publications \cup {Nothing}
        /\ next # Nothing => next.at = "look" /\ next.file = 1
    BY <2>1
  <2> HIDE DEF next
  <2>4. QED
    BY <2>2, <2>3
<1>4. \/ announced' = announced
      \/ announced' = announced \cup {asset} /\ ~run.reused
  BY DEF Verify, Asset
<1> HIDE DEF run, asset
<1>5. TypeOK'
  BY <1>1, <1>2, <1>3, <1>4 DEF IInv, TypeOK
<1>6. StagedOK'
  <2> SUFFICES ASSUME NEW q \in Publishers, publisher'[q] # Nothing
               PROVE  Staged(publisher'[q], staged'[q])
    BY DEF StagedOK
  <2>1. CASE q = p
    <3>1. publisher'[q] = next
      BY <1>3, <2>1 DEF IInv, TypeOK
    <3>2. QED
      BY <1>3, <3>1 DEF Staged
  <2>2. CASE q # p
    <3>1. publisher'[q] = publisher[q] /\ staged'[q] = staged[q]
      BY <1>2, <1>3, <2>2 DEF IInv, TypeOK
    <3>2. QED
      BY <3>1, AtFacts
  <2>3. QED
    BY <2>1, <2>2
<1>7. FlushedOK'
  <2> SUFFICES ASSUME NEW q \in Publishers, publisher'[q] # Nothing
               PROVE  Flushed(publisher'[q], published')
    BY DEF FlushedOK, Flushed
  <2>1. CASE q = p
    <3>1. publisher'[q] = next
      BY <1>3, <2>1 DEF IInv, TypeOK
    <3>2. QED
      BY <1>3, <3>1 DEF Flushed
  <2>2. CASE q # p
    <3>1. publisher'[q] = publisher[q]
      BY <1>3, <2>2 DEF IInv, TypeOK
    <3>2. QED
      BY <1>2, <3>1, FlushedFact
  <2>3. QED
    BY <2>1, <2>2
<1>8. AnnouncedOK' /\ WholeOK'
  <2>1. AnnouncedOK'
    <3>1. CASE announced' = announced
      BY <1>2, <3>1 DEF IInv, AnnouncedOK
    <3>2. CASE announced' = announced \cup {asset} /\ ~run.reused
      <4>1. published[asset] # Nothing /\ published[asset].named
        BY <1>1, <3>2 DEF Flushed, asset
      <4>2. QED
        BY <1>2, <3>2, <4>1 DEF IInv, AnnouncedOK
    <3>3. QED
      BY <1>4, <3>1, <3>2
  <2>2. WholeOK'
    BY <1>2 DEF IInv, WholeOK
  <2>3. QED
    BY <2>1, <2>2
<1>9. QED
  BY <1>5, <1>6, <1>7, <1>8 DEF IInv

LEMMA AbandonStep ==
    ASSUME IInv, NEW p \in Publishers, Abandon(p)
    PROVE  IInv'
BY OneMoves DEF Abandon

(***************************************************************************)
(* A power loss.                                                           *)
(***************************************************************************)

LEMMA LeftFacts ==
    ASSUME NEW asset, NEW dir \in Directories, NEW lost, Sound(asset, dir)
    PROVE  /\ Left(dir, lost) \in Directories /\ Left(dir, lost).named
           /\ Sound(asset, Left(dir, lost))
<1> DEFINE left(n) == dir.files[n].has \ ({x \in Parts : <<n, x>> \in lost}
                          \ (IF dir.sealed THEN dir.files[n].kept ELSE {}))
           files == [n \in 1..Files |-> [has |-> left(n), kept |-> left(n)]]
<1>1. Left(dir, lost) = [files |-> files, sealed |-> dir.sealed, named |-> TRUE]
  BY DEF Left
<1>2. ASSUME NEW n \in 1..Files
      PROVE  /\ left(n) \in SUBSET Parts
             /\ "bytes" \in left(n)
             /\ asset = "runtime" => left(n) = Parts
  <2>1. /\ dir.sealed /\ dir.files[n].has \in SUBSET Parts
        /\ "bytes" \in dir.files[n].has /\ "bytes" \in dir.files[n].kept
        /\ asset = "runtime" => dir.files[n].has = Parts /\ dir.files[n].kept = Parts
    BY <1>2 DEF Sound, Directories, FileStates
  <2>2. QED
    BY <2>1
<1> HIDE DEF left
<1>3. files \in [1..Files -> FileStates]
  BY <1>2 DEF FileStates
<1>4. \A n \in 1..Files : files[n].has = left(n) /\ files[n].kept = left(n)
  OBVIOUS
<1> HIDE DEF files
<1>5. dir.sealed
  BY DEF Sound
<1>6. /\ Left(dir, lost) \in Directories /\ Left(dir, lost).named
      /\ Left(dir, lost).sealed /\ Left(dir, lost).files = files
  BY <1>1, <1>3, <1>5 DEF Directories
<1>7. Sound(asset, Left(dir, lost))
  BY <1>2, <1>4, <1>6 DEF Sound
<1>8. QED
  BY <1>6, <1>7

LEMMA OutageStep ==
    ASSUME IInv, NEW gone, NEW lost, Outage(gone, lost)
    PROVE  IInv'
<1>1. \A p \in Publishers : publisher'[p] = Nothing
  BY DEF Outage
<1>2. ASSUME NEW a \in Assets, published'[a] # Nothing
      PROVE  /\ published'[a] \in Directories /\ published'[a].named
             /\ Sound(a, published'[a])
  <2>1. published'[a] = Left(published[a], lost) /\ published[a] # Nothing
    BY <1>2 DEF Outage
  <2>2. published[a] \in Directories /\ Sound(a, published[a])
    BY <1>2, <2>1 DEF IInv, TypeOK, WholeOK
  <2>3. QED
    BY <2>1, <2>2, LeftFacts
<1>3. TypeOK'
  <2>1. /\ publisher' \in [Publishers -> Publications \cup {Nothing}]
        /\ staged' \in [Publishers -> Directories \cup {Nothing}]
    BY DEF Outage
  <2>2. published' = [a \in Assets |-> published'[a]]
    BY DEF Outage
  <2>3. published' \in [Assets -> Directories \cup {Nothing}]
    BY <1>2, <2>2
  <2>4. announced' \in SUBSET Assets /\ outages' \in Nat
    BY DEF Outage, IInv, TypeOK
  <2>5. QED
    BY <2>1, <2>3, <2>4 DEF TypeOK
<1>4. StagedOK' /\ FlushedOK'
  BY <1>1 DEF StagedOK, FlushedOK
<1>5. AnnouncedOK'
  BY <1>2 DEF Outage, IInv, TypeOK, AnnouncedOK
<1>6. WholeOK'
  BY <1>2 DEF WholeOK
<1>7. QED
  BY <1>3, <1>4, <1>5, <1>6 DEF IInv

(***************************************************************************)
(* The theorems.                                                           *)
(***************************************************************************)

LEMMA PublishInductive == PublishSpec => []IInv
<1>1. PublishInit => IInv
  <2> SUFFICES ASSUME PublishInit PROVE IInv
    OBVIOUS
  <2>1. TypeOK
    BY DEF PublishInit, TypeOK
  <2>2. StagedOK /\ FlushedOK /\ AnnouncedOK /\ WholeOK
    BY DEF PublishInit, StagedOK, FlushedOK, AnnouncedOK, WholeOK
  <2>3. QED
    BY <2>1, <2>2 DEF IInv
<1>2. IInv /\ [PublishNext]_publishVars => IInv'
  <2> SUFFICES ASSUME IInv, [PublishNext]_publishVars PROVE IInv'
    OBVIOUS
  <2>1. CASE UNCHANGED publishVars
    BY <2>1 DEF publishVars, IInv, TypeOK, StagedOK, FlushedOK, AnnouncedOK, WholeOK
  <2>2. CASE PublishNext
    BY <2>2, BeginStep, LookStep, ClaimStep, WriteBytesStep, SetModeStep, SyncFileStep,
       ReadBackStep, SealStep, MakeParentStep, RenameStep, FlushParentStep, VerifyStep, AbandonStep, OutageStep
       DEF PublishNext
  <2>3. QED
    BY <2>1, <2>2
<1>3. QED
  BY <1>1, <1>2, PTL DEF PublishSpec

\* Whatever publishers meet in a rename and whenever the power goes, a final
\* name bears a directory whose entries and bytes are durable, a candidate's
\* modes too (materializer.ts materialize, launchers.ts publish).
THEOREM PublicationIsWhole == PublishSpec => []PublishedIsWhole
<1>1. IInv => PublishedIsWhole
  BY DEF IInv, WholeOK, Sound, PublishedIsWhole
<1>2. QED
  BY <1>1, PublishInductive, PTL

(***************************************************************************)
(* The directories above.                                                  *)
(***************************************************************************)

\* Whatever is under a parent has it: the directories of a publisher, of a
\* launch set about to be renamed, and of what is published.
ParentsOK ==
    /\ parents \in [made : SUBSET Parents, kept : SUBSET Parents]
    /\ \A p \in Publishers : publisher[p] # Nothing =>
         /\ "stable root" \in parents.made
         /\ publisher[p].at = "rename" => Above(publisher[p].asset) \subseteq parents.made
    /\ \A a \in Assets : published[a] # Nothing => Above(a) \subseteq parents.made

\* One publisher steps: no parent goes, and those it needs are there.
LEMMA ParentsGrow ==
    ASSUME IInv, ParentsOK, NEW p \in Publishers,
           \A q \in Publishers : q # p => publisher'[q] = publisher[q],
           parents' \in [made : SUBSET Parents, kept : SUBSET Parents],
           parents.made \subseteq parents'.made, "stable root" \in parents'.made,
           publisher'[p] # Nothing /\ publisher'[p].at = "rename"
             => Above(publisher'[p].asset) \subseteq parents'.made,
           \A a \in Assets : published'[a] # Nothing
             => published[a] # Nothing \/ Above(a) \subseteq parents'.made
    PROVE  ParentsOK'
BY DEF ParentsOK

\* The steps that leave the parents and the names alone, and those that do not.
Quiet(p) == \/ Look(p) \/ Claim(p) \/ WriteBytes(p) \/ SetMode(p) \/ SyncFile(p)
            \/ ReadBack(p) \/ Verify(p) \/ Abandon(p)
Moves(p) == Quiet(p) \/ Begin(p) \/ Seal(p) \/ MakeParent(p) \/ Rename(p) \/ FlushParent(p)

LEMMA OthersKeep ==
    ASSUME IInv, NEW p \in Publishers, Moves(p), NEW q \in Publishers, q # p
    PROVE  publisher'[q] = publisher[q]
<1>1. publisher \in [Publishers -> Publications \cup {Nothing}]
  BY DEF IInv, TypeOK
<1>2. PICK run : publisher' = [publisher EXCEPT ![p] = run]
  <2>1. CASE Begin(p) \/ Look(p) \/ Verify(p) \/ Abandon(p) \/ Rename(p)
    BY <2>1 DEF Begin, Look, Verify, Abandon, Rename, Proceeds
  <2>2. CASE Claim(p) \/ WriteBytes(p) \/ Seal(p) \/ MakeParent(p) \/ FlushParent(p)
    BY <2>2 DEF Claim, WriteBytes, Seal, MakeParent, FlushParent, Proceeds
  <2>3. CASE SetMode(p) \/ SyncFile(p) \/ ReadBack(p)
    BY <2>3 DEF SetMode, SyncFile, ReadBack, Proceeds, NextFile
  <2>4. QED
    BY <2>1, <2>2, <2>3 DEF Moves, Quiet
<1>3. QED
  BY <1>1, <1>2

\* Where a quiet step leads, it is not the rename.
LEMMA QuietStays ==
    ASSUME IInv, NEW p \in Publishers, Quiet(p)
    PROVE  /\ publisher[p] # Nothing
           /\ publisher'[p] = Nothing \/ publisher'[p].at # "rename"
           /\ published' = published /\ parents' = parents
<1>1. publisher \in [Publishers -> Publications \cup {Nothing}]
  BY DEF IInv, TypeOK
<1>2. CASE Look(p)
  BY <1>1, <1>2 DEF Look, At, Proceeds, Publications
<1>3. CASE Claim(p)
  BY <1>1, <1>3 DEF Claim, At, Proceeds, Publications
<1>4. CASE WriteBytes(p)
  <2>1. PICK stage \in {"mode", "sync"} : Proceeds(p, stage)
    BY <1>4 DEF WriteBytes
  <2>2. publisher[p] \in Publications
    BY <1>1, <1>4 DEF WriteBytes, At
  <2>3. publisher'[p].at = stage
    BY <1>1, <2>1, <2>2 DEF Proceeds, Publications
  <2>4. QED
    BY <1>4, <2>3 DEF WriteBytes, At
<1>5. CASE SetMode(p) \/ SyncFile(p) \/ ReadBack(p)
  <2>1. publisher[p] \in Publications
    BY <1>1, <1>5 DEF SetMode, SyncFile, ReadBack, At
  <2>2. CASE NextFile(p)
    <3>1. PICK next \in Publications :
            publisher' = [publisher EXCEPT ![p] = next] /\ After(publisher[p], next)
      BY <2>1, <2>2, NextFileIs
    <3>2. publisher'[p] = next
      BY <1>1, <3>1
    <3>3. QED
      BY <1>5, <3>1, <3>2 DEF After, SetMode, SyncFile, ReadBack, At
  <2>3. CASE \E stage \in {"mode", "sync", "read back"} : Proceeds(p, stage)
    <3>1. PICK stage \in {"mode", "sync", "read back"} : Proceeds(p, stage)
      BY <2>3
    <3>2. publisher'[p].at = stage
      BY <1>1, <2>1, <3>1 DEF Proceeds, Publications
    <3>3. QED
      BY <1>5, <3>2 DEF SetMode, SyncFile, ReadBack, At
  <2>4. QED
    BY <1>5, <2>2, <2>3 DEF SetMode, SyncFile, ReadBack
<1>6. CASE Abandon(p)
  BY <1>1, <1>6 DEF Abandon
<1>7. CASE Verify(p)
  <2>1. Looking("launch set").at = "look"
    BY DEF Looking
  <2>2. publisher'[p] \in {Looking("launch set"), Nothing}
    BY <1>1, <1>7 DEF Verify
  <2>3. QED
    BY <1>7, <2>1, <2>2 DEF Verify, At
<1>8. QED
  BY <1>2, <1>3, <1>4, <1>5, <1>6, <1>7 DEF Quiet

LEMMA MovesKeepParents ==
    ASSUME IInv, ParentsOK, NEW p \in Publishers, Moves(p)
    PROVE  ParentsOK'
<1>1. \A q \in Publishers : q # p => publisher'[q] = publisher[q]
  BY OthersKeep
<1>2. parents \in [made : SUBSET Parents, kept : SUBSET Parents]
  BY DEF ParentsOK
<1>3. publisher \in [Publishers -> Publications \cup {Nothing}]
  BY DEF IInv, TypeOK
<1>4. CASE Quiet(p)
  <2>1. "stable root" \in parents.made
    BY <1>4, QuietStays DEF ParentsOK
  <2>2. QED
    BY <1>1, <1>2, <1>4, <2>1, QuietStays, ParentsGrow
<1>5. CASE Begin(p)
  <2>1. /\ parents' \in [made : SUBSET Parents, kept : SUBSET Parents]
        /\ parents'.made = parents.made \cup {"stable root"}
    BY <1>2, <1>5 DEF Begin, Parents
  <2>2. publisher'[p].at = "look" /\ published' = published
    BY <1>3, <1>5 DEF Begin, Looking
  <2>3. QED
    BY <1>1, <2>1, <2>2, ParentsGrow
<1>6. CASE Seal(p)
  <2>1. /\ publisher[p] \in Publications /\ "stable root" \in parents.made
        /\ parents' = parents /\ published' = published
    BY <1>3, <1>6 DEF Seal, At, ParentsOK
  <2> DEFINE place == IF Asset(p) = "runtime" THEN "rename" ELSE "parent"
  <2>2. publisher'[p] = [publisher[p] EXCEPT !.at = place]
    BY <1>3, <1>6 DEF Seal, Proceeds
  <2>3. publisher'[p].at = place /\ publisher'[p].asset = Asset(p)
    BY <2>1, <2>2 DEF Publications, Asset
  <2>4. publisher'[p].at = "rename" => Above(publisher'[p].asset) \subseteq parents.made
    BY <2>1, <2>3 DEF Above
  <2> HIDE DEF place
  <2>5. QED
    BY <1>1, <1>2, <2>1, <2>4, ParentsGrow
<1>7. CASE MakeParent(p)
  <2>1. publisher[p] # Nothing /\ "stable root" \in parents.made /\ published' = published
    BY <1>7 DEF MakeParent, At, ParentsOK
  <2>2. /\ parents' \in [made : SUBSET Parents, kept : SUBSET Parents]
        /\ parents'.made = parents.made \cup {"launchers"}
    BY <1>2, <1>7 DEF MakeParent, Parents
  <2>3. Parents \subseteq parents'.made
    BY <2>1, <2>2 DEF Parents
  <2>4. QED
    BY <1>1, <2>1, <2>2, <2>3, ParentsGrow DEF Above
<1>8. CASE Rename(p)
  <2>1. /\ publisher[p] # Nothing /\ publisher[p] \in Publications
        /\ publisher[p].at = "rename" /\ parents' = parents
    BY <1>3, <1>8 DEF Rename, At
  <2>2. "stable root" \in parents.made /\ Above(Asset(p)) \subseteq parents.made
    BY <2>1 DEF ParentsOK, Asset
  <2>3. \A a \in Assets : a # Asset(p) => published'[a] = published[a]
    BY <1>8 DEF Rename, IInv, TypeOK
  <2>4. publisher'[p].at \in {"flush", "verify"}
    BY <1>3, <1>8, <2>1 DEF Rename, Proceeds, Publications
  <2>5. QED
    BY <1>1, <1>2, <2>1, <2>2, <2>3, <2>4, ParentsGrow
<1>9. CASE FlushParent(p)
  <2>1. publisher[p] # Nothing /\ publisher[p] \in Publications /\ publisher[p].at = "flush"
    BY <1>3, <1>9 DEF FlushParent, At
  <2>2. /\ "stable root" \in parents.made
        /\ parents' \in [made : SUBSET Parents, kept : SUBSET Parents]
        /\ parents'.made = parents.made
    BY <1>2, <1>9, <2>1 DEF FlushParent, Parents, ParentsOK
  <2>3. publisher'[p].at = "verify"
    BY <1>3, <1>9, <2>1 DEF FlushParent, Proceeds, Publications
  <2>4. published[Asset(p)] # Nothing /\ Asset(p) \in Assets
    BY <2>1, FlushedFact DEF Flushed, Asset, Publications
  <2>5. \A a \in Assets : a # Asset(p) => published'[a] = published[a]
    BY <1>9 DEF FlushParent, IInv, TypeOK
  <2>6. QED
    BY <1>1, <2>2, <2>3, <2>4, <2>5, ParentsGrow
<1>10. QED
  BY <1>4, <1>5, <1>6, <1>7, <1>8, <1>9 DEF Moves

LEMMA OutageKeepsParents ==
    ASSUME IInv, ParentsOK, NEW gone, NEW lost, Outage(gone, lost)
    PROVE  ParentsOK'
<1>1. \A p \in Publishers : publisher'[p] = Nothing
  BY DEF Outage
<1>2. parents' = [made |-> Standing(gone), kept |-> Standing(gone)] /\ Standing(gone) \subseteq Parents
  BY DEF Outage, Standing, ParentsOK
<1>3. \A a \in Assets : published'[a] # Nothing => Above(a) \subseteq Standing(gone)
  BY DEF Outage
<1> HIDE DEF Standing
<1>4. QED
  BY <1>1, <1>2, <1>3 DEF ParentsOK

LEMMA ParentsInductive == PublishSpec => []ParentsOK
<1>1. PublishInit => ParentsOK
  BY DEF PublishInit, ParentsOK
<1>2. IInv /\ ParentsOK /\ [PublishNext]_publishVars => ParentsOK'
  <2> SUFFICES ASSUME IInv, ParentsOK, [PublishNext]_publishVars PROVE ParentsOK'
    OBVIOUS
  <2>1. CASE UNCHANGED publishVars
    BY <2>1 DEF publishVars, ParentsOK
  <2>2. CASE PublishNext
    BY <2>2, MovesKeepParents, OutageKeepsParents DEF PublishNext, Moves, Quiet
  <2>3. QED
    BY <2>1, <2>2
<1>3. QED
  BY <1>1, <1>2, PublishInductive, PTL DEF PublishSpec

(***************************************************************************)
(* What was reported.                                                      *)
(***************************************************************************)

\* No publisher takes a name away.
LEMMA MovesKeepNames ==
    ASSUME IInv, NEW p \in Publishers, Moves(p), NEW a \in Assets, published[a] # Nothing
    PROVE  published'[a] # Nothing
<1>1. published \in [Assets -> Directories \cup {Nothing}]
  BY DEF IInv, TypeOK
<1>2. CASE Quiet(p)
  BY <1>2, QuietStays
<1>3. CASE Begin(p) \/ Seal(p) \/ MakeParent(p)
  BY <1>3 DEF Begin, Seal, MakeParent
<1>4. CASE Rename(p)
  BY <1>1, <1>4 DEF Rename
<1>5. CASE FlushParent(p)
  <2>1. CASE a = Asset(p)
    <3>1. [published[a] EXCEPT !.named = TRUE] \in Directories
      BY <1>1 DEF Directories
    <3>2. published'[a] = [published[a] EXCEPT !.named = TRUE]
      BY <1>1, <1>5, <2>1 DEF FlushParent
    <3>3. QED
      BY <3>1, <3>2, NothingAssumption
  <2>2. CASE a # Asset(p)
    BY <1>1, <1>5, <2>2 DEF FlushParent
  <2>3. QED
    BY <2>1, <2>2
<1>6. QED
  BY <1>2, <1>3, <1>4, <1>5 DEF Moves

\* A synced name that a power loss takes was under a parent that went, and
\* that parent's own name had not been synced.
LEMMA OutageTakesParent ==
    ASSUME IInv, ParentsOK, NEW gone, NEW lost, Outage(gone, lost),
           NEW a \in announced, published'[a] = Nothing
    PROVE  \E d \in Above(a) : d \in parents.made \ parents.kept /\ d \notin parents'.made
<1> DEFINE left == {d \in parents.made : d \in gone => d \in parents.kept}
<1>1. a \in Assets /\ published[a] # Nothing /\ published[a].named
  BY DEF IInv, TypeOK, AnnouncedOK
<1>2. ~(Above(a) \subseteq Standing(gone))
  <2> SUFFICES ASSUME Above(a) \subseteq Standing(gone) PROVE FALSE
    OBVIOUS
  <2>1. published'[a] = Left(published[a], lost)
    BY <1>1 DEF Outage
  <2>2. published[a] \in Directories /\ Sound(a, published[a])
    BY <1>1 DEF IInv, TypeOK, WholeOK
  <2>3. Left(published[a], lost) \in Directories
    BY <2>2, LeftFacts
  <2>4. QED
    BY <2>1, <2>3, NothingAssumption
<1>3. Above(a) \subseteq parents.made /\ "stable root" \in Above(a)
  BY <1>1 DEF ParentsOK, Above, Parents
<1>4. parents'.made = {d \in left : "stable root" \in left}
  BY DEF Outage, Standing
<1>5. CASE "stable root" \in left
  <2>1. PICK d \in Above(a) : d \notin parents'.made
    BY <1>2 DEF Outage
  <2>2. d \in parents.made /\ d \notin left
    BY <1>3, <1>4, <1>5, <2>1
  <2>3. QED
    BY <2>1, <2>2
<1>6. CASE "stable root" \notin left
  BY <1>3, <1>4, <1>6
<1>7. QED
  BY <1>5, <1>6

\* A directory its own publisher reported is gone only with a directory above
\* it whose own name nobody had synced: it reports what it verified after the
\* sync of the parent, nobody renames over it, and no publisher takes a name
\* away (launchers.ts publish, materializer.ts materialize, ensureStableRoot).
THEOREM PublicationLasts == PublishSpec => AnnouncedStays
<1> DEFINE Stays == \A a \in announced : published'[a] = Nothing =>
             \E d \in Above(a) : d \in parents.made \ parents.kept /\ d \notin parents'.made
<1>1. IInv /\ ParentsOK /\ [PublishNext]_publishVars => [Stays]_publishVars
  <2> SUFFICES ASSUME IInv, ParentsOK, PublishNext, NEW a \in announced, published'[a] = Nothing
               PROVE  \E d \in Above(a) : d \in parents.made \ parents.kept /\ d \notin parents'.made
    OBVIOUS
  <2>1. a \in Assets /\ published[a] # Nothing
    BY DEF IInv, TypeOK, AnnouncedOK
  <2>2. ASSUME NEW p \in Publishers, Moves(p) PROVE FALSE
    BY <2>1, <2>2, MovesKeepNames
  <2>3. PICK gone, lost : Outage(gone, lost)
    BY <2>2 DEF PublishNext, Moves, Quiet
  <2>4. QED
    BY <2>3, OutageTakesParent
<1>2. QED
  BY <1>1, PublishInductive, ParentsInductive, PTL DEF PublishSpec, AnnouncedStays

\* The promise of a published asset to the journal and the config that name
\* it: nothing of it is missing, and it goes only with a parent that nobody
\* had synced (manager.ts runActivate).
THEOREM PublicationCorrect == PublishSpec => PublicationHolds
BY PublicationIsWhole, PublicationLasts, PTL DEF PublicationHolds

-----------------------------------------------------------------------------
(* Formation: the order of the steps *)

\* The place of a step on every path; 0 for one that may be anywhere.
Order(x) ==
    CASE x \in {"placement-planned", "define-issued"} -> 2
      [] x \in {"workspace-open-issued", "defined"} -> 4
      [] x = "open" -> 5
      [] x = "workspace-open-returned" -> 6
      [] x = "target-observed" -> 8
      [] x = "route-issued" -> 10
      [] x = "decide" -> 11
      [] x = "decide-again" -> 12
      [] x \in {"route-declined", "route-mismatch", "route-selected"} -> 14
      [] x = "prepared" -> 16
      [] x \in {"create-issued", "bootstrap-issued"} -> 18
      [] x = "create" -> 19
      [] x \in {"create-returned", "bootstrapped"} -> 20
      [] x = "create-observed" -> 22
      [] x \in {"member", "reread"} -> 23
      [] x = "membership-observed" -> 24
      [] x \in {"delivery-handed-off", "send-issued"} -> 26
      [] x = "send" -> 27
      [] x = "sent" -> 28
      [] x \in Results -> 40
      [] OTHER -> 0

\* The step x may come before the step y; nothing that can fail follows a send.
AfterSend == {"sent", "host-accepted", "send-uncertain"}
Apart(x, y) ==
    /\ Order(x) # 0 /\ Order(y) # 0 => Order(x) < Order(y)
    /\ x = "send" => y \in AfterSend
Sorted(t) == t \in Seq(Steps) /\ \A i, j \in 1..Len(t) : i < j => Apart(t[i], t[j])

\* A call with the steps S before it, the phases P on disk: it ends with a
\* result, and an effect follows its phase.
Owed(S, P) ==
    /\ S \cap Results # {}
    /\ "open" \in S => "workspace-open-issued" \in S \cup P
    /\ S \cap Decisions # {} => "route-issued" \in S \cup P
    /\ "decide" \in S => "decide-again" \notin S
    /\ "create" \in S => "create-issued" \in S \cup P \/ "bootstrap-issued" \in S \cup P
    /\ "send" \in S => "send-issued" \in S \cup P
\* What its result will say of the effects done, D.
Unsent == Results \ {"host-accepted", "send-uncertain"}
Promised(S, D) ==
    /\ "send" \in S => "create" \in S \cup D
    /\ "host-accepted" \in S => "create" \in S \cup D /\ "send" \in S \cup D
    /\ S \cap Unsent # {} => "send" \notin S
\* What is on disk and what was called lies before it.
Past(S, P, calls) ==
    /\ \A x \in S : Order(x) # 0 =>
         /\ \A p \in P : Order(p) < Order(x)
         /\ \A e \in Effects : calls[e] # 0 => Order(e) < Order(x)
    /\ calls["send"] # 0 => S \subseteq AfterSend
Fitting(t, P, done, calls) ==
    Sorted(t) /\ Owed(ToSet(t), P) /\ Promised(ToSet(t), done) /\ Past(ToSet(t), P, calls)
Fits(t) == Fitting(t, ToSet(receipt.phases), host.done, host.calls)

-----------------------------------------------------------------------------
(* Sequences of steps *)

\* The steps of a path, piece by piece.
LEMMA StepsOf ==
    ASSUME NEW t \in Seq(Steps)
    PROVE  /\ Len(t) \in Nat /\ \A i \in 1..Len(t) : t[i] \in Steps /\ t[i] \in ToSet(t)
           /\ \A x \in ToSet(t) : x \in Steps /\ \E i \in 1..Len(t) : x = t[i]
<1>1. DOMAIN t = 1..Len(t) /\ Len(t) \in Nat
  BY LenProperties
<1>2. \A i \in 1..Len(t) : t[i] \in Steps
  BY ElementOfSeq
<1> QED
  BY <1>1, <1>2 DEF ToSet

\* Taking the first step.
LEMMA FirstStep ==
    ASSUME NEW t, Sorted(t), t # <<>>
    PROVE  /\ Sorted(Tail(t)) /\ Head(t) \in Steps /\ Head(t) \in ToSet(t)
           /\ ToSet(t) = {Head(t)} \cup ToSet(Tail(t))
           /\ \A y \in ToSet(Tail(t)) : Apart(Head(t), y)
           /\ Tail(t) # <<>> => t[2] \in ToSet(t)
<1> DEFINE u == Tail(t)
<1>1. /\ t \in Seq(Steps) /\ Len(t) \in Nat \ {0}
      /\ u \in Seq(Steps) /\ Len(u) = Len(t) - 1
      /\ \A i \in 1..Len(u) : u[i] = t[i + 1]
      /\ Head(t) = t[1]
  BY HeadTailProperties, EmptySeq, LenProperties DEF Sorted
<1>2. u # <<>> => Len(u) # 0
  BY <1>1, EmptySeq
<1> HIDE DEF u
<1>3. \A i, j \in 1..Len(t) : i < j => Apart(t[i], t[j])
  BY DEF Sorted
<1>4. ASSUME NEW i \in 1..Len(u)
      PROVE  i + 1 \in 1..Len(t) /\ 1 \in 1..Len(t) /\ 1 < i + 1 /\ u[i] = t[i + 1]
  BY <1>1
<1>5. Sorted(u)
  <2> SUFFICES ASSUME NEW i \in 1..Len(u), NEW j \in 1..Len(u), i < j
               PROVE  Apart(u[i], u[j])
    BY <1>1 DEF Sorted
  <2>1. i + 1 < j + 1
    BY <1>1
  <2>2. Apart(t[i + 1], t[j + 1])
    BY <1>3, <1>4, <2>1
  <2>3. QED
    BY <1>4, <2>2
<1>6. 1 \in 1..Len(t)
  BY <1>1
<1>7. Head(t) \in ToSet(t) /\ Head(t) \in Steps
  BY <1>1, <1>6, StepsOf
<1>8. \A y \in ToSet(u) : y \in ToSet(t) /\ Apart(Head(t), y)
  <2> TAKE y \in ToSet(u)
  <2>1. PICK i \in 1..Len(u) : y = u[i]
    BY <1>1, StepsOf
  <2>2. y = t[i + 1] /\ i + 1 \in 1..Len(t) /\ Apart(t[1], t[i + 1])
    BY <1>3, <1>4, <2>1
  <2>3. QED
    BY <2>2, <1>1, StepsOf
<1>9. \A y \in ToSet(t) : y = Head(t) \/ y \in ToSet(u)
  <2> TAKE y \in ToSet(t)
  <2>1. PICK i \in 1..Len(t) : y = t[i]
    BY <1>1, StepsOf
  <2>2. CASE i = 1
    BY <1>1, <2>1, <2>2
  <2>3. CASE i # 1
    <3>1. i - 1 \in 1..Len(u) /\ (i - 1) + 1 = i
      BY <1>1, <2>3
    <3>2. u[i - 1] = y
      BY <1>1, <2>1, <3>1
    <3>3. QED
      BY <1>1, <3>1, <3>2, StepsOf
  <2>4. QED
    BY <2>2, <2>3
<1>10. ToSet(t) = {Head(t)} \cup ToSet(u)
  BY <1>7, <1>8, <1>9
<1>11. u # <<>> => t[2] \in ToSet(t)
  <2> SUFFICES ASSUME u # <<>> PROVE t[2] \in ToSet(t)
    OBVIOUS
  <2>1. 2 \in 1..Len(t)
    BY <1>1, <1>2
  <2>2. QED
    BY <1>1, <2>1, StepsOf
<1> QED
  BY <1>5, <1>7, <1>8, <1>10, <1>11 DEF u

\* One stretch of a path after another.
LEMMA Joined ==
    ASSUME NEW s, NEW t, Sorted(s), Sorted(t), \A x \in ToSet(s), y \in ToSet(t) : Apart(x, y)
    PROVE  Sorted(s \o t) /\ ToSet(s \o t) = ToSet(s) \cup ToSet(t)
<1> DEFINE u == s \o t
<1>1. /\ s \in Seq(Steps) /\ Len(s) \in Nat
      /\ t \in Seq(Steps) /\ Len(t) \in Nat
      /\ u \in Seq(Steps) /\ Len(u) = Len(s) + Len(t)
      /\ \A i \in 1..Len(u) : u[i] = IF i <= Len(s) THEN s[i] ELSE t[i - Len(s)]
  BY ConcatProperties, LenProperties DEF Sorted
<1> HIDE DEF u
<1>2. ASSUME NEW i \in 1..Len(u)
      PROVE  \/ i <= Len(s) /\ i \in 1..Len(s) /\ u[i] = s[i]
             \/ i > Len(s) /\ i - Len(s) \in 1..Len(t) /\ u[i] = t[i - Len(s)]
  BY <1>1
<1>3. Sorted(u)
  <2> SUFFICES ASSUME NEW i \in 1..Len(u), NEW j \in 1..Len(u), i < j
               PROVE  Apart(u[i], u[j])
    BY <1>1 DEF Sorted
  <2>1. CASE j <= Len(s)
    <3>1. i <= Len(s)
      BY <1>1, <2>1
    <3>2. i \in 1..Len(s) /\ j \in 1..Len(s) /\ u[i] = s[i] /\ u[j] = s[j]
      BY <1>1, <1>2, <2>1, <3>1
    <3>3. QED
      BY <3>2 DEF Sorted
  <2>2. CASE i > Len(s)
    <3>1. j > Len(s) /\ i - Len(s) < j - Len(s)
      BY <1>1, <2>2
    <3>2. /\ i - Len(s) \in 1..Len(t) /\ j - Len(s) \in 1..Len(t)
          /\ u[i] = t[i - Len(s)] /\ u[j] = t[j - Len(s)]
      BY <1>1, <1>2, <2>2, <3>1
    <3>3. QED
      BY <3>1, <3>2 DEF Sorted
  <2>3. CASE i <= Len(s) /\ j > Len(s)
    <3>1. /\ i \in 1..Len(s) /\ j - Len(s) \in 1..Len(t)
          /\ u[i] = s[i] /\ u[j] = t[j - Len(s)]
      BY <1>1, <1>2, <2>3
    <3>2. u[i] \in ToSet(s) /\ u[j] \in ToSet(t)
      BY <1>1, <3>1, StepsOf
    <3>3. QED
      BY <3>2
  <2>4. QED
    BY <1>1, <2>1, <2>2, <2>3
<1>4. \A x \in ToSet(u) : x \in ToSet(s) \cup ToSet(t)
  <2> TAKE x \in ToSet(u)
  <2>1. PICK i \in 1..Len(u) : x = u[i]
    BY <1>1, StepsOf
  <2>2. QED
    BY <1>1, <1>2, <2>1, StepsOf
<1>5. \A x \in ToSet(s) : x \in ToSet(u)
  <2> TAKE x \in ToSet(s)
  <2>1. PICK i \in 1..Len(s) : x = s[i]
    BY <1>1, StepsOf
  <2>2. i \in 1..Len(u) /\ u[i] = x
    BY <1>1, <2>1
  <2>3. QED
    BY <1>1, <2>2, StepsOf
<1>6. \A x \in ToSet(t) : x \in ToSet(u)
  <2> TAKE x \in ToSet(t)
  <2>1. PICK i \in 1..Len(t) : x = t[i]
    BY <1>1, StepsOf
  <2>2. i + Len(s) \in 1..Len(u) /\ ~(i + Len(s) <= Len(s)) /\ (i + Len(s)) - Len(s) = i
    BY <1>1
  <2>3. u[i + Len(s)] = x
    BY <1>1, <2>1, <2>2
  <2>4. QED
    BY <1>1, <2>2, <2>3, StepsOf
<1> QED
  BY <1>3, <1>4, <1>5, <1>6 DEF u

\* The shortest stretches.
LEMMA NoStep == Sorted(<<>>) /\ ToSet(<<>>) = {}
<1>1. <<>> \in Seq(Steps) /\ Len(<<>>) = 0
  BY EmptySeq
<1>2. Sorted(<<>>)
  BY <1>1 DEF Sorted
<1>3. \A x \in ToSet(<<>>) : \E i \in 1..0 : x = <<>>[i]
  BY <1>1, StepsOf
<1>4. ~\E i \in 1..0 : TRUE
  OBVIOUS
<1> QED
  BY <1>2, <1>3, <1>4

\* The step of a path of one.
LEMMA OneStep ==
    ASSUME NEW a \in Steps
    PROVE  Sorted(<<a>>) /\ ToSet(<<a>>) = {a}
<1> DEFINE t == <<a>>
<1>1. t \in Seq(Steps) /\ Len(t) = 1 /\ t[1] = a
  OBVIOUS
<1> HIDE DEF t
<1>2. Sorted(t)
  BY <1>1 DEF Sorted
<1>3. \A x \in ToSet(t) : x = a
  <2> TAKE x \in ToSet(t)
  <2>1. PICK i \in 1..Len(t) : x = t[i]
    BY <1>1, StepsOf
  <2>2. i = 1
    BY <1>1
  <2>3. QED
    BY <1>1, <2>1, <2>2
<1>4. 1 \in 1..Len(t)
  BY <1>1
<1>5. a \in ToSet(t)
  BY <1>1, <1>4, StepsOf
<1> QED
  BY <1>2, <1>3, <1>5 DEF t

\* A step in front of a stretch.
LEMMA Prefixed ==
    ASSUME NEW a \in Steps, NEW t, Sorted(t), \A y \in ToSet(t) : Apart(a, y)
    PROVE  Sorted(<<a>> \o t) /\ ToSet(<<a>> \o t) = {a} \cup ToSet(t)
BY OneStep, Joined

\* Paths of two to six steps.
LEMMA Steps2 ==
    ASSUME NEW a \in Steps, NEW b \in Steps,
           Apart(a, b)
    PROVE  Sorted(<<a, b>>) /\ ToSet(<<a, b>>) = {a, b}
<1>1. Sorted(<<a, b>>)
  BY DEF Sorted
<1>2. DOMAIN <<a, b>> = 1..2
  OBVIOUS
<1>3. ToSet(<<a, b>>) = {a, b}
  BY <1>2 DEF ToSet
<1> QED
  BY <1>1, <1>3

LEMMA Steps3 ==
    ASSUME NEW a \in Steps, NEW b \in Steps, NEW c \in Steps,
           Apart(a, b), Apart(a, c), Apart(b, c)
    PROVE  Sorted(<<a, b, c>>) /\ ToSet(<<a, b, c>>) = {a, b, c}
<1>1. Sorted(<<a, b, c>>)
  BY DEF Sorted
<1>2. DOMAIN <<a, b, c>> = 1..3
  OBVIOUS
<1>3. ToSet(<<a, b, c>>) = {a, b, c}
  BY <1>2 DEF ToSet
<1> QED
  BY <1>1, <1>3

LEMMA Steps4 ==
    ASSUME NEW a \in Steps, NEW b \in Steps, NEW c \in Steps, NEW d \in Steps,
           Apart(a, b), Apart(a, c), Apart(a, d), Apart(b, c), Apart(b, d), Apart(c, d)
    PROVE  Sorted(<<a, b, c, d>>) /\ ToSet(<<a, b, c, d>>) = {a, b, c, d}
<1>1. Sorted(<<a, b, c, d>>)
  BY DEF Sorted
<1>2. DOMAIN <<a, b, c, d>> = 1..4
  OBVIOUS
<1>3. ToSet(<<a, b, c, d>>) = {a, b, c, d}
  BY <1>2 DEF ToSet
<1> QED
  BY <1>1, <1>3

LEMMA Steps5 ==
    ASSUME NEW a \in Steps, NEW b \in Steps, NEW c \in Steps, NEW d \in Steps, NEW e \in Steps,
           Apart(a, b), Apart(a, c), Apart(a, d), Apart(a, e), Apart(b, c), Apart(b, d), Apart(b,
           e), Apart(c, d), Apart(c, e), Apart(d, e)
    PROVE  Sorted(<<a, b, c, d, e>>) /\ ToSet(<<a, b, c, d, e>>) = {a, b, c, d, e}
<1>1. Sorted(<<a, b, c, d, e>>)
  BY DEF Sorted
<1>2. DOMAIN <<a, b, c, d, e>> = 1..5
  OBVIOUS
<1>3. ToSet(<<a, b, c, d, e>>) = {a, b, c, d, e}
  BY <1>2 DEF ToSet
<1> QED
  BY <1>1, <1>3

LEMMA Steps6 ==
    ASSUME NEW a \in Steps, NEW b \in Steps, NEW c \in Steps, NEW d \in Steps, NEW e \in Steps,
             NEW f \in Steps,
           Apart(a, b), Apart(a, c), Apart(a, d), Apart(a, e), Apart(a, f), Apart(b, c), Apart(b,
           d), Apart(b, e), Apart(b, f), Apart(c, d), Apart(c, e), Apart(c, f), Apart(d, e),
           Apart(d, f), Apart(e, f)
    PROVE  Sorted(<<a, b, c, d, e, f>>) /\ ToSet(<<a, b, c, d, e, f>>) = {a, b, c, d, e, f}
<1>1. Sorted(<<a, b, c, d, e, f>>)
  BY DEF Sorted
<1>2. DOMAIN <<a, b, c, d, e, f>> = 1..6
  OBVIOUS
<1>3. ToSet(<<a, b, c, d, e, f>>) = {a, b, c, d, e, f}
  BY <1>2 DEF ToSet
<1> QED
  BY <1>1, <1>3

-----------------------------------------------------------------------------
(* The paths *)

\* The places of the effects and of the phases around them.
LEMMA Orders ==
    /\ Order("placement-planned") = 2 /\ Order("define-issued") = 2
    /\ Order("workspace-open-issued") = 4 /\ Order("defined") = 4 /\ Order("open") = 5
    /\ Order("workspace-open-returned") = 6 /\ Order("target-observed") = 8
    /\ Order("route-issued") = 10 /\ Order("decide") = 11 /\ Order("decide-again") = 12
    /\ Order("route-declined") = 14 /\ Order("route-mismatch") = 14 /\ Order("route-selected") = 14
    /\ Order("prepared") = 16 /\ Order("create-issued") = 18 /\ Order("bootstrap-issued") = 18
    /\ Order("create") = 19 /\ Order("create-returned") = 20 /\ Order("bootstrapped") = 20
    /\ Order("create-observed") = 22 /\ Order("member") = 23 /\ Order("reread") = 23
    /\ Order("membership-observed") = 24 /\ Order("delivery-handed-off") = 26
    /\ Order("send-issued") = 26 /\ Order("send") = 27 /\ Order("sent") = 28
    /\ \A x \in Results : Order(x) = 40
    /\ \A x \in Checks \cup {"core", "observe"} : Order(x) = 0
    /\ Order("pin-source") = 0 /\ Order("pin-target") = 0 /\ Order("pin-pool") = 0
    /\ Order("pin-plan") = 0 /\ Order("pin-pins") = 0
BY DEF Order, Results, Checks

\* A place is a number.
LEMMA OrderNat == \A x : Order(x) \in Nat
BY DEF Order

\* Phases, results and effects are steps of different kinds.
LEMMA StepNames ==
    /\ Checks \cup Effects \cup Results \cup Phases \cup {"core", "observe", "member",
         "reread"} \subseteq Steps
    /\ {"pin-source", "pin-target", "pin-pool", "pin-plan", "pin-pins"} \subseteq Steps
<1>1. /\ {"source", "target", "pool", "plan", "pins"} \subseteq DOMAIN PinStep
      /\ PinStep["source"] = "pin-source" /\ PinStep["target"] = "pin-target"
      /\ PinStep["pool"] = "pin-pool" /\ PinStep["plan"] = "pin-plan" /\ PinStep["pins"] = "pin-pins"
  BY DEF PinStep
<1> QED
  BY <1>1 DEF Steps

\* A stretch whose steps lie between two places, before any send unless it is
\* the last.
Between(t, lo, hi) ==
    Sorted(t) /\ \A x \in ToSet(t) : Order(x) = 0 \/ (lo < Order(x) /\ Order(x) <= hi)

\* Two stretches, one behind the other.
LEMMA Stretch ==
    ASSUME NEW s, NEW t, NEW lo \in Nat, NEW mid \in Nat, NEW hi \in Nat,
           lo <= mid, mid <= hi, mid < 27, Between(s, lo, mid), Between(t, mid, hi)
    PROVE  Between(s \o t, lo, hi) /\ ToSet(s \o t) = ToSet(s) \cup ToSet(t)
<1>1. ASSUME NEW x \in ToSet(s), NEW y \in ToSet(t)
      PROVE  Apart(x, y)
  <2>1. x # "send"
    <3>1. Order(x) # 27
      BY OrderNat DEF Between
    <3>2. QED
      BY <3>1, Orders
  <2>2. Order(x) # 0 /\ Order(y) # 0 => Order(x) < Order(y)
    BY OrderNat DEF Between
  <2>3. QED
    BY <2>1, <2>2 DEF Apart
<1>2. Sorted(s \o t) /\ ToSet(s \o t) = ToSet(s) \cup ToSet(t)
  BY <1>1, Joined DEF Between
<1>3. \A x \in ToSet(s) \cup ToSet(t) : Order(x) = 0 \/ (lo < Order(x) /\ Order(x) <= hi)
  BY OrderNat DEF Between
<1> QED
  BY <1>2, <1>3 DEF Between

\* Stretches of checks only.
LEMMA GuardedPiece ==
    /\ Between(Guarded, 0, 0) /\ ToSet(Guarded) = {"guard", "row"}
<1>1. "guard" \in Steps /\ "row" \in Steps /\ "guard" \in Checks /\ "row" \in Checks
  BY StepNames DEF Checks
<1>2. Apart("guard", "row")
  BY <1>1, Orders DEF Apart
<1>3. Sorted(Guarded) /\ ToSet(Guarded) = {"guard", "row"}
  BY <1>1, <1>2, Steps2 DEF Guarded
<1> QED
  BY <1>1, <1>3, Orders DEF Between

\* A stretch without places may lie anywhere.
LEMMA Anywhere ==
    ASSUME NEW t, Between(t, 0, 0), NEW m \in Nat
    PROVE  Between(t, m, m)
BY OrderNat DEF Between

\* The pieces a path is built of are sorted, each in its stretch of places.
LEMMA CheckPiece ==
    ASSUME NEW a \in Checks
    PROVE  Between(<<a>>, 0, 0) /\ ToSet(<<a>>) = {a}
<1>1. a \in Steps
  BY StepNames
<1> QED
  BY <1>1, OneStep, Orders DEF Between

\* The qualification of a seat.
LEMMA QualifyPiece ==
    ASSUME NEW s
    PROVE  Between(Qualify(s), 0, 0)
<1>1. "plan" \in Checks /\ "place" \in Checks
  BY DEF Checks
<1>2. Between(<<"plan">>, 0, 0) /\ Between(<<"place">>, 0, 0)
  BY <1>1, CheckPiece
<1>3. Between(Guarded \o <<"plan">>, 0, 0)
  BY <1>2, GuardedPiece, Stretch
<1>4. Between(Guarded \o <<"plan">> \o Guarded, 0, 0)
  BY <1>3, GuardedPiece, Stretch
<1>5. Between(Guarded \o <<"plan">> \o Guarded \o <<"place">>, 0, 0)
  BY <1>2, <1>4, Stretch
<1>6. Between(Guarded \o <<"place">>, 0, 0)
  BY <1>2, GuardedPiece, Stretch
<1>7. Between(<<>>, 0, 0)
  BY NoStep DEF Between
<1>8. CASE Placed(s)
  BY <1>5, <1>6, <1>8, Stretch DEF Qualify
<1>9. CASE ~Placed(s)
  BY <1>5, <1>7, <1>9, Stretch DEF Qualify
<1> QED
  BY <1>8, <1>9

\* The second look at what was qualified.
LEMMA RequalifyPiece == Between(Requalify, 22, 23)
<1>1. /\ "plan" \in Checks /\ "place" \in Checks /\ "reread" \in Steps
      /\ "plan" \in Steps /\ "place" \in Steps
  BY StepNames DEF Checks
<1>2. Between(<<"plan", "place">>, 0, 0)
  <2>1. Apart("plan", "place")
    BY <1>1, Orders DEF Apart
  <2>2. Sorted(<<"plan", "place">>) /\ ToSet(<<"plan", "place">>) = {"plan", "place"}
    BY <1>1, <2>1, Steps2
  <2>3. QED
    BY <1>1, <2>2, Orders DEF Between
<1>3. Between(<<"reread">>, 22, 23)
  <2>1. Sorted(<<"reread">>) /\ ToSet(<<"reread">>) = {"reread"}
    BY <1>1, OneStep
  <2>2. Order("reread") = 23
    BY Orders
  <2>3. QED
    BY <2>1, <2>2 DEF Between
<1>4. Between(Guarded \o <<"plan", "place">>, 0, 0)
  BY <1>2, GuardedPiece, Stretch
<1>5. Between(Guarded \o <<"plan", "place">> \o Guarded, 0, 0)
  BY <1>4, GuardedPiece, Stretch
<1>6. Between(Guarded \o <<"plan", "place">> \o Guarded, 22, 22)
  BY <1>5, Anywhere
<1> QED
  BY <1>3, <1>6, Stretch DEF Requalify

\* The resolution of a route.
LEMMA ResolvePiece ==
    ASSUME NEW s
    PROVE  /\ Between(Resolve(s), 0, 8)
           /\ "open" \in ToSet(Resolve(s)) => "workspace-open-issued" \in ToSet(Resolve(s))
<1>1. Between(<<"pin-source">>, 0, 0) /\ ToSet(<<"pin-source">>) = {"pin-source"}
  <2>1. /\ Order("pin-source") = 0
    BY Orders DEF Checks, Results
  <2>2. {"pin-source"} \subseteq Steps
    BY StepNames DEF Checks, Effects, Decisions, Results, Phases
  <2>4. Sorted(<<"pin-source">>) /\ ToSet(<<"pin-source">>) = {"pin-source"}
    BY <2>2, OneStep
  <2>5. \A x \in {"pin-source"} : Order(x) = 0 \/ (0 < Order(x) /\ Order(x) <= 0)
    BY <2>1, OrderNat
  <2>6. QED
    BY <2>4, <2>5 DEF Between
<1>2. Between(<<"pin-source", "placement-planned">>, 0, 2) /\ ToSet(<<"pin-source",
        "placement-planned">>) = {"pin-source", "placement-planned"}
  <2>1. /\ Order("pin-source") = 0 /\ Order("placement-planned") = 2
    BY Orders DEF Checks, Results
  <2>2. {"pin-source", "placement-planned"} \subseteq Steps
    BY StepNames DEF Checks, Effects, Decisions, Results, Phases
  <2>3. /\ Apart("pin-source", "placement-planned")
    BY <2>1 DEF Apart, AfterSend
  <2>4. Sorted(<<"pin-source", "placement-planned">>) /\ ToSet(<<"pin-source",
          "placement-planned">>) = {"pin-source", "placement-planned"}
    BY <2>2, <2>3, Steps2
  <2>5. \A x \in {"pin-source", "placement-planned"} : Order(x) = 0 \/ (0 < Order(x) /\ Order(x) <= 2)
    BY <2>1, OrderNat
  <2>6. QED
    BY <2>4, <2>5 DEF Between
<1>3. Between(<<"source", "workspace-open-issued", "open", "workspace-open-returned">>, 2,
        6) /\ ToSet(<<"source", "workspace-open-issued", "open",
        "workspace-open-returned">>) = {"source", "workspace-open-issued", "open",
        "workspace-open-returned"}
  <2>1. /\ Order("source") = 0 /\ Order("workspace-open-issued") = 4
        /\ Order("open") = 5 /\ Order("workspace-open-returned") = 6
    BY Orders DEF Checks, Results
  <2>2. {"source", "workspace-open-issued", "open", "workspace-open-returned"} \subseteq Steps
    BY StepNames DEF Checks, Effects, Decisions, Results, Phases
  <2>3. /\ Apart("source", "workspace-open-issued") /\ Apart("source", "open")
        /\ Apart("source", "workspace-open-returned") /\ Apart("workspace-open-issued", "open")
        /\ Apart("workspace-open-issued", "workspace-open-returned") /\ Apart("open",
             "workspace-open-returned")
    BY <2>1 DEF Apart, AfterSend
  <2>4. Sorted(<<"source", "workspace-open-issued", "open",
          "workspace-open-returned">>) /\ ToSet(<<"source", "workspace-open-issued", "open",
          "workspace-open-returned">>) = {"source", "workspace-open-issued", "open",
          "workspace-open-returned"}
    BY <2>2, <2>3, Steps4
  <2>5. \A x \in {"source", "workspace-open-issued", "open",
          "workspace-open-returned"} : Order(x) = 0 \/ (2 < Order(x) /\ Order(x) <= 6)
    BY <2>1, OrderNat
  <2>6. QED
    BY <2>4, <2>5 DEF Between
<1>4. Between(<<"pin-target", "place", "target-observed">>, 6, 8) /\ ToSet(<<"pin-target", "place",
        "target-observed">>) = {"pin-target", "place", "target-observed"}
  <2>1. /\ Order("pin-target") = 0 /\ Order("place") = 0
        /\ Order("target-observed") = 8
    BY Orders DEF Checks, Results
  <2>2. {"pin-target", "place", "target-observed"} \subseteq Steps
    BY StepNames DEF Checks, Effects, Decisions, Results, Phases
  <2>3. /\ Apart("pin-target", "place") /\ Apart("pin-target", "target-observed")
        /\ Apart("place", "target-observed")
    BY <2>1 DEF Apart, AfterSend
  <2>4. Sorted(<<"pin-target", "place", "target-observed">>) /\ ToSet(<<"pin-target", "place",
          "target-observed">>) = {"pin-target", "place", "target-observed"}
    BY <2>2, <2>3, Steps3
  <2>5. \A x \in {"pin-target", "place",
          "target-observed"} : Order(x) = 0 \/ (6 < Order(x) /\ Order(x) <= 8)
    BY <2>1, OrderNat
  <2>6. QED
    BY <2>4, <2>5 DEF Between
<1>5. Between(<<>>, 0, 8) /\ ToSet(<<>>) = {} /\ Between(<<>>, 2, 6)
  BY NoStep DEF Between
<1>6. CASE s.place = "none"
  BY <1>5, <1>6 DEF Resolve
<1>7. CASE s.place = "inherit"
  <2>1. Between(<<"pin-source">>, 0, 8) /\ "open" \notin ToSet(<<"pin-source">>)
    <3>1. Order("pin-source") = 0
      BY Orders
    <3>2. QED
      BY <1>1, <3>1 DEF Between
  <2>2. QED
    BY <1>7, <2>1 DEF Resolve
<1>8. ASSUME s.place # "none", s.place # "inherit"
      PROVE  /\ Between(Resolve(s), 0, 8)
             /\ "open" \in ToSet(Resolve(s)) => "workspace-open-issued" \in ToSet(Resolve(s))
  <2> DEFINE opening == Guarded \o <<"source", "workspace-open-issued", "open",
      "workspace-open-returned">>
             middle == IF s.place = "open" THEN opening ELSE <<>>
             begin == <<"pin-source", "placement-planned">>
             target == <<"pin-target", "place", "target-observed">>
  <2>1. Between(Guarded, 2, 2)
    BY GuardedPiece, Anywhere
  <2>2. /\ Between(opening, 2, 6)
        /\ ToSet(opening) = ToSet(Guarded)
             \cup {"source", "workspace-open-issued", "open", "workspace-open-returned"}
    BY <2>1, <1>3, Stretch
  <2>3. /\ Between(middle, 2, 6)
        /\ "open" \in ToSet(middle) => "workspace-open-issued" \in ToSet(middle)
    <3>1. CASE s.place = "open"
      BY <3>1, <2>2
    <3>2. CASE s.place # "open"
      BY <3>2, <1>5
    <3>3. QED
      BY <3>1, <3>2
  <2>4. Resolve(s) = begin \o middle \o target
    BY <1>8 DEF Resolve
  <2>a. /\ Between(begin, 0, 2) /\ Between(target, 6, 8)
        /\ "open" \notin ToSet(begin) \cup ToSet(target)
    BY <1>2, <1>4
  <2> HIDE DEF opening, middle, begin, target
  <2>5. Between(begin \o middle, 0, 6) /\ ToSet(begin \o middle) = ToSet(begin) \cup ToSet(middle)
    BY <2>3, <2>a, Stretch
  <2>6. /\ Between(begin \o middle \o target, 0, 8)
        /\ ToSet(begin \o middle \o target) = ToSet(begin) \cup ToSet(middle) \cup ToSet(target)
    BY <2>a, <2>5, Stretch
  <2>7. QED
    BY <2>3, <2>4, <2>6, <2>a
<1> QED
  BY <1>6, <1>7, <1>8

\* A path plans one request for a decision, after its phase.
AskedOnce(S) == "decide-again" \notin S /\ ("decide" \in S => "route-issued" \in S)

\* The choice of a target.
LEMMA SelectPiece ==
    ASSUME NEW s
    PROVE  Between(Select(s), 8, 14) /\ AskedOnce(ToSet(Select(s)))
<1>1. Between(<<"pin-pool">>, 0, 0) /\ ToSet(<<"pin-pool">>) = {"pin-pool"}
  <2>1. /\ Order("pin-pool") = 0
    BY Orders DEF Checks, Results
  <2>2. {"pin-pool"} \subseteq Steps
    BY StepNames DEF Checks, Effects, Decisions, Results, Phases
  <2>4. Sorted(<<"pin-pool">>) /\ ToSet(<<"pin-pool">>) = {"pin-pool"}
    BY <2>2, OneStep
  <2>5. \A x \in {"pin-pool"} : Order(x) = 0 \/ (0 < Order(x) /\ Order(x) <= 0)
    BY <2>1, OrderNat
  <2>6. QED
    BY <2>4, <2>5 DEF Between
<1>2. Between(<<"route-issued", "decide">>, 8, 11) /\ ToSet(<<"route-issued",
        "decide">>) = {"route-issued", "decide"}
  <2>1. /\ Order("route-issued") = 10 /\ Order("decide") = 11
    BY Orders DEF Checks, Results
  <2>2. {"route-issued", "decide"} \subseteq Steps
    BY StepNames DEF Checks, Effects, Decisions, Results, Phases
  <2>3. /\ Apart("route-issued", "decide")
    BY <2>1 DEF Apart, AfterSend
  <2>4. Sorted(<<"route-issued", "decide">>) /\ ToSet(<<"route-issued",
          "decide">>) = {"route-issued", "decide"}
    BY <2>2, <2>3, Steps2
  <2>5. \A x \in {"route-issued", "decide"} : Order(x) = 0 \/ (8 < Order(x) /\ Order(x) <= 11)
    BY <2>1, OrderNat
  <2>6. QED
    BY <2>4, <2>5 DEF Between
<1>3. Between(<<"pool", "route-selected">>, 11, 14) /\ ToSet(<<"pool",
        "route-selected">>) = {"pool", "route-selected"}
  <2>1. /\ Order("pool") = 0 /\ Order("route-selected") = 14
    BY Orders DEF Checks, Results
  <2>2. {"pool", "route-selected"} \subseteq Steps
    BY StepNames DEF Checks, Effects, Decisions, Results, Phases
  <2>3. /\ Apart("pool", "route-selected")
    BY <2>1 DEF Apart, AfterSend
  <2>4. Sorted(<<"pool", "route-selected">>) /\ ToSet(<<"pool", "route-selected">>) = {"pool",
          "route-selected"}
    BY <2>2, <2>3, Steps2
  <2>5. \A x \in {"pool", "route-selected"} : Order(x) = 0 \/ (11 < Order(x) /\ Order(x) <= 14)
    BY <2>1, OrderNat
  <2>6. QED
    BY <2>4, <2>5 DEF Between
<1>4. Between(<<>>, 8, 14) /\ ToSet(<<>>) = {} /\ Between(<<>>, 8, 11)
  BY NoStep DEF Between
<1>5. CASE ~s.auto
  BY <1>4, <1>5 DEF Select, AskedOnce
<1>6. ASSUME s.auto
      PROVE  Between(Select(s), 8, 14) /\ AskedOnce(ToSet(Select(s)))
  <2> DEFINE look == IF Placed(s) THEN <<"place">> \o Guarded ELSE <<"source">>
             pool == <<"pin-pool">>
             first == Guarded \o look \o pool
             paid == IF s.jev = "off" THEN <<>> ELSE <<"route-issued", "decide">>
             last == <<"pool", "route-selected">>
  <2>1. Between(<<"place">>, 0, 0) /\ Between(<<"source">>, 0, 0)
    BY CheckPiece DEF Checks
  <2>2. Between(<<"place">> \o Guarded, 0, 0)
    BY <2>1, GuardedPiece, Stretch
  <2>3. Between(look, 0, 0)
    BY <2>1, <2>2
  <2>4. Select(s) = first \o paid \o last
    BY <1>6 DEF Select
  <2>a. Between(pool, 0, 0) /\ Between(last, 11, 14)
        /\ ToSet(last) \cap Decisions = {}
    BY <1>1, <1>3 DEF Decisions
  <2> HIDE DEF look, pool
  <2>5. Between(Guarded \o look, 0, 0)
    BY <2>3, GuardedPiece, Stretch
  <2>6. Between(first, 0, 0)
    BY <2>a, <2>5, Stretch
  <2>7. Between(first, 8, 8)
    BY <2>6, Anywhere
  <2>8. Between(paid, 8, 11) /\ AskedOnce(ToSet(paid))
    <3>1. CASE s.jev = "off"
      BY <3>1, <1>4 DEF AskedOnce
    <3>2. CASE s.jev # "off"
      BY <3>2, <1>2 DEF AskedOnce
    <3>3. QED
      BY <3>1, <3>2
  <2> HIDE DEF first, paid, last
  <2>9. Between(first \o paid, 8, 11) /\ ToSet(first \o paid) = ToSet(first) \cup ToSet(paid)
    BY <2>7, <2>8, Stretch
  <2>10. /\ Between(first \o paid \o last, 8, 14)
         /\ ToSet(first \o paid \o last) = ToSet(first) \cup ToSet(paid) \cup ToSet(last)
    BY <2>a, <2>9, Stretch
  <2>11. (ToSet(first) \cup ToSet(last)) \cap Decisions = {}
    <3>1. Order("decide") = 11 /\ Order("decide-again") = 12
      BY Orders
    <3>2. "decide" \notin ToSet(first) /\ "decide-again" \notin ToSet(first)
      BY <2>7, <3>1 DEF Between
    <3>3. QED
      BY <2>a, <3>2 DEF Decisions
  <2>12. QED
    BY <2>4, <2>8, <2>10, <2>11 DEF Decisions, AskedOnce
<1> QED
  BY <1>5, <1>6

\* The registration of the seat.
LEMMA RegisterPiece ==
    ASSUME NEW s
    PROVE  Between(Register(s), 22, 24)
<1>1. Between(<<"member">>, 22, 23) /\ ToSet(<<"member">>) = {"member"}
  <2>1. /\ Order("member") = 23
    BY Orders DEF Checks, Results
  <2>2. {"member"} \subseteq Steps
    BY StepNames DEF Checks, Effects, Decisions, Results, Phases
  <2>4. Sorted(<<"member">>) /\ ToSet(<<"member">>) = {"member"}
    BY <2>2, OneStep
  <2>5. \A x \in {"member"} : Order(x) = 0 \/ (22 < Order(x) /\ Order(x) <= 23)
    BY <2>1, OrderNat
  <2>6. QED
    BY <2>4, <2>5 DEF Between
<1>2. Between(<<"membership-observed">>, 23,
        24) /\ ToSet(<<"membership-observed">>) = {"membership-observed"}
  <2>1. /\ Order("membership-observed") = 24
    BY Orders DEF Checks, Results
  <2>2. {"membership-observed"} \subseteq Steps
    BY StepNames DEF Checks, Effects, Decisions, Results, Phases
  <2>4. Sorted(<<"membership-observed">>) /\ ToSet(<<"membership-observed">>) = {"membership-observed"}
    BY <2>2, OneStep
  <2>5. \A x \in {"membership-observed"} : Order(x) = 0 \/ (23 < Order(x) /\ Order(x) <= 24)
    BY <2>1, OrderNat
  <2>6. QED
    BY <2>4, <2>5 DEF Between
<1> DEFINE wait == IF s.waits THEN <<"member">> ELSE <<>>
           seen == IF Placed(s) THEN <<"membership-observed">> ELSE <<>>
<1>3. Between(<<>>, 22, 23) /\ Between(<<>>, 23, 24)
  BY NoStep DEF Between
<1>4. Between(wait, 22, 23) /\ Between(seen, 23, 24)
  BY <1>1, <1>2, <1>3
<1>5. Register(s) = wait \o seen
  BY DEF Register
<1> HIDE DEF wait, seen
<1> QED
  BY <1>4, <1>5, Stretch

\* The two ways to deliver: a caller's own delivery sends nothing.
LEMMA DeliverPiece ==
    ASSUME NEW s
    PROVE  /\ Between(Deliver(s), 24, 40) /\ ToSet(Deliver(s)) \cap Results # {}
           /\ "send" \in ToSet(Deliver(s)) => "send-issued" \in ToSet(Deliver(s))
           /\ "host-accepted" \in ToSet(Deliver(s)) => "send" \in ToSet(Deliver(s))
           /\ ToSet(Deliver(s)) \cap Unsent # {} => "send" \notin ToSet(Deliver(s))
<1>1. Between(<<"delivery-handed-off", "awaiting-caller-delivery">>, 24,
        40) /\ ToSet(<<"delivery-handed-off",
        "awaiting-caller-delivery">>) = {"delivery-handed-off", "awaiting-caller-delivery"}
  <2>1. /\ Order("delivery-handed-off") = 26 /\ Order("awaiting-caller-delivery") = 40
    BY Orders DEF Checks, Results
  <2>2. {"delivery-handed-off", "awaiting-caller-delivery"} \subseteq Steps
    BY StepNames DEF Checks, Effects, Decisions, Results, Phases
  <2>3. /\ Apart("delivery-handed-off", "awaiting-caller-delivery")
    BY <2>1 DEF Apart, AfterSend
  <2>4. Sorted(<<"delivery-handed-off",
          "awaiting-caller-delivery">>) /\ ToSet(<<"delivery-handed-off",
          "awaiting-caller-delivery">>) = {"delivery-handed-off", "awaiting-caller-delivery"}
    BY <2>2, <2>3, Steps2
  <2>5. \A x \in {"delivery-handed-off",
          "awaiting-caller-delivery"} : Order(x) = 0 \/ (24 < Order(x) /\ Order(x) <= 40)
    BY <2>1, OrderNat
  <2>6. QED
    BY <2>4, <2>5 DEF Between
<1>2. Between(<<"send-issued", "send", "host-accepted">>, 24, 40) /\ ToSet(<<"send-issued", "send",
        "host-accepted">>) = {"send-issued", "send", "host-accepted"}
  <2>1. /\ Order("send-issued") = 26 /\ Order("send") = 27
        /\ Order("host-accepted") = 40
    BY Orders DEF Checks, Results
  <2>2. {"send-issued", "send", "host-accepted"} \subseteq Steps
    BY StepNames DEF Checks, Effects, Decisions, Results, Phases
  <2>3. /\ Apart("send-issued", "send") /\ Apart("send-issued", "host-accepted")
        /\ Apart("send", "host-accepted")
    BY <2>1 DEF Apart, AfterSend
  <2>4. Sorted(<<"send-issued", "send", "host-accepted">>) /\ ToSet(<<"send-issued", "send",
          "host-accepted">>) = {"send-issued", "send", "host-accepted"}
    BY <2>2, <2>3, Steps3
  <2>5. \A x \in {"send-issued", "send",
          "host-accepted"} : Order(x) = 0 \/ (24 < Order(x) /\ Order(x) <= 40)
    BY <2>1, OrderNat
  <2>6. QED
    BY <2>4, <2>5 DEF Between
<1>3. Unsent \cap {"send-issued", "send", "host-accepted"} = {}
      /\ {"awaiting-caller-delivery", "host-accepted"} \subseteq Results
  BY DEF Unsent, Results
<1>4. CASE s.delivery = "caller"
  BY <1>1, <1>3, <1>4 DEF Deliver
<1>5. CASE s.delivery # "caller"
  BY <1>2, <1>3, <1>5 DEF Deliver
<1> QED
  BY <1>4, <1>5

\* A seat's path fits an empty journal.
LEMMA SeatPathFits ==
    ASSUME NEW s
    PROVE  /\ Sorted(SeatPath(s))
           /\ Owed(ToSet(SeatPath(s)), {}) /\ Promised(ToSet(SeatPath(s)), {})
<1>1. Between(<<"refused">>, 0, 40) /\ ToSet(<<"refused">>) = {"refused"}
  <2>1. /\ Order("refused") = 40
    BY Orders DEF Checks, Results
  <2>2. {"refused"} \subseteq Steps
    BY StepNames DEF Checks, Effects, Decisions, Results, Phases
  <2>4. Sorted(<<"refused">>) /\ ToSet(<<"refused">>) = {"refused"}
    BY <2>2, OneStep
  <2>5. \A x \in {"refused"} : Order(x) = 0 \/ (0 < Order(x) /\ Order(x) <= 40)
    BY <2>1, OrderNat
  <2>6. QED
    BY <2>4, <2>5 DEF Between
<1>2. Between(<<"plan", "pin-plan", "prepared">>, 14, 16) /\ ToSet(<<"plan", "pin-plan",
        "prepared">>) = {"plan", "pin-plan", "prepared"}
  <2>1. /\ Order("plan") = 0 /\ Order("pin-plan") = 0
        /\ Order("prepared") = 16
    BY Orders DEF Checks, Results
  <2>2. {"plan", "pin-plan", "prepared"} \subseteq Steps
    BY StepNames DEF Checks, Effects, Decisions, Results, Phases
  <2>3. /\ Apart("plan", "pin-plan") /\ Apart("plan", "prepared")
        /\ Apart("pin-plan", "prepared")
    BY <2>1 DEF Apart, AfterSend
  <2>4. Sorted(<<"plan", "pin-plan", "prepared">>) /\ ToSet(<<"plan", "pin-plan",
          "prepared">>) = {"plan", "pin-plan", "prepared"}
    BY <2>2, <2>3, Steps3
  <2>5. \A x \in {"plan", "pin-plan", "prepared"} : Order(x) = 0 \/ (14 < Order(x) /\ Order(x) <= 16)
    BY <2>1, OrderNat
  <2>6. QED
    BY <2>4, <2>5 DEF Between
<1>3. Between(<<"create-issued", "create", "create-returned", "create-observed", "observe">>, 16,
        22) /\ ToSet(<<"create-issued", "create", "create-returned", "create-observed",
        "observe">>) = {"create-issued", "create", "create-returned", "create-observed", "observe"}
  <2>1. /\ Order("create-issued") = 18 /\ Order("create") = 19
        /\ Order("create-returned") = 20 /\ Order("create-observed") = 22
        /\ Order("observe") = 0
    BY Orders DEF Checks, Results
  <2>2. {"create-issued", "create", "create-returned", "create-observed", "observe"} \subseteq Steps
    BY StepNames DEF Checks, Effects, Decisions, Results, Phases
  <2>3. /\ Apart("create-issued", "create") /\ Apart("create-issued", "create-returned")
        /\ Apart("create-issued", "create-observed") /\ Apart("create-issued", "observe")
        /\ Apart("create", "create-returned") /\ Apart("create", "create-observed")
        /\ Apart("create", "observe") /\ Apart("create-returned", "create-observed")
        /\ Apart("create-returned", "observe") /\ Apart("create-observed", "observe")
    BY <2>1 DEF Apart, AfterSend
  <2>4. Sorted(<<"create-issued", "create", "create-returned", "create-observed",
          "observe">>) /\ ToSet(<<"create-issued", "create", "create-returned", "create-observed",
          "observe">>) = {"create-issued", "create", "create-returned", "create-observed", "observe"}
    BY <2>2, <2>3, Steps5
  <2>5. \A x \in {"create-issued", "create", "create-returned", "create-observed",
          "observe"} : Order(x) = 0 \/ (16 < Order(x) /\ Order(x) <= 22)
    BY <2>1, OrderNat
  <2>6. QED
    BY <2>4, <2>5 DEF Between
<1>4. CASE s.place = "worktree"
  <2> DEFINE end == <<"refused">>
  <2>1. Between(end, 0, 40) /\ ToSet(end) = {"refused"}
    BY <1>1
  <2>2. SeatPath(s) = Guarded \o end
    BY <1>4 DEF SeatPath
  <2> HIDE DEF end
  <2>3. Sorted(SeatPath(s)) /\ ToSet(SeatPath(s)) = {"guard", "row", "refused"}
    <3>1. Between(Guarded \o end, 0, 40) /\ ToSet(Guarded \o end) = ToSet(Guarded) \cup ToSet(end)
      BY <2>1, GuardedPiece, Stretch
    <3>2. QED
      BY <2>1, <2>2, <3>1, GuardedPiece DEF Between
  <2>4. QED
    BY <2>3 DEF Owed, Promised, Results, Decisions
<1>5. CASE s.place # "worktree"
  <2> DEFINE plan == <<"plan", "pin-plan", "prepared">>
             create == <<"create-issued", "create", "create-returned", "create-observed", "observe">>
             p1 == Guarded \o Resolve(s)
             p2 == p1 \o Select(s)
             p3 == p2 \o plan
             p4 == p3 \o Qualify(s)
             p5 == p4 \o create
             p6 == p5 \o Qualify(s)
             p7 == p6 \o Register(s)
             p8 == p7 \o Deliver(s)
  <2>1. SeatPath(s) = p8
    BY <1>5 DEF SeatPath
  <2>2. /\ Between(plan, 14, 16) /\ Between(create, 16, 22)
        /\ ToSet(create) = {"create-issued", "create", "create-returned", "create-observed", "observe"}
    BY <1>2, <1>3
  <2>3. Between(Qualify(s), 16, 16) /\ Between(Qualify(s), 22, 22)
    BY QualifyPiece, Anywhere
  <2> HIDE DEF plan, create
  <2>4. Between(p1, 0, 8) /\ ToSet(p1) = ToSet(Guarded) \cup ToSet(Resolve(s))
    BY GuardedPiece, ResolvePiece, Stretch
  <2> HIDE DEF p1
  <2>5. Between(p2, 0, 14) /\ ToSet(p2) = ToSet(p1) \cup ToSet(Select(s))
    BY <2>4, SelectPiece, Stretch
  <2> HIDE DEF p2
  <2>6. Between(p3, 0, 16) /\ ToSet(p3) = ToSet(p2) \cup ToSet(plan)
    BY <2>2, <2>5, Stretch
  <2> HIDE DEF p3
  <2>7. Between(p4, 0, 16) /\ ToSet(p4) = ToSet(p3) \cup ToSet(Qualify(s))
    BY <2>3, <2>6, Stretch
  <2> HIDE DEF p4
  <2>8. Between(p5, 0, 22) /\ ToSet(p5) = ToSet(p4) \cup ToSet(create)
    BY <2>2, <2>7, Stretch
  <2> HIDE DEF p5
  <2>9. Between(p6, 0, 22) /\ ToSet(p6) = ToSet(p5) \cup ToSet(Qualify(s))
    BY <2>3, <2>8, Stretch
  <2> HIDE DEF p6
  <2>10. Between(p7, 0, 24) /\ ToSet(p7) = ToSet(p6) \cup ToSet(Register(s))
    BY <2>9, RegisterPiece, Stretch
  <2> HIDE DEF p7
  <2>11. Between(p8, 0, 40) /\ ToSet(p8) = ToSet(p7) \cup ToSet(Deliver(s))
    BY <2>10, DeliverPiece, Stretch
  <2>12. /\ Order("open") = 5 /\ \A e \in Decisions : Order(e) \in {11, 12}
         /\ Order("create") = 19 /\ Order("send") = 27
         /\ Order("host-accepted") = 40 /\ \A x \in Unsent : Order(x) = 40
    BY Orders DEF Unsent, Results, Decisions
  <2>13. "open" \in ToSet(p8) => "open" \in ToSet(Resolve(s))
    <3>1. \A t, lo, hi : Between(t, lo, hi) /\ "open" \in ToSet(t) => lo < 5 /\ 5 <= hi
      BY <2>12 DEF Between
    <3>2. /\ "open" \notin ToSet(Select(s)) /\ "open" \notin ToSet(plan) /\ "open" \notin ToSet(create)
          /\ "open" \notin ToSet(Register(s)) /\ "open" \notin ToSet(Deliver(s))
          /\ "open" \notin ToSet(Qualify(s)) /\ "open" \notin ToSet(Guarded)
      BY <2>2, <2>3, <3>1, SelectPiece, RegisterPiece, DeliverPiece, GuardedPiece
    <3>3. QED
      BY <3>2, <2>4, <2>5, <2>6, <2>7, <2>8, <2>9, <2>10, <2>11
  <2>14. \A e \in Decisions : e \in ToSet(p8) => e \in ToSet(Select(s))
    <3> TAKE e \in Decisions
    <3>1. \A t, lo, hi : Between(t, lo, hi) /\ e \in ToSet(t) =>
            \/ lo < 11 /\ 11 <= hi
            \/ lo < 12 /\ 12 <= hi
      BY <2>12 DEF Between
    <3>2. /\ e \notin ToSet(plan) /\ e \notin ToSet(create) /\ e \notin ToSet(p1)
          /\ e \notin ToSet(Register(s)) /\ e \notin ToSet(Deliver(s))
          /\ e \notin ToSet(Qualify(s))
      BY <2>2, <2>3, <2>4, <3>1, RegisterPiece, DeliverPiece
    <3>3. QED
      BY <3>2, <2>5, <2>6, <2>7, <2>8, <2>9, <2>10, <2>11
  <2>15. /\ "send" \notin ToSet(p7) /\ "host-accepted" \notin ToSet(p7)
         /\ ToSet(p7) \cap Unsent = {}
    BY <2>10, <2>12 DEF Between
  <2>16. "create-issued" \in ToSet(p8) /\ "create" \in ToSet(p8)
    BY <2>2, <2>8, <2>9, <2>10, <2>11
  <2> HIDE DEF p8
  <2>17. Owed(ToSet(p8), {})
    <3>1. "open" \in ToSet(p8) => "workspace-open-issued" \in ToSet(p8)
      BY <2>4, <2>5, <2>6, <2>7, <2>8, <2>9, <2>10, <2>11, <2>13, ResolvePiece
    <3>2. "decide" \in ToSet(p8) => "route-issued" \in ToSet(p8)
      BY <2>5, <2>6, <2>7, <2>8, <2>9, <2>10, <2>11, <2>14, SelectPiece DEF Decisions, AskedOnce
    <3>a. "decide-again" \notin ToSet(p8)
      BY <2>14, SelectPiece DEF Decisions, AskedOnce
    <3>3. QED
      BY <3>1, <3>2, <3>a, <2>11, <2>15, <2>16, DeliverPiece DEF Owed, Decisions
  <2>18. Promised(ToSet(p8), {})
    BY <2>11, <2>15, <2>16, DeliverPiece DEF Promised
  <2>19. QED
    BY <2>1, <2>11, <2>17, <2>18 DEF Between
<1> QED
  BY <1>4, <1>5

\* So does the path of a task delivery.
LEMMA TaskPathFits ==
    /\ Sorted(TaskPath)
    /\ Owed(ToSet(TaskPath), {}) /\ Promised(ToSet(TaskPath), {})
<1>1. Between(<<"pin-pins", "define-issued", "defined", "core">>, 0, 4) /\ ToSet(<<"pin-pins",
        "define-issued", "defined", "core">>) = {"pin-pins", "define-issued", "defined", "core"}
  <2>1. /\ Order("pin-pins") = 0 /\ Order("define-issued") = 2
        /\ Order("defined") = 4 /\ Order("core") = 0
    BY Orders DEF Checks, Results
  <2>2. {"pin-pins", "define-issued", "defined", "core"} \subseteq Steps
    BY StepNames DEF Checks, Effects, Decisions, Results, Phases
  <2>3. /\ Apart("pin-pins", "define-issued") /\ Apart("pin-pins", "defined")
        /\ Apart("pin-pins", "core") /\ Apart("define-issued", "defined")
        /\ Apart("define-issued", "core") /\ Apart("defined", "core")
    BY <2>1 DEF Apart, AfterSend
  <2>4. Sorted(<<"pin-pins", "define-issued", "defined", "core">>) /\ ToSet(<<"pin-pins",
          "define-issued", "defined", "core">>) = {"pin-pins", "define-issued", "defined", "core"}
    BY <2>2, <2>3, Steps4
  <2>5. \A x \in {"pin-pins", "define-issued", "defined",
          "core"} : Order(x) = 0 \/ (0 < Order(x) /\ Order(x) <= 4)
    BY <2>1, OrderNat
  <2>6. QED
    BY <2>4, <2>5 DEF Between
<1>2. Between(<<"bootstrap-issued", "core", "create", "bootstrapped">>, 4,
        20) /\ ToSet(<<"bootstrap-issued", "core", "create",
        "bootstrapped">>) = {"bootstrap-issued", "core", "create", "bootstrapped"}
  <2>1. /\ Order("bootstrap-issued") = 18 /\ Order("core") = 0
        /\ Order("create") = 19 /\ Order("bootstrapped") = 20
    BY Orders DEF Checks, Results
  <2>2. {"bootstrap-issued", "core", "create", "bootstrapped"} \subseteq Steps
    BY StepNames DEF Checks, Effects, Decisions, Results, Phases
  <2>3. /\ Apart("bootstrap-issued", "core") /\ Apart("bootstrap-issued", "create")
        /\ Apart("bootstrap-issued", "bootstrapped") /\ Apart("core", "create")
        /\ Apart("core", "bootstrapped") /\ Apart("create", "bootstrapped")
    BY <2>1 DEF Apart, AfterSend
  <2>4. Sorted(<<"bootstrap-issued", "core", "create",
          "bootstrapped">>) /\ ToSet(<<"bootstrap-issued", "core", "create",
          "bootstrapped">>) = {"bootstrap-issued", "core", "create", "bootstrapped"}
    BY <2>2, <2>3, Steps4
  <2>5. \A x \in {"bootstrap-issued", "core", "create",
          "bootstrapped"} : Order(x) = 0 \/ (4 < Order(x) /\ Order(x) <= 20)
    BY <2>1, OrderNat
  <2>6. QED
    BY <2>4, <2>5 DEF Between
<1>3. Between(<<"pins", "send-issued", "core", "send", "sent", "host-accepted">>, 20,
        40) /\ ToSet(<<"pins", "send-issued", "core", "send", "sent", "host-accepted">>) = {"pins",
        "send-issued", "core", "send", "sent", "host-accepted"}
  <2>1. /\ Order("pins") = 0 /\ Order("send-issued") = 26
        /\ Order("core") = 0 /\ Order("send") = 27
        /\ Order("sent") = 28 /\ Order("host-accepted") = 40
    BY Orders DEF Checks, Results
  <2>2. {"pins", "send-issued", "core", "send", "sent", "host-accepted"} \subseteq Steps
    BY StepNames DEF Checks, Effects, Decisions, Results, Phases
  <2>3. /\ Apart("pins", "send-issued") /\ Apart("pins", "core")
        /\ Apart("pins", "send") /\ Apart("pins", "sent")
        /\ Apart("pins", "host-accepted") /\ Apart("send-issued", "core")
        /\ Apart("send-issued", "send") /\ Apart("send-issued", "sent")
        /\ Apart("send-issued", "host-accepted") /\ Apart("core", "send")
        /\ Apart("core", "sent") /\ Apart("core", "host-accepted")
        /\ Apart("send", "sent") /\ Apart("send", "host-accepted")
        /\ Apart("sent", "host-accepted")
    BY <2>1 DEF Apart, AfterSend
  <2>4. Sorted(<<"pins", "send-issued", "core", "send", "sent",
          "host-accepted">>) /\ ToSet(<<"pins", "send-issued", "core", "send", "sent",
          "host-accepted">>) = {"pins", "send-issued", "core", "send", "sent", "host-accepted"}
    BY <2>2, <2>3, Steps6
  <2>5. \A x \in {"pins", "send-issued", "core", "send", "sent",
          "host-accepted"} : Order(x) = 0 \/ (20 < Order(x) /\ Order(x) <= 40)
    BY <2>1, OrderNat
  <2>6. QED
    BY <2>4, <2>5 DEF Between
<1> DEFINE a == <<"pin-pins", "define-issued", "defined", "core">>
           b == <<"bootstrap-issued", "core", "create", "bootstrapped">>
           c == <<"pins", "send-issued", "core", "send", "sent", "host-accepted">>
<1>4. /\ Between(a, 0, 4) /\ Between(b, 4, 20) /\ Between(c, 20, 40)
      /\ ToSet(a) = {"pin-pins", "define-issued", "defined", "core"}
      /\ ToSet(b) = {"bootstrap-issued", "core", "create", "bootstrapped"}
      /\ ToSet(c) = {"pins", "send-issued", "core", "send", "sent", "host-accepted"}
  BY <1>1, <1>2, <1>3
<1>5. TaskPath = a \o b \o c
  BY DEF TaskPath
<1> HIDE DEF a, b, c
<1>6. Between(a \o b, 0, 20) /\ ToSet(a \o b) = ToSet(a) \cup ToSet(b)
  BY <1>4, Stretch
<1>7. Between(a \o b \o c, 0, 40) /\ ToSet(a \o b \o c) = ToSet(a) \cup ToSet(b) \cup ToSet(c)
  BY <1>4, <1>6, Stretch
<1>8. Owed(ToSet(TaskPath), {})
  BY <1>4, <1>5, <1>7 DEF Owed, Results, Decisions
<1>9. Promised(ToSet(TaskPath), {})
  BY <1>4, <1>5, <1>7 DEF Promised, Unsent, Results
<1> QED
  BY <1>5, <1>7, <1>8, <1>9 DEF Between

\* Every path fits an empty journal.
LEMMA PathFits ==
    ASSUME NEW s
    PROVE  /\ Sorted(Path(s)) /\ Owed(ToSet(Path(s)), {}) /\ Promised(ToSet(Path(s)), {})
BY SeatPathFits, TaskPathFits DEF Path

-----------------------------------------------------------------------------
(* The invariant *)

FormationTypeOK ==
    /\ receipt \in Receipts \cup {None}
    /\ call \in [Calls -> ToolCalls \cup {None}]
    /\ world \in [Facets -> Nat] /\ epoch \in Nat
    /\ host \in [calls : [Effects -> {0, 1}], done : SUBSET Effects, late : SUBSET Effects]

\* A call that waits has its whole path before it; the one that runs owns the
\* receipt, which has no result yet.
CallsOK ==
    \A c \in Calls : call[c] # None =>
        /\ ~Runs(c) => call[c].todo = Path(Shape(c))
        /\ Runs(c) => /\ receipt # None /\ receipt.result = None
                      /\ Request(receipt) = Request(call[c])
                      /\ Fits(call[c].todo)
OneRuns == \A c, d \in Calls : Runs(c) /\ Runs(d) => c = d
\* Without a receipt nothing happened; the phases on disk are in order.
JournalOK ==
    /\ receipt = None => host = [calls |-> [e \in Effects |-> 0], done |-> {}, late |-> {}]
    /\ receipt # None /\ receipt.phases # <<>> =>
         2 * Len(receipt.phases) <= Order(receipt.phases[Len(receipt.phases)])
EffectsOK ==
    /\ \A e \in Effects : Happens(e) => host.calls[e] # 0
    /\ Happens("open") => Recorded("workspace-open-issued")
    /\ \A e \in Decisions : Happens(e) => Recorded("route-issued")
    /\ Happens("create") => Recorded("create-issued") \/ Recorded("bootstrap-issued")
    /\ Happens("send") => Recorded("send-issued") /\ "create" \in host.done
ResultOK ==
    receipt # None =>
        /\ receipt.result \in Unsent => ~Happens("send")
        /\ receipt.result = "host-accepted" => {"create", "send"} \subseteq host.done
ShownOK == \A k \in shown : receipt # None /\ k = Request(receipt)
FormationInv == FormationTypeOK /\ CallsOK /\ OneRuns /\ JournalOK /\ EffectsOK /\ ResultOK /\ ShownOK
-----------------------------------------------------------------------------
(* The steps *)

\* What is known of a call that executes.
LEMMA Running ==
    ASSUME FormationInv, NEW c \in Calls, Runs(c)
    PROVE  /\ call[c] \in ToolCalls /\ receipt \in Receipts /\ receipt # None /\ receipt.result = None
           /\ Request(receipt) = Request(call[c]) /\ receipt.epoch = call[c].epoch /\ receipt.body = call[c].body
           /\ Fits(call[c].todo) /\ call[c].todo # <<>>
           /\ call[c].todo \in Seq(Steps) /\ Step(c) \in ToSet(call[c].todo)
           /\ ToSet(receipt.phases) \subseteq Phases
           /\ \A d \in Calls : d # c => ~Runs(d)
<1>1. call[c] \in ToolCalls
  BY DEF FormationInv, FormationTypeOK, Runs
<1>2. /\ receipt # None /\ receipt.result = None /\ receipt \in Receipts
      /\ Request(receipt) = Request(call[c]) /\ Fits(call[c].todo)
  BY DEF FormationInv, FormationTypeOK, CallsOK, Runs
<1>3. receipt.epoch = call[c].epoch /\ receipt.body = call[c].body
  BY <1>2 DEF Request
<1>4. call[c].todo \in Seq(Steps) /\ ToSet(call[c].todo) # {}
  BY <1>2 DEF Fits, Fitting, Sorted, Owed
<1>5. call[c].todo # <<>>
  BY <1>4, NoStep
<1>6. Step(c) \in ToSet(call[c].todo)
  BY <1>2, <1>5, FirstStep DEF Fits, Fitting, Step
<1>7. ToSet(receipt.phases) \subseteq Phases
  <2>1. receipt.phases \in Seq(Phases)
    BY <1>2 DEF Receipts
  <2>2. DOMAIN receipt.phases = 1..Len(receipt.phases)
    BY <2>1, LenProperties
  <2>3. QED
    BY <2>1, <2>2, ElementOfSeq DEF ToSet
<1>8. \A d \in Calls : d # c => ~Runs(d)
  BY DEF FormationInv, OneRuns
<1> QED
  BY <1>1, <1>2, <1>3, <1>4, <1>5, <1>6, <1>7, <1>8

\* A step that leaves no trace.
LEMMA Popped ==
    ASSUME FormationInv, NEW c \in Calls, Runs(c), Step(c) \notin Effects \cup Results \cup Phases
    PROVE  Fits(Tail(call[c].todo))
<1> DEFINE t == call[c].todo
           S == ToSet(t)
           T == ToSet(Tail(t))
<1>1. Fits(t) /\ t # <<>>
  BY Running
<1>2. Sorted(Tail(t)) /\ S = {Step(c)} \cup T
  BY <1>1, FirstStep DEF Fits, Fitting, Step
<1>3. Owed(T, ToSet(receipt.phases))
  <2>1. /\ "workspace-open-issued" \in Phases /\ "route-issued" \in Phases /\ "create-issued" \in Phases
        /\ "bootstrap-issued" \in Phases /\ "send-issued" \in Phases
    BY DEF Phases
  <2>2. QED
    BY <1>1, <1>2, <2>1 DEF Fits, Fitting, Owed
<1>4. Promised(T, host.done)
  BY <1>1, <1>2 DEF Fits, Fitting, Promised, Effects, Decisions
<1>5. Past(T, ToSet(receipt.phases), host.calls)
  BY <1>1, <1>2 DEF Fits, Fitting, Past
<1> QED
  BY <1>2, <1>3, <1>4, <1>5 DEF Fits, Fitting

\* The executing call goes on: with what is left of its path, or on another.
LEMMA TurnStep ==
    ASSUME FormationInv, NEW c \in Calls, Runs(c), NEW k \in ToolCalls, k.at = "run",
           k.epoch = call[c].epoch, k.body = call[c].body, Fits(k.todo),
           call' = [call EXCEPT ![c] = k], UNCHANGED <<receipt, shown, world, epoch, host>>
    PROVE  FormationInv'
<1>1. receipt' = receipt /\ shown' = shown /\ world' = world /\ epoch' = epoch /\ host' = host
  OBVIOUS
<1>2. call \in [Calls -> ToolCalls \cup {None}] /\ call'[c] = k
  BY DEF FormationInv, FormationTypeOK
<1>3. \A d \in Calls : d # c => call'[d] = call[d]
  BY <1>2
<1>4. k # None
  BY FormationAssumption
<1>5. FormationTypeOK'
  BY <1>1, <1>2 DEF FormationInv, FormationTypeOK
<1>6. CallsOK'
  <2> SUFFICES ASSUME NEW d \in Calls, call'[d] # None
               PROVE  /\ ~Runs(d)' => call'[d].todo = Path(Shapes[call'[d].body])
                      /\ Runs(d)' => /\ receipt # None /\ receipt.result = None
                                     /\ Request(receipt) = Request(call'[d])
                                     /\ Fits(call'[d].todo)
    BY <1>1 DEF CallsOK, Shape, Fits
  <2>1. CASE d = c
    BY <2>1, <1>2, <1>4, Running DEF Runs, Request
  <2>2. CASE d # c
    BY <2>2, <1>3, Running DEF FormationInv, CallsOK, Runs, Shape
  <2>3. QED
    BY <2>1, <2>2
<1>7. OneRuns'
  BY <1>2, <1>3, Running DEF OneRuns, Runs
<1>8. JournalOK' /\ EffectsOK' /\ ResultOK' /\ ShownOK'
  BY <1>1 DEF FormationInv, JournalOK, EffectsOK, ResultOK, ShownOK, Happens, Recorded
<1> QED
  BY <1>5, <1>6, <1>7, <1>8 DEF FormationInv

\* A call ends, and its caller may be shown the receipt.
LEMMA LeaveStep ==
    ASSUME FormationInv, NEW c \in Calls, receipt # None,
           call' = [call EXCEPT ![c] = None], shown' \subseteq shown \cup {Request(receipt)},
           UNCHANGED <<receipt, world, epoch, host>>
    PROVE  FormationInv'
<1>1. receipt' = receipt /\ world' = world /\ epoch' = epoch /\ host' = host
  OBVIOUS
<1>2. call \in [Calls -> ToolCalls \cup {None}] /\ call'[c] = None
  BY DEF FormationInv, FormationTypeOK
<1>3. \A d \in Calls : call'[d] # None => call'[d] = call[d]
  BY <1>2
<1>4. FormationTypeOK'
  BY <1>1, <1>2 DEF FormationInv, FormationTypeOK
<1>5. CallsOK'
  BY <1>1, <1>3 DEF FormationInv, CallsOK, Runs, Shape, Fits
<1>6. OneRuns'
  BY <1>3 DEF FormationInv, OneRuns, Runs
<1>7. JournalOK' /\ EffectsOK' /\ ResultOK' /\ ShownOK'
  BY <1>1 DEF FormationInv, JournalOK, EffectsOK, ResultOK, ShownOK, Happens, Recorded
<1> QED
  BY <1>4, <1>5, <1>6, <1>7 DEF FormationInv

\* What the journal does not see.
LEMMA QuietStep ==
    ASSUME FormationInv, UNCHANGED <<receipt, call, shown, host>>,
           world' \in [Facets -> Nat], epoch' \in Nat
    PROVE  FormationInv'
<1>1. receipt' = receipt /\ call' = call /\ shown' = shown /\ host' = host
  OBVIOUS
<1>2. FormationTypeOK'
  BY <1>1 DEF FormationInv, FormationTypeOK
<1>3. CallsOK' /\ OneRuns'
  BY <1>1 DEF FormationInv, CallsOK, OneRuns, Runs, Shape, Fits
<1>4. JournalOK' /\ EffectsOK' /\ ResultOK' /\ ShownOK'
  BY <1>1 DEF FormationInv, JournalOK, EffectsOK, ResultOK, ShownOK, Happens, Recorded
<1> QED
  BY <1>2, <1>3, <1>4 DEF FormationInv

\* What others do leaves the journal and the calls alone.
LEMMA WorldSteps ==
    ASSUME FormationInv,
           \/ \E f \in Facets : Drift(f)
           \/ Revoke \/ Rebind \/ Registers \/ Stop
    PROVE  FormationInv'
<1>1. world \in [Facets -> Nat] /\ epoch \in Nat
  BY DEF FormationInv, FormationTypeOK
<1>2. CASE \E f \in Facets : Drift(f)
  BY <1>1, <1>2, QuietStep DEF Drift
<1>3. CASE Revoke \/ Rebind \/ Registers \/ Stop
  BY <1>1, <1>3, QuietStep DEF Revoke, Rebind, Registers, Stop
<1> QED
  BY <1>2, <1>3

\* A plugin that ends takes its calls with it.
LEMMA RestartStep == ASSUME FormationInv, Restart PROVE FormationInv'
<1>1. receipt' = receipt /\ shown' = shown /\ world' = world /\ epoch' = epoch /\ host' = host
  BY DEF Restart
<1>2. call' = [c \in Calls |-> None]
  BY DEF Restart
<1>3. FormationTypeOK'
  BY <1>1, <1>2 DEF FormationInv, FormationTypeOK
<1>4. CallsOK' /\ OneRuns'
  BY <1>2 DEF CallsOK, OneRuns, Runs
<1>5. JournalOK' /\ EffectsOK' /\ ResultOK' /\ ShownOK'
  BY <1>1 DEF FormationInv, JournalOK, EffectsOK, ResultOK, ShownOK, Happens, Recorded
<1> QED
  BY <1>3, <1>4, <1>5 DEF FormationInv

-----------------------------------------------------------------------------
(* The steps of a call that waits *)

\* A call comes, or waits for something else.
LEMMA WaitStep ==
    ASSUME FormationInv, NEW c \in Calls, ~Runs(c), NEW k \in ToolCalls, k.at # "run",
           k.todo = Path(Shapes[k.body]),
           call' = [call EXCEPT ![c] = k], UNCHANGED <<receipt, shown, world, epoch, host>>
    PROVE  FormationInv'
<1>1. receipt' = receipt /\ shown' = shown /\ world' = world /\ epoch' = epoch /\ host' = host
  OBVIOUS
<1>2. call \in [Calls -> ToolCalls \cup {None}] /\ call'[c] = k
  BY DEF FormationInv, FormationTypeOK
<1>3. \A d \in Calls : d # c => call'[d] = call[d]
  BY <1>2
<1>4. FormationTypeOK'
  BY <1>1, <1>2 DEF FormationInv, FormationTypeOK
<1>5. CallsOK'
  BY <1>1, <1>2, <1>3 DEF FormationInv, CallsOK, Runs, Shape, Fits
<1>6. OneRuns'
  BY <1>2, <1>3 DEF FormationInv, OneRuns, Runs
<1>7. JournalOK' /\ EffectsOK' /\ ResultOK' /\ ShownOK'
  BY <1>1 DEF FormationInv, JournalOK, EffectsOK, ResultOK, ShownOK, Happens, Recorded
<1> QED
  BY <1>4, <1>5, <1>6, <1>7 DEF FormationInv

\* A call comes, with its whole path before it.
LEMMA StartStep ==
    ASSUME FormationInv, NEW c \in Calls, NEW b \in Bodies, Start(c, b)
    PROVE  FormationInv'
<1> DEFINE k == [epoch |-> epoch, body |-> b,
                 at |-> IF HasPreflight(Shapes[b]) THEN "preflight" ELSE "admit",
                 todo |-> Path(Shapes[b]), waited |-> FALSE,
                 pins |-> [f \in Facets |-> IF f = "binding" THEN world[f]
                                            ELSE IF f = "target" /\ ~Placed(Shapes[b]) THEN 0 ELSE None]]
<1>1. Path(Shapes[b]) \in Seq(Steps)
  BY PathFits DEF Sorted
<1>2. k \in ToolCalls /\ k.at # "run" /\ k.todo = Path(Shapes[k.body])
  BY <1>1 DEF ToolCalls, FormationInv, FormationTypeOK
<1>3. call' = [call EXCEPT ![c] = k] /\ ~Runs(c) /\ UNCHANGED <<receipt, shown, world, epoch, host>>
  BY DEF Start, Runs
<1> HIDE DEF k
<1> QED
  BY <1>2, <1>3, WaitStep

\* A call that only reads changes nothing of the journal.
LEMMA InspectStep ==
    ASSUME FormationInv, NEW c \in Calls, receipt # None, Inspect(c),
           UNCHANGED <<receipt, world, epoch, host>>
    PROVE  FormationInv'
<1>1. call' = [call EXCEPT ![c] = None] /\ shown' \subseteq shown \cup {Request(receipt)}
  BY DEF Inspect
<1> QED
  BY <1>1, LeaveStep

\* The preflight of a request.
LEMMA PreflightStep ==
    ASSUME FormationInv, NEW c \in Calls, NEW ok, Preflight(c, ok)
    PROVE  FormationInv'
<1>1. CASE receipt # None
  BY <1>1, InspectStep DEF Preflight
<1>2. CASE receipt = None /\ ok
  <2> DEFINE k == [call[c] EXCEPT !.at = "admit"]
  <2>1. call[c] \in ToolCalls /\ ~Runs(c) /\ call[c].todo = Path(Shapes[call[c].body])
    BY DEF Preflight, FormationInv, FormationTypeOK, CallsOK, Runs, Shape
  <2>2. k \in ToolCalls /\ k.at # "run" /\ k.todo = Path(Shapes[k.body])
    BY <2>1 DEF ToolCalls
  <2>3. call' = [call EXCEPT ![c] = k] /\ UNCHANGED <<receipt, shown, world, epoch, host>>
    BY <1>2 DEF Preflight
  <2> HIDE DEF k
  <2>4. QED
    BY <2>1, <2>2, <2>3, WaitStep
<1>3. CASE receipt = None /\ ~ok
  <2>1. call' = [call EXCEPT ![c] = None] /\ UNCHANGED <<receipt, shown, world, epoch, host>>
    BY <1>3 DEF Preflight
  <2>2. call \in [Calls -> ToolCalls \cup {None}]
    BY DEF FormationInv, FormationTypeOK
  <2>3. \A d \in Calls : call'[d] # None => call'[d] = call[d]
    BY <2>1, <2>2
  <2>4. FormationTypeOK' /\ CallsOK' /\ OneRuns'
    BY <2>1, <2>2, <2>3 DEF FormationInv, FormationTypeOK, CallsOK, OneRuns, Runs, Shape, Fits
  <2>5. JournalOK' /\ EffectsOK' /\ ResultOK' /\ ShownOK'
    BY <2>1 DEF FormationInv, JournalOK, EffectsOK, ResultOK, ShownOK, Happens, Recorded
  <2>6. QED
    BY <2>4, <2>5 DEF FormationInv
<1> QED
  BY <1>1, <1>2, <1>3

\* Before an intent is on disk nothing has happened.
LEMMA NothingYet ==
    ASSUME FormationInv, receipt = None
    PROVE  /\ host.calls = [e \in Effects |-> 0] /\ host.done = {} /\ host.late = {}
           /\ shown = {} /\ \A d \in Calls : ~Runs(d)
<1>1. shown = {}
  BY DEF FormationInv, ShownOK
<1>2. \A d \in Calls : ~Runs(d)
  BY DEF FormationInv, CallsOK, Runs
<1>3. host.calls = [e \in Effects |-> 0] /\ host.done = {} /\ host.late = {}
  BY DEF FormationInv, JournalOK
<1> QED
  BY <1>1, <1>2, <1>3

\* The intent is written by one call, which takes the whole path.
LEMMA AdmitStep ==
    ASSUME FormationInv, NEW c \in Calls, Admit(c)
    PROVE  FormationInv'
<1>1. CASE receipt # None
  BY <1>1, InspectStep DEF Admit
<1>2. CASE receipt = None
  <2> DEFINE k == [call[c] EXCEPT !.at = "run"]
  <2>1. call[c] # None /\ call[c] \in ToolCalls /\ call[c].at = "admit" /\ call[c].todo = Path(Shapes[call[c].body])
    BY DEF Admit, FormationInv, FormationTypeOK, CallsOK, Runs, Shape
  <2>2. k \in ToolCalls /\ k.at = "run" /\ k.epoch = call[c].epoch /\ k.body = call[c].body
        /\ k.todo = Path(Shapes[call[c].body])
    BY <2>1 DEF ToolCalls
  <2>3. /\ call' = [call EXCEPT ![c] = k] /\ receipt' = Intent(call[c])
        /\ shown' = shown /\ world' = world /\ epoch' = epoch /\ host' = host
    BY <1>2 DEF Admit
  <2> HIDE DEF k
  <2>4. /\ receipt' \in Receipts /\ receipt'.phases = <<>> /\ receipt'.result = None
        /\ receipt'.epoch = call[c].epoch /\ receipt'.body = call[c].body
    <3>1. <<>> \in Seq(Phases)
      BY EmptySeq
    <3>2. call[c].epoch \in Nat /\ call[c].body \in Bodies
      BY <2>1 DEF ToolCalls
    <3>3. QED
      BY <2>3, <3>1, <3>2 DEF Intent, Receipts
  <2>5. receipt' # None /\ k # None
    BY <2>2, <2>4, FormationAssumption
  <2>6. /\ host.calls = [e \in Effects |-> 0] /\ host.done = {} /\ host.late = {}
        /\ shown = {} /\ \A d \in Calls : ~Runs(d)
    BY <1>2, NothingYet
  <2>7. call \in [Calls -> ToolCalls \cup {None}] /\ call'[c] = k /\ \A d \in Calls : d # c => call'[d] = call[d]
    BY <2>3 DEF FormationInv, FormationTypeOK
  <2>8. FormationTypeOK'
    BY <2>2, <2>3, <2>4, <2>7 DEF FormationInv, FormationTypeOK
  <2>9. Fits(call[c].todo)'
    <3> DEFINE t == Path(Shapes[call[c].body])
    <3>1. Sorted(t) /\ Owed(ToSet(t), {}) /\ Promised(ToSet(t), {})
      BY PathFits
    <3> HIDE DEF t
    <3>2. call'[c].todo = t
      BY <2>2, <2>7 DEF t
    <3>3. ToSet(receipt'.phases) = {} /\ host'.done = {} /\ host'.calls = [e \in Effects |-> 0]
      BY <2>3, <2>4, <2>6, NoStep
    <3>4. Past(ToSet(t), {}, [e \in Effects |-> 0])
      BY DEF Past, Effects, Decisions
    <3>5. QED
      BY <3>1, <3>2, <3>3, <3>4 DEF Fits, Fitting
  <2>10. CallsOK'
    <3> SUFFICES ASSUME NEW d \in Calls, call'[d] # None
                 PROVE  /\ ~Runs(d)' => call'[d].todo = Path(Shapes[call'[d].body])
                        /\ Runs(d)' => /\ receipt' # None /\ receipt'.result = None
                                       /\ Request(receipt') = Request(call'[d])
                                       /\ Fits(call[d].todo)'
      BY DEF CallsOK, Shape, Request
    <3>1. CASE d = c
      BY <3>1, <2>2, <2>4, <2>5, <2>7, <2>9 DEF Runs, Request
    <3>2. CASE d # c
      BY <3>2, <2>6, <2>7 DEF FormationInv, CallsOK, Runs, Shape
    <3>3. QED
      BY <3>1, <3>2
  <2>11. OneRuns'
    BY <2>6, <2>7 DEF OneRuns, Runs
  <2>12. JournalOK' /\ EffectsOK' /\ ResultOK' /\ ShownOK'
    BY <2>3, <2>4, <2>5, <2>6, FormationAssumption
       DEF JournalOK, EffectsOK, ResultOK, ShownOK, Happens, Unsent, Results
  <2>13. QED
    BY <2>8, <2>10, <2>11, <2>12 DEF FormationInv
<1> QED
  BY <1>1, <1>2

\* A plugin that dies in the write of the intent leaves no call.
LEMMA AdmitTornStep ==
    ASSUME FormationInv, NEW c \in Calls, AdmitTorn(c)
    PROVE  FormationInv'
<1>1. /\ call[c] # None /\ call[c] \in ToolCalls /\ receipt = None
      /\ call' = [d \in Calls |-> None] /\ receipt' = [Intent(call[c]) EXCEPT !.body = None]
      /\ shown' = shown /\ world' = world /\ epoch' = epoch /\ host' = host
  BY DEF AdmitTorn, FormationInv, FormationTypeOK
<1>2. receipt' \in Receipts /\ receipt'.phases = <<>> /\ receipt'.result = None
  <2>1. <<>> \in Seq(Phases)
    BY EmptySeq
  <2>2. call[c].epoch \in Nat
    BY <1>1 DEF ToolCalls
  <2>3. QED
    BY <1>1, <2>1, <2>2 DEF Intent, Receipts
<1>3. receipt' # None
  BY <1>2, FormationAssumption
<1>4. /\ host.calls = [e \in Effects |-> 0] /\ host.done = {} /\ host.late = {} /\ shown = {}
  BY <1>1, NothingYet
<1>5. FormationTypeOK'
  BY <1>1, <1>2 DEF FormationInv, FormationTypeOK
<1>6. CallsOK' /\ OneRuns'
  BY <1>1 DEF CallsOK, OneRuns, Runs
<1>7. JournalOK' /\ EffectsOK' /\ ResultOK' /\ ShownOK'
  BY <1>1, <1>2, <1>3, <1>4, FormationAssumption
     DEF JournalOK, EffectsOK, ResultOK, ShownOK, Happens, Unsent, Results
<1> QED
  BY <1>5, <1>6, <1>7 DEF FormationInv

-----------------------------------------------------------------------------
(* The steps of the call that executes *)

\* What comes last on every path is behind everything that was recorded or
\* asked of the host.
LEMMA Bounds ==
    /\ \A p \in Phases : \E n \in 1..14 : Order(p) = 2 * n
    /\ \A e \in Effects : Order(e) # 0 /\ Order(e) < 28
    /\ \A r \in Results : Order(r) = 40
<1>1. ASSUME NEW p \in Phases PROVE Order(p) \in {2, 4, 6, 8, 10, 14, 16, 18, 20, 22, 24, 26, 28}
  BY Orders DEF Phases
<1>2. \A m \in {2, 4, 6, 8, 10, 14, 16, 18, 20, 22, 24, 26, 28} : \E n \in 1..14 : m = 2 * n
  <2> TAKE m \in {2, 4, 6, 8, 10, 14, 16, 18, 20, 22, 24, 26, 28}
  <2>1. PICK n \in 1..14 : m = n + n
    OBVIOUS
  <2>2. QED
    BY <2>1
<1>3. \A e \in Effects : Order(e) \in {5, 11, 12, 19, 27}
  BY Orders DEF Effects, Decisions
<1>4. \A e \in Effects : Order(e) # 0 /\ Order(e) < 28
  BY <1>3
<1>5. \A p \in Phases : \E n \in 1..14 : Order(p) = 2 * n
  BY <1>1, <1>2
<1> QED
  BY <1>4, <1>5, Orders

\* A path that ends: nothing is asked of the host any more.
LEMMA CloseOff ==
    ASSUME NEW t, Sorted(t), NEW r \in Results, r # "host-accepted", r \in ToSet(t),
           ToSet(t) \cap Effects = {}, ToSet(t) \cap Results = {r},
           NEW P, P \subseteq Phases, NEW done, NEW calls,
           \A z \in ToSet(t) \ {r} : Order(z) # 0 =>
               /\ \A p \in P : Order(p) < Order(z)
               /\ \A e \in Effects : calls[e] # 0 => Order(e) < Order(z),
           calls["send"] # 0 => ToSet(t) \subseteq AfterSend
    PROVE  Fitting(t, P, done, calls)
<1>1. Owed(ToSet(t), P)
  BY DEF Owed, Effects, Decisions
<1>2. Promised(ToSet(t), done)
  <2>1. "send" \notin ToSet(t) /\ "host-accepted" \notin ToSet(t)
    BY DEF Effects, Decisions, Results
  <2>2. QED
    BY <2>1 DEF Promised
<1>3. Past(ToSet(t), P, calls)
  <2>1. (\A p \in P : Order(p) < Order(r)) /\ \A e \in Effects : Order(e) < Order(r)
    <3>1. Order(r) = 40
      BY Bounds
    <3>2. \A p \in P : Order(p) < 40
      <4> TAKE p \in P
      <4>1. PICK n \in 1..14 : Order(p) = 2 * n
        BY Bounds
      <4>2. QED
        BY <4>1
    <3>3. \A e \in Effects : Order(e) < 40
      BY Bounds, OrderNat
    <3>4. QED
      BY <3>1, <3>2, <3>3
  <2>2. QED
    BY <2>1 DEF Past
<1> QED
  BY <1>1, <1>2, <1>3 DEF Fitting

\* Before a send is asked of the host every step may still refuse.
LEMMA NotSent ==
    ASSUME FormationInv, NEW c \in Calls, Runs(c), Step(c) \notin AfterSend
    PROVE  host.calls["send"] = 0
BY Running DEF Fits, Fitting, Past, FormationInv, FormationTypeOK, Effects, Decisions

\* A refusal fits whatever was done before it.
LEMMA RefusedFits ==
    ASSUME FormationInv, NEW c \in Calls, Runs(c), Step(c) \notin AfterSend,
           NEW r \in Results, r # "host-accepted"
    PROVE  Fits(<<r>>)
<1> DEFINE t == <<r>>
<1>1. Sorted(t) /\ ToSet(t) = {r}
  BY OneStep, StepNames
<1>2. {r} \cap Effects = {}
  BY DEF Effects, Decisions, Results
<1>3. host.calls["send"] = 0 /\ ToSet(receipt.phases) \subseteq Phases
  BY NotSent, Running
<1> HIDE DEF t
<1>4. Fitting(t, ToSet(receipt.phases), host.done, host.calls)
  BY <1>1, <1>2, <1>3, CloseOff
<1> QED
  BY <1>4 DEF Fits, t

\* The same for a call that goes on elsewhere.
LEMMA GoesTo ==
    ASSUME FormationInv, NEW c \in Calls, Runs(c), NEW t, Fits(t),
           Turns(c, t), UNCHANGED <<receipt, shown, world, epoch, host>>
    PROVE  FormationInv'
<1> DEFINE k == [call[c] EXCEPT !.todo = t]
<1>1. call[c] \in ToolCalls /\ call[c].at = "run"
  BY Running DEF Runs
<1>2. t \in Seq(Steps)
  BY DEF Fits, Fitting, Sorted
<1>3. /\ k \in ToolCalls /\ k.at = "run" /\ k.epoch = call[c].epoch /\ k.body = call[c].body
      /\ k.todo = t
  BY <1>1, <1>2 DEF ToolCalls
<1>4. call' = [call EXCEPT ![c] = k]
  BY DEF Turns
<1> HIDE DEF k
<1> QED
  BY <1>3, <1>4, TurnStep

\* A check takes a step off the path or refuses.
LEMMA CheckStep == ASSUME FormationInv, NEW c \in Calls, Check(c) PROVE FormationInv'
<1>1. Runs(c) /\ Step(c) \in Checks /\ UNCHANGED <<receipt, shown, world, epoch, host>>
  BY DEF Check
<1>2. Step(c) \notin Effects \cup Results \cup Phases \cup AfterSend
  BY <1>1 DEF Checks, Effects, Decisions, Results, Phases, AfterSend
<1>3. CASE Holds(c, Step(c))
  <2>1. Turns(c, Tail(call[c].todo))
    BY <1>3 DEF Check, Goes, Turns
  <2>2. QED
    BY <1>1, <1>2, <2>1, Popped, GoesTo
<1>4. CASE ~Holds(c, Step(c))
  <2>1. Turns(c, <<"refused">>) /\ "refused" \in Results
    BY <1>4 DEF Check, Results
  <2>2. QED
    BY <1>1, <1>2, <2>1, RefusedFits, GoesTo
<1> QED
  BY <1>3, <1>4

\* So does a check of what was pinned.
LEMMA PinStepStep == ASSUME FormationInv, NEW c \in Calls, Pin(c) PROVE FormationInv'
<1>1. PICK f \in DOMAIN PinStep :
        /\ Step(c) = PinStep[f]
        /\ call' = [call EXCEPT ![c].todo = Tail(@), ![c].pins[f] = world[f]]
  BY DEF Pin
<1>2. Runs(c) /\ UNCHANGED <<receipt, shown, world, epoch, host>>
  BY DEF Pin
<1>3. f \in {"source", "target", "pool", "plan", "pins"} /\ f \in Facets
      /\ PinStep[f] \in {"pin-source", "pin-target", "pin-pool", "pin-plan", "pin-pins"}
  BY <1>1 DEF PinStep, Facets
<1>4. Step(c) \notin Effects \cup Results \cup Phases
  BY <1>1, <1>3 DEF Effects, Decisions, Results, Phases
<1> DEFINE k == [[call[c] EXCEPT !.todo = Tail(@)] EXCEPT !.pins[f] = world[f]]
<1>5. call[c] \in ToolCalls /\ call[c].at = "run" /\ world[f] \in Nat
  BY <1>2, <1>3, Running DEF Runs, FormationInv, FormationTypeOK
<1>6. Fits(Tail(call[c].todo)) /\ Tail(call[c].todo) \in Seq(Steps)
  BY <1>2, <1>4, Popped DEF Fits, Fitting, Sorted
<1>7. /\ k \in ToolCalls /\ k.at = "run" /\ k.epoch = call[c].epoch /\ k.body = call[c].body
      /\ k.todo = Tail(call[c].todo)
  BY <1>5, <1>6 DEF ToolCalls
<1>8. call' = [call EXCEPT ![c] = k]
  BY <1>1 DEF FormationInv, FormationTypeOK
<1> HIDE DEF k
<1> QED
  BY <1>2, <1>6, <1>7, <1>8, TurnStep

\* So does an observation of the seat.
LEMMA ObserveStep == ASSUME FormationInv, NEW c \in Calls, NEW ok, Observe(c, ok) PROVE FormationInv'
<1>1. Runs(c) /\ Step(c) = "observe" /\ UNCHANGED <<receipt, shown, world, epoch, host>>
  BY DEF Observe
<1>2. Step(c) \notin Effects \cup Results \cup Phases \cup AfterSend
  BY <1>1 DEF Effects, Decisions, Results, Phases, AfterSend
<1>3. CASE ok
  <2>1. Turns(c, Tail(call[c].todo))
    BY <1>3 DEF Observe, Goes, Turns
  <2>2. QED
    BY <1>1, <1>2, <2>1, Popped, GoesTo
<1>4. CASE ~ok
  <2>1. Turns(c, <<"identity-uncertain">>) /\ "identity-uncertain" \in Results
    BY <1>4 DEF Observe, Results
  <2>2. QED
    BY <1>1, <1>2, <2>1, RefusedFits, GoesTo
<1> QED
  BY <1>3, <1>4

\* What a composition still records before it ends.
LEMMA ClosingSteps ==
    ASSUME NEW c, NEW e, NEW r \in Results, r # "host-accepted"
    PROVE  LET t == Closing(c, e) \o <<r>> IN
           /\ Sorted(t) /\ r \in ToSet(t) /\ ToSet(t) \cap Effects = {} /\ ToSet(t) \cap Results = {r}
           /\ \/ ToSet(t) = {r}
              \/ e = "create" /\ ToSet(t) = {"bootstrapped", r}
              \/ e = "send" /\ ToSet(t) = {"sent", r}
<1> DEFINE s == Closing(c, e)
           u == <<r>>
           t == s \o u
<1>1. Sorted(u) /\ ToSet(u) = {r}
  BY OneStep, StepNames
<1>2. "bootstrapped" \in Steps /\ "sent" \in Steps
  BY StepNames DEF Phases
<1>3. /\ Sorted(s)
      /\ \/ ToSet(s) = {}
         \/ e = "create" /\ ToSet(s) = {"bootstrapped"}
         \/ e = "send" /\ ToSet(s) = {"sent"}
  <2>1. CASE Shape(c).kind = "task" /\ e = "create"
    BY <2>1, <1>2, OneStep DEF Closing
  <2>2. CASE Shape(c).kind = "task" /\ e = "send"
    BY <2>2, <1>2, OneStep DEF Closing
  <2>3. CASE ~(Shape(c).kind = "task" /\ e \in {"create", "send"})
    BY <2>3, NoStep DEF Closing
  <2>4. QED
    BY <2>1, <2>2, <2>3
<1>4. {"bootstrapped", "sent"} \cap (Effects \cup Results) = {} /\ r \notin Effects
  BY DEF Effects, Decisions, Results
<1> HIDE DEF s, u
<1>5. \A x \in ToSet(s), y \in ToSet(u) : Apart(x, y)
  <2>1. Order("bootstrapped") = 20 /\ Order("sent") = 28 /\ Order(r) = 40
    BY Orders
  <2>2. QED
    BY <1>1, <1>3, <2>1 DEF Apart
<1>6. Sorted(t) /\ ToSet(t) = ToSet(s) \cup {r}
  BY <1>1, <1>3, <1>5, Joined
<1> HIDE DEF t
<1>7. /\ Sorted(t) /\ r \in ToSet(t) /\ ToSet(t) \cap Effects = {} /\ ToSet(t) \cap Results = {r}
      /\ \/ ToSet(t) = {r}
         \/ e = "create" /\ ToSet(t) = {"bootstrapped", r}
         \/ e = "send" /\ ToSet(t) = {"sent", r}
  BY <1>3, <1>4, <1>6
<1> QED
  BY <1>7 DEF t, s, u

\* So does the task core.
LEMMA CoreStep == ASSUME FormationInv, NEW c \in Calls, NEW ok, Core(c, ok) PROVE FormationInv'
<1>1. Runs(c) /\ Step(c) = "core" /\ UNCHANGED <<receipt, shown, world, epoch, host>>
  BY DEF Core
<1>2. Step(c) \notin Effects \cup Results \cup Phases \cup AfterSend
  BY <1>1 DEF Effects, Decisions, Results, Phases, AfterSend
<1>3. CASE ok
  <2>1. Turns(c, Tail(call[c].todo))
    BY <1>3 DEF Core, Goes, Turns
  <2>2. QED
    BY <1>1, <1>2, <2>1, Popped, GoesTo
<1>4. CASE ~ok
  <2> DEFINE e == call[c].todo[2]
             t == Closing(c, e) \o <<"refused">>
             S == ToSet(call[c].todo)
             P == ToSet(receipt.phases)
  <2>1. Turns(c, t)
    BY <1>4 DEF Core
  <2>2. /\ Fits(call[c].todo) /\ call[c].todo # <<>> /\ P \subseteq Phases
        /\ host.calls \in [Effects -> {0, 1}]
    BY <1>1, Running DEF FormationInv, FormationTypeOK
  <2>3. Tail(call[c].todo) # <<>>
    <3>1. Fits(Tail(call[c].todo))
      BY <1>1, <1>2, Popped
    <3>2. ToSet(Tail(call[c].todo)) # {}
      BY <3>1 DEF Fits, Fitting, Owed
    <3>3. QED
      BY <3>2, NoStep
  <2>4. e \in S
    BY <2>2, <2>3, FirstStep DEF Fits, Fitting
  <2>5. host.calls["send"] = 0
    BY <1>1, <1>2, NotSent
  <2>6. "refused" \in Results
    BY DEF Results
  <2>7. /\ Sorted(t) /\ "refused" \in ToSet(t) /\ ToSet(t) \cap Effects = {} /\ ToSet(t) \cap Results = {"refused"}
        /\ \/ ToSet(t) = {"refused"}
           \/ e = "create" /\ ToSet(t) = {"bootstrapped", "refused"}
           \/ e = "send" /\ ToSet(t) = {"sent", "refused"}
    BY <2>6, ClosingSteps
  <2>8. Past(S, P, host.calls)
    BY <2>2 DEF Fits, Fitting
  <2> HIDE DEF e, t, S, P
  <2>9. \A z \in ToSet(t) \ {"refused"} : Order(z) # 0 =>
          /\ \A p \in P : Order(p) < Order(z)
          /\ \A f \in Effects : host.calls[f] # 0 => Order(f) < Order(z)
    <3>1. e \in {"create", "send"} =>
            /\ \A p \in P : Order(p) < Order(e)
            /\ \A f \in Effects : host.calls[f] # 0 => Order(f) < Order(e)
      <4>1. e \in {"create", "send"} => Order(e) # 0
        BY Orders
      <4>2. QED
        BY <2>4, <2>8, <4>1 DEF Past
    <3>2. /\ Order("create") = 19 /\ Order("bootstrapped") = 20
          /\ Order("send") = 27 /\ Order("sent") = 28
      BY Orders
    <3>3. CASE e = "create"
      BY <3>1, <3>2, <3>3, <2>7, OrderNat
    <3>4. CASE e = "send"
      BY <3>1, <3>2, <3>4, <2>7, OrderNat
    <3>5. QED
      BY <3>3, <3>4, <2>7
  <2>10. Fitting(t, P, host.done, host.calls)
    BY <2>2, <2>5, <2>6, <2>7, <2>9, CloseOff
  <2>11. Fits(t)
    BY <2>10 DEF Fits, P
  <2>12. QED
    BY <1>1, <2>1, <2>11, GoesTo
<1> QED
  BY <1>3, <1>4

\* Waiting for the child's membership row.
LEMMA MemberStep == ASSUME FormationInv, NEW c \in Calls, NEW patient, Member(c,
    patient) PROVE FormationInv'
<1> DEFINE T == Tail(call[c].todo)
           P == ToSet(receipt.phases)
<1>1. Runs(c) /\ Step(c) \in {"member", "reread"} /\ UNCHANGED <<receipt, shown, world, epoch, host>>
  BY DEF Member
<1>2. Step(c) \notin Effects \cup Results \cup Phases \cup AfterSend
  BY <1>1 DEF Effects, Decisions, Results, Phases, AfterSend
<1>3. Fits(T) /\ host.calls["send"] = 0 /\ P \subseteq Phases
  BY <1>1, <1>2, Popped, NotSent, Running
<1>4. Order(Step(c)) = 23
  BY <1>1, Orders
<1>5. /\ \A p \in P : Order(p) < 23
      /\ \A e \in Effects : host.calls[e] # 0 => Order(e) < 23
      /\ \A y \in ToSet(T) : Order(y) # 0 => 23 < Order(y)
  <2>1. Past(ToSet(call[c].todo), P, host.calls) /\ Step(c) \in ToSet(call[c].todo)
    BY <1>1, Running DEF Fits, Fitting
  <2>2. \A y \in ToSet(T) : Apart(Step(c), y)
    BY <1>1, Running, FirstStep DEF Fits, Fitting, Step
  <2>3. QED
    BY <1>4, <2>1, <2>2 DEF Past, Apart
<1>6. CASE registered
  <2> DEFINE s == IF call[c].waited /\ Step(c) = "member" THEN Requalify ELSE <<>>
             t == s \o T
  <2>1. Turns(c, t)
    BY <1>6 DEF Member
  <2>2. Between(s, 22, 23)
    <3>1. Between(<<>>, 22, 23)
      BY NoStep DEF Between
    <3>2. QED
      BY <3>1, RequalifyPiece
  <2> HIDE DEF s, T, P
  <2>3. \A x \in ToSet(s) : Order(x) = 0 \/ (22 < Order(x) /\ Order(x) <= 23)
    BY <2>2 DEF Between
  <2>4. \A x \in ToSet(s), y \in ToSet(T) : Apart(x, y)
    <3> SUFFICES ASSUME NEW x \in ToSet(s), NEW y \in ToSet(T) PROVE Apart(x, y)
      OBVIOUS
    <3>1. x # "send"
      <4>1. Order(x) # 27
        BY <2>3, OrderNat
      <4>2. QED
        BY <4>1, Orders
    <3>2. Order(x) # 0 /\ Order(y) # 0 => Order(x) < Order(y)
      BY <1>5, <2>3, OrderNat
    <3>3. QED
      BY <3>1, <3>2 DEF Apart
  <2>5. Sorted(t) /\ ToSet(t) = ToSet(s) \cup ToSet(T)
    BY <1>3, <2>2, <2>4, Joined DEF Between, Fits, Fitting
  <2> HIDE DEF t
  <2>6. ToSet(s) \cap (Effects \cup Results) = {}
    <3>1. \A x \in Effects \cup Results : Order(x) \in {5, 11, 12, 19, 27, 40}
      BY Orders DEF Effects, Decisions
    <3>2. QED
      BY <2>3, <3>1, OrderNat
  <2>7. Owed(ToSet(t), P)
    BY <1>3, <2>5, <2>6 DEF Fits, Fitting, Owed, Effects, Decisions, P
  <2>8. Promised(ToSet(t), host.done)
    <3>1. "host-accepted" \in Results /\ Unsent \subseteq Results
      BY DEF Results, Unsent
    <3>2. QED
      BY <1>3, <2>5, <2>6, <3>1 DEF Fits, Fitting, Promised, Effects, Decisions
  <2>9. Past(ToSet(t), P, host.calls)
    <3>1. \A x \in ToSet(s) : Order(x) # 0 =>
            /\ \A p \in P : Order(p) < Order(x)
            /\ \A e \in Effects : host.calls[e] # 0 => Order(e) < Order(x)
      <4> SUFFICES ASSUME NEW x \in ToSet(s), Order(x) # 0
                   PROVE  /\ \A p \in P : Order(p) < Order(x)
                          /\ \A e \in Effects : host.calls[e] # 0 => Order(e) < Order(x)
        OBVIOUS
      <4>1. Order(x) = 23
        BY <2>3, OrderNat
      <4>2. QED
        BY <1>5, <4>1
    <3>2. QED
      BY <1>3, <2>5, <3>1 DEF Fits, Fitting, Past, P
  <2>10. Fits(t)
    BY <2>5, <2>7, <2>8, <2>9 DEF Fits, Fitting, P
  <2>11. QED
    BY <1>1, <2>1, <2>10, GoesTo
<1>7. CASE ~registered /\ patient
  <2> DEFINE k == [call[c] EXCEPT !.waited = TRUE]
  <2>1. call' = [call EXCEPT ![c] = k]
    BY <1>7 DEF Member
  <2>2. call[c] \in ToolCalls /\ call[c].at = "run" /\ Fits(call[c].todo)
    BY <1>1, Running DEF Runs
  <2>3. /\ k \in ToolCalls /\ k.at = "run" /\ k.epoch = call[c].epoch /\ k.body = call[c].body
        /\ k.todo = call[c].todo
    BY <2>2 DEF ToolCalls
  <2> HIDE DEF k
  <2>4. QED
    BY <1>1, <2>1, <2>2, <2>3, TurnStep
<1>8. CASE ~registered /\ ~patient
  <2> DEFINE s == IF Placed(Shape(c)) THEN <<"membership-observed">> ELSE <<>>
             u == <<"seat-pending">>
             t == s \o u
  <2>1. Turns(c, t)
    BY <1>8 DEF Member, Pending
  <2>2. "membership-observed" \in Steps /\ "seat-pending" \in Steps /\ "seat-pending" \in Results
    BY StepNames DEF Phases, Results
  <2>3. Sorted(s) /\ ToSet(s) \subseteq {"membership-observed"}
    BY <2>2, OneStep, NoStep
  <2>4. Sorted(u) /\ ToSet(u) = {"seat-pending"}
    BY <2>2, OneStep
  <2>5. Order("membership-observed") = 24 /\ Order("seat-pending") = 40
    BY <2>2, Orders
  <2> HIDE DEF s, u
  <2>6. \A x \in ToSet(s), y \in ToSet(u) : Apart(x, y)
    BY <2>3, <2>4, <2>5 DEF Apart
  <2>7. Sorted(t) /\ ToSet(t) = ToSet(s) \cup {"seat-pending"}
    BY <2>3, <2>4, <2>6, Joined
  <2> HIDE DEF t
  <2>8. ToSet(t) \cap Effects = {} /\ ToSet(t) \cap Results = {"seat-pending"}
    BY <2>3, <2>7 DEF Effects, Decisions, Results
  <2>9. \A z \in ToSet(t) \ {"seat-pending"} : Order(z) # 0 =>
          /\ \A p \in P : Order(p) < Order(z)
          /\ \A e \in Effects : host.calls[e] # 0 => Order(e) < Order(z)
    <3>1. \A z \in ToSet(t) \ {"seat-pending"} : Order(z) = 24
      BY <2>3, <2>5, <2>7
    <3>2. QED
      BY <1>5, <3>1, OrderNat
  <2>10. Fitting(t, P, host.done, host.calls)
    BY <1>3, <2>2, <2>7, <2>8, <2>9, CloseOff
  <2>11. QED
    BY <1>1, <2>1, <2>10, GoesTo DEF Fits
<1> QED
  BY <1>6, <1>7, <1>8

\* A phase is on disk: it lies before what is left, and behind what was there.
LEMMA PhaseStep == ASSUME FormationInv, NEW c \in Calls, Phase(c) PROVE FormationInv'
<1> DEFINE t == call[c].todo
           T == Tail(t)
           x == Step(c)
           ps == receipt.phases
           P == ToSet(ps)
           k == [call[c] EXCEPT !.todo = T]
<1>1. /\ Runs(c) /\ x \in Phases
      /\ receipt' = [receipt EXCEPT !.phases = Append(@, x)] /\ call' = [call EXCEPT ![c] = k]
      /\ shown' = shown /\ world' = world /\ epoch' = epoch /\ host' = host
  BY DEF Phase, Goes
<1>2. /\ call[c] \in ToolCalls /\ call[c].at = "run" /\ receipt \in Receipts /\ receipt # None
      /\ receipt.result = None /\ receipt.epoch = call[c].epoch /\ receipt.body = call[c].body
      /\ Fits(t) /\ t # <<>> /\ P \subseteq Phases /\ \A d \in Calls : d # c => ~Runs(d)
  BY <1>1, Running DEF Runs
<1>3. ps \in Seq(Phases) /\ Len(ps) \in Nat
  BY <1>2, LenProperties DEF Receipts
<1>4. /\ Sorted(T) /\ ToSet(t) = {x} \cup ToSet(T) /\ \A y \in ToSet(T) : Apart(x, y)
  BY <1>2, FirstStep DEF Fits, Fitting, Step
<1>5. /\ k \in ToolCalls /\ k.at = "run" /\ k.epoch = call[c].epoch /\ k.body = call[c].body /\ k.todo = T
  BY <1>2, <1>4 DEF ToolCalls, Sorted
<1>6. /\ receipt' \in Receipts /\ receipt'.result = None /\ receipt'.phases = Append(ps, x)
      /\ receipt'.epoch = receipt.epoch /\ receipt'.body = receipt.body
  <2>1. Append(ps, x) \in Seq(Phases)
    BY <1>1, <1>3
  <2>2. QED
    BY <1>1, <1>2, <2>1 DEF Receipts
<1>7. receipt' # None /\ k # None
  BY <1>5, <1>6, FormationAssumption
<1>8. /\ Append(ps, x) # <<>> /\ Len(Append(ps, x)) = Len(ps) + 1
      /\ \A i \in 1..Len(ps) : Append(ps, x)[i] = ps[i]
      /\ Append(ps, x)[Len(ps) + 1] = x
  BY <1>1, <1>3
<1>9. ToSet(receipt'.phases) = P \cup {x}
  <2>1. DOMAIN ps = 1..Len(ps) /\ DOMAIN Append(ps, x) = 1..(Len(ps) + 1)
    BY <1>1, <1>3, <1>8
  <2>2. QED
    BY <1>3, <1>6, <1>8, <2>1 DEF ToSet
<1>10. \A p \in P : Order(p) < Order(x)
  <2>1. PICK n \in 1..14 : Order(x) = 2 * n
    BY <1>1, Bounds
  <2>2. Order(x) # 0
    BY <2>1
  <2>3. QED
    BY <1>2, <1>4, <2>2 DEF Fits, Fitting, Past
<1>11. 2 * Len(Append(ps, x)) <= Order(x)
  <2>1. PICK n \in 1..14 : Order(x) = 2 * n
    BY <1>1, Bounds
  <2>2. CASE ps = <<>>
    BY <1>8, <2>1, <2>2
  <2>3. CASE ps # <<>>
    <3>1. 2 * Len(ps) <= Order(ps[Len(ps)])
      BY <1>2, <2>3 DEF FormationInv, JournalOK
    <3>2. Len(ps) \in 1..Len(ps)
      BY <1>3, <2>3, EmptySeq
    <3>3. ps[Len(ps)] \in P
      BY <1>3, <3>2 DEF ToSet
    <3>4. Order(ps[Len(ps)]) < Order(x)
      BY <1>10, <3>3
    <3>5. 2 * Len(ps) < 2 * n
      BY <1>3, <2>1, <3>1, <3>4, OrderNat
    <3>6. Len(ps) + 1 <= n
      BY <1>3, <3>5
    <3>7. QED
      BY <1>3, <1>8, <2>1, <3>6
  <2>4. QED
    BY <2>2, <2>3
<1>12. Fitting(T, P \cup {x}, host.done, host.calls)
  <2>1. Owed(ToSet(T), P \cup {x})
    <3>1. x \notin Results
      BY <1>1 DEF Phases, Results
    <3>2. Owed(ToSet(t), P)
      BY <1>2 DEF Fits, Fitting
    <3>3. QED
      BY <1>4, <3>1, <3>2 DEF Owed
  <2>2. Promised(ToSet(T), host.done)
    <3>1. x \notin {"create", "send"}
      BY <1>1 DEF Phases
    <3>2. Promised(ToSet(t), host.done)
      BY <1>2 DEF Fits, Fitting
    <3>3. QED
      BY <1>4, <3>1, <3>2 DEF Promised
  <2>3. Past(ToSet(T), P \cup {x}, host.calls)
    <3>1. Past(ToSet(t), P, host.calls)
      BY <1>2 DEF Fits, Fitting
    <3>2. Order(x) # 0
      <4>1. PICK n \in 1..14 : Order(x) = 2 * n
        BY <1>1, Bounds
      <4>2. QED
        BY <4>1
    <3>3. QED
      BY <1>4, <3>1, <3>2 DEF Past, Apart
  <2>4. QED
    BY <1>4, <2>1, <2>2, <2>3 DEF Fitting
<1> HIDE DEF k, T, P, x, ps, t
<1>13. call \in [Calls -> ToolCalls \cup {None}] /\ call'[c] = k /\ \A d \in Calls : d # c => call'[d] = call[d]
  BY <1>1 DEF FormationInv, FormationTypeOK
<1>14. FormationTypeOK'
  BY <1>1, <1>5, <1>6, <1>13 DEF FormationInv, FormationTypeOK
<1>15. CallsOK'
  <2> SUFFICES ASSUME NEW d \in Calls, call'[d] # None
               PROVE  /\ ~Runs(d)' => call'[d].todo = Path(Shapes[call'[d].body])
                      /\ Runs(d)' => /\ receipt' # None /\ receipt'.result = None
                                     /\ Request(receipt') = Request(call'[d])
                                     /\ Fits(call[d].todo)'
    BY DEF CallsOK, Shape, Request
  <2>1. CASE d = c
    <3>1. Fits(call[c].todo)'
      BY <1>1, <1>5, <1>9, <1>12, <1>13 DEF Fits
    <3>2. QED
      BY <2>1, <3>1, <1>2, <1>5, <1>6, <1>7, <1>13 DEF Runs, Request
  <2>2. CASE d # c
    BY <2>2, <1>2, <1>13 DEF FormationInv, CallsOK, Runs, Shape
  <2>3. QED
    BY <2>1, <2>2
<1>16. OneRuns'
  BY <1>2, <1>13 DEF OneRuns, Runs
<1>17. JournalOK'
  <2>1. receipt'.phases[Len(receipt'.phases)] = x
    BY <1>6, <1>8
  <2>2. QED
    BY <1>6, <1>7, <1>11, <2>1 DEF JournalOK
<1>18. EffectsOK'
  BY <1>1, <1>2, <1>7, <1>9 DEF FormationInv, EffectsOK, Happens, Recorded, P, ps
<1>19. ResultOK' /\ ShownOK'
  BY <1>1, <1>2, <1>6, <1>7, FormationAssumption
     DEF FormationInv, ResultOK, ShownOK, Request, Unsent, Results
<1> QED
  BY <1>14, <1>15, <1>16, <1>17, <1>18, <1>19 DEF FormationInv

\* A phase that cannot be written ends the call.
LEMMA PhaseFailsStep == ASSUME FormationInv, NEW c \in Calls, PhaseFails(c) PROVE FormationInv'
<1>1. Runs(c) /\ receipt # None /\ Request(receipt) = Request(call[c])
  BY Running DEF PhaseFails
<1>2. /\ call' = [call EXCEPT ![c] = None] /\ shown' = shown \cup {Request(receipt)}
      /\ UNCHANGED <<receipt, world, epoch, host>>
  BY <1>1 DEF PhaseFails
<1> QED
  BY <1>1, <1>2, LeaveStep

\* The result is on disk and says what happened.
LEMMA ReturnStep == ASSUME FormationInv, NEW c \in Calls, NEW written, Return(c,
    written) PROVE FormationInv'
<1> DEFINE t == call[c].todo
<1>1. /\ Runs(c) /\ Step(c) \in Results /\ receipt # None /\ receipt \in Receipts /\ receipt.result = None
      /\ Request(receipt) = Request(call[c])
      /\ Fits(t) /\ t # <<>> /\ \A d \in Calls : d # c => ~Runs(d)
  BY Running DEF Return
<1>2. /\ call' = [call EXCEPT ![c] = None] /\ shown' = shown \cup {Request(receipt)}
      /\ world' = world /\ epoch' = epoch /\ host' = host
  BY <1>1 DEF Return
<1>3. CASE ~written
  <2>1. UNCHANGED <<receipt, world, epoch, host>> /\ shown' \subseteq shown \cup {Request(receipt)}
    BY <1>2, <1>3 DEF Return
  <2>2. QED
    BY <1>1, <1>2, <2>1, LeaveStep
<1>4. CASE written
  <2>1. receipt' = [receipt EXCEPT !.result = Step(c)]
    BY <1>4 DEF Return
  <2>2. /\ receipt' \in Receipts /\ receipt'.result = Step(c) /\ receipt'.phases = receipt.phases
        /\ Request(receipt') = Request(receipt)
    BY <1>1, <2>1 DEF Receipts, Request
  <2>3. receipt' # None
    BY <2>2, FormationAssumption
  <2>4. /\ call \in [Calls -> ToolCalls \cup {None}] /\ call'[c] = None
        /\ \A d \in Calls : call'[d] # None => call'[d] = call[d] /\ d # c
    BY <1>2 DEF FormationInv, FormationTypeOK
  <2>5. FormationTypeOK'
    BY <1>2, <2>2, <2>4 DEF FormationInv, FormationTypeOK
  <2>6. CallsOK' /\ OneRuns'
    BY <1>1, <2>4 DEF FormationInv, CallsOK, OneRuns, Runs, Shape
  <2>7. JournalOK' /\ EffectsOK'
    BY <1>1, <1>2, <2>2, <2>3 DEF FormationInv, JournalOK, EffectsOK, Happens, Recorded
  <2>8. ShownOK'
    BY <1>2, <2>2, <2>3 DEF FormationInv, ShownOK
  <2>9. Promised(ToSet(t), host.done) /\ Past(ToSet(t), ToSet(receipt.phases), host.calls)
    BY <1>1 DEF Fits, Fitting
  <2>10. /\ ToSet(t) = {Step(c)} \cup ToSet(Tail(t)) /\ \A y \in ToSet(Tail(t)) : Apart(Step(c), y)
    BY <1>1, FirstStep DEF Fits, Fitting, Step
  <2>11. Step(c) \in Unsent => ~Happens("send")
    <3>1. Unsent \cap AfterSend = {} /\ "send" \in Effects
      BY DEF Unsent, Results, AfterSend, Effects, Decisions
    <3>2. Step(c) \in Unsent => host.calls["send"] = 0
      BY <2>9, <2>10, <3>1 DEF Past, FormationInv, FormationTypeOK
    <3>3. QED
      BY <3>1, <3>2 DEF FormationInv, EffectsOK
  <2>12. Step(c) = "host-accepted" => {"create", "send"} \subseteq host.done
    <3> SUFFICES ASSUME Step(c) = "host-accepted" PROVE {"create", "send"} \subseteq host.done
      OBVIOUS
    <3>1. Order("host-accepted") = 40 /\ Order("create") = 19 /\ Order("send") = 27
      BY <1>1, Orders
    <3>2. "create" \notin ToSet(Tail(t)) /\ "send" \notin ToSet(Tail(t))
      BY <2>10, <3>1 DEF Apart
    <3>3. QED
      BY <2>9, <2>10, <3>2 DEF Promised
  <2>13. ResultOK'
    BY <1>2, <2>2, <2>11, <2>12 DEF ResultOK, Happens
  <2>14. QED
    BY <2>5, <2>6, <2>7, <2>8, <2>13 DEF FormationInv
<1> QED
  BY <1>3, <1>4

-----------------------------------------------------------------------------
(* What is asked of the host *)

\* A host call is made once, after its phase and a send after the create; the
\* call goes on with a path that fits what is known of it.
LEMMA HostStep ==
    ASSUME FormationInv, NEW c \in Calls, Runs(c), NEW e \in Effects, Step(c) = e, NEW t,
           Turns(c, t), NEW h, host' = h,
           h \in [calls : [Effects -> {0, 1}], done : SUBSET Effects, late : SUBSET Effects],
           \A f \in Effects : h.calls[f] = IF f = e THEN 1 ELSE host.calls[f],
           host.done \subseteq h.done, h.done \subseteq host.done \cup {e},
           h.late \subseteq host.late \cup {e},
           Fitting(t, ToSet(receipt.phases), h.done, h.calls),
           UNCHANGED <<receipt, shown, world, epoch>>
    PROVE  FormationInv'
<1> DEFINE k == [call[c] EXCEPT !.todo = t]
           S == ToSet(call[c].todo)
           P == ToSet(receipt.phases)
<1>1. receipt' = receipt /\ shown' = shown /\ world' = world /\ epoch' = epoch /\ host' = h
  OBVIOUS
<1>2. /\ call[c] \in ToolCalls /\ call[c].at = "run" /\ receipt # None /\ receipt.result = None
      /\ Request(receipt) = Request(call[c]) /\ Fits(call[c].todo) /\ call[c].todo # <<>>
      /\ \A d \in Calls : d # c => ~Runs(d)
  BY Running DEF Runs
<1>3. /\ k \in ToolCalls /\ k.at = "run" /\ k.epoch = call[c].epoch /\ k.body = call[c].body /\ k.todo = t
  BY <1>2 DEF ToolCalls, Fitting, Sorted
<1>4. call' = [call EXCEPT ![c] = k] /\ k # None
  BY <1>3, FormationAssumption DEF Turns
<1> HIDE DEF k
<1>5. call \in [Calls -> ToolCalls \cup {None}] /\ call'[c] = k /\ \A d \in Calls : d # c => call'[d] = call[d]
  BY <1>4 DEF FormationInv, FormationTypeOK
<1>6. FormationTypeOK'
  BY <1>1, <1>3, <1>4 DEF FormationInv, FormationTypeOK
<1>7. CallsOK'
  <2> SUFFICES ASSUME NEW d \in Calls, call'[d] # None
               PROVE  /\ ~Runs(d)' => call'[d].todo = Path(Shapes[call'[d].body])
                      /\ Runs(d)' => /\ receipt # None /\ receipt.result = None
                                     /\ Request(receipt) = Request(call'[d])
                                     /\ Fits(call[d].todo)'
    BY <1>1 DEF CallsOK, Shape, Request
  <2>1. CASE d = c
    BY <2>1, <1>1, <1>2, <1>3, <1>5 DEF Runs, Request, Fits
  <2>2. CASE d # c
    BY <2>2, <1>2, <1>5 DEF FormationInv, CallsOK, Runs, Shape
  <2>3. QED
    BY <2>1, <2>2
<1>8. OneRuns'
  BY <1>2, <1>5 DEF OneRuns, Runs
<1>9. JournalOK' /\ ShownOK'
  BY <1>1, <1>2 DEF FormationInv, JournalOK, ShownOK
<1>10. ResultOK'
  BY <1>1, <1>2, FormationAssumption DEF ResultOK, Unsent, Results
<1>11. S = {e} \cup ToSet(Tail(call[c].todo)) /\ \A y \in ToSet(Tail(call[c].todo)) : Apart(e, y)
  BY <1>2, FirstStep DEF Fits, Fitting, Step
<1>12. Owed(S, P) /\ Promised(S, host.done)
  BY <1>2 DEF Fits, Fitting
<1>13. /\ e = "open" => "workspace-open-issued" \in P
       /\ e \in Decisions => "route-issued" \in P
       /\ e = "create" => "create-issued" \in P \/ "bootstrap-issued" \in P
       /\ e = "send" => "send-issued" \in P /\ "create" \in host.done
  <2>1. /\ Order("open") = 5 /\ Order("workspace-open-issued") = 4
        /\ Order("decide") = 11 /\ Order("decide-again") = 12 /\ Order("route-issued") = 10
        /\ Order("create") = 19 /\ Order("create-issued") = 18 /\ Order("bootstrap-issued") = 18
        /\ Order("send") = 27 /\ Order("send-issued") = 26
    BY Orders
  <2>a. \A y \in S : Order(y) # 0 => ~(Order(y) < Order(e))
    BY <1>11, OrderNat DEF Apart
  <2>b. /\ "open" \in S => "workspace-open-issued" \in S \cup P
        /\ S \cap Decisions # {} => "route-issued" \in S \cup P
        /\ "create" \in S => "create-issued" \in S \cup P \/ "bootstrap-issued" \in S \cup P
        /\ "send" \in S => "send-issued" \in S \cup P
    BY <1>12 DEF Owed
  <2>2. e = "open" => "workspace-open-issued" \in P
    BY <1>11, <2>1, <2>a, <2>b
  <2>3. e \in Decisions => "route-issued" \in P
    <3>1. CASE e = "decide"
      BY <1>11, <2>1, <2>a, <2>b, <3>1 DEF Decisions
    <3>2. CASE e = "decide-again"
      BY <1>11, <2>1, <2>a, <2>b, <3>2 DEF Decisions
    <3>3. QED
      BY <3>1, <3>2 DEF Decisions
  <2>4. e = "create" => "create-issued" \in P \/ "bootstrap-issued" \in P
    BY <1>11, <2>1, <2>a, <2>b
  <2>5. e = "send" => "send-issued" \in P /\ "create" \in host.done
    <3>1. e = "send" => "send-issued" \in P
      BY <1>11, <2>1, <2>a, <2>b
    <3>2. e = "send" => "create" \in host.done
      <4>1. "create" \notin AfterSend
        BY DEF AfterSend
      <4>2. QED
        BY <1>11, <1>12, <4>1 DEF Promised, Apart
    <3>3. QED
      BY <3>1, <3>2
  <2>6. QED
    BY <2>2, <2>3, <2>4, <2>5
<1>14. EffectsOK'
  <2>1. \A f \in Effects : f \in h.done \cup h.late => f = e \/ Happens(f)
    BY DEF Happens
  <2>2. \A f \in Effects : f \in h.done \cup h.late => h.calls[f] # 0
    BY <2>1 DEF FormationInv, EffectsOK
  <2>3. {"open", "create", "send"} \cup Decisions \subseteq Effects
    BY DEF Effects, Decisions
  <2>4. /\ "open" \in h.done \cup h.late => Recorded("workspace-open-issued")
        /\ \A f \in Decisions : f \in h.done \cup h.late => Recorded("route-issued")
        /\ "create" \in h.done \cup h.late => Recorded("create-issued") \/ Recorded("bootstrap-issued")
        /\ "send" \in h.done \cup h.late => Recorded("send-issued") /\ "create" \in h.done
    BY <1>2, <1>13, <2>1, <2>3 DEF FormationInv, EffectsOK, Recorded
  <2>5. QED
    BY <1>1, <2>2, <2>4 DEF EffectsOK, Happens, Recorded
<1> QED
  BY <1>6, <1>7, <1>8, <1>9, <1>10, <1>14 DEF FormationInv

\* What the executing call knows when it asks something of the host.
LEMMA Asking ==
    ASSUME FormationInv, NEW c \in Calls, Runs(c), NEW e \in Effects, Step(c) = e
    PROVE  /\ host.calls[e] = 0 /\ Order(e) # 0
           /\ host \in [calls : [Effects -> {0, 1}], done : SUBSET Effects, late : SUBSET Effects]
           /\ \A p \in ToSet(receipt.phases) : Order(p) < Order(e)
           /\ \A f \in Effects : host.calls[f] # 0 => Order(f) < Order(e)
           /\ host.calls["send"] = 0
<1>1. host \in [calls : [Effects -> {0, 1}], done : SUBSET Effects, late : SUBSET Effects]
  BY DEF FormationInv, FormationTypeOK
<1>2. Order(e) # 0
  BY Bounds
<1>3. Past(ToSet(call[c].todo), ToSet(receipt.phases), host.calls) /\ e \in ToSet(call[c].todo)
  BY Running DEF Fits, Fitting
<1>4. /\ \A p \in ToSet(receipt.phases) : Order(p) < Order(e)
      /\ \A f \in Effects : host.calls[f] # 0 => Order(f) < Order(e)
  BY <1>2, <1>3 DEF Past
<1>5. host.calls[e] = 0
  <2>1. host.calls[e] # 0 => Order(e) < Order(e)
    BY <1>4
  <2>2. QED
    BY <2>1, OrderNat
<1>6. host.calls["send"] = 0
  <2>1. e \notin AfterSend
    BY DEF Effects, Decisions, AfterSend
  <2>2. QED
    BY <2>1, NotSent
<1> QED
  BY <1>1, <1>2, <1>4, <1>5, <1>6

\* A change of fields, written out.
LEMMA FieldsDone ==
  ASSUME host \in [calls : [Effects -> {0, 1}], done : SUBSET Effects, late : SUBSET Effects],
         NEW e \in Effects, NEW h, h = [host EXCEPT !.calls[e] = @ + 1, !.done = @ \cup {e}]
  PROVE  h = [calls |-> [host.calls EXCEPT ![e] = host.calls[e] + 1],
              done  |-> host.done \cup {e}, late |-> host.late]
OBVIOUS

\* The same for a call whose fate is open.
LEMMA FieldsFated ==
  ASSUME host \in [calls : [Effects -> {0, 1}], done : SUBSET Effects, late : SUBSET Effects],
         NEW e \in Effects, NEW fate, NEW h, h = Fated(e, fate)
  PROVE  h = [calls |-> [host.calls EXCEPT ![e] = host.calls[e] + 1],
              done  |-> IF fate = "done" THEN host.done \cup {e} ELSE host.done,
              late  |-> IF fate = "late" THEN host.late \cup {e} ELSE host.late]
BY DEF Fated

\* A host call not made yet is counted once.
LEMMA Counted ==
  ASSUME NEW H \in [calls : [Effects -> {0, 1}], done : SUBSET Effects, late : SUBSET Effects],
         NEW e \in Effects, H.calls[e] = 0,
         NEW D \in SUBSET Effects, NEW L \in SUBSET Effects,
         NEW h, h = [calls |-> [H.calls EXCEPT ![e] = H.calls[e] + 1], done |-> D, late |-> L]
  PROVE  /\ h \in [calls : [Effects -> {0, 1}], done : SUBSET Effects, late : SUBSET Effects]
         /\ \A f \in Effects : h.calls[f] = IF f = e THEN 1 ELSE H.calls[f]
         /\ h.done = D /\ h.late = L
<1> DEFINE k == [H.calls EXCEPT ![e] = H.calls[e] + 1]
<1>1. H.calls \in [Effects -> {0, 1}]
  OBVIOUS
<1>2. H.calls[e] + 1 = 1
  OBVIOUS
<1>3. k = [H.calls EXCEPT ![e] = 1]
  BY <1>2
<1>4. k \in [Effects -> {0, 1}] /\ \A f \in Effects : k[f] = IF f = e THEN 1 ELSE H.calls[f]
  BY <1>1, <1>3
<1> HIDE DEF k
<1>5. h = [calls |-> k, done |-> D, late |-> L]
  BY DEF k
<1> QED
  BY <1>4, <1>5

\* A host call that is answered.
LEMMA EffectStep == ASSUME FormationInv, NEW c \in Calls, NEW e \in Effects, Effect(c,
    e) PROVE FormationInv'
<1> DEFINE h == [host EXCEPT !.calls[e] = @ + 1, !.done = @ \cup {e}]
           t == call[c].todo
           T == Tail(t)
           P == ToSet(receipt.phases)
<1>1. Runs(c) /\ Step(c) = e /\ host' = h /\ Turns(c, T) /\ UNCHANGED <<receipt, shown, world, epoch>>
  BY DEF Effect, Goes, Turns
<1>2. /\ host.calls[e] = 0 /\ Order(e) # 0
      /\ host \in [calls : [Effects -> {0, 1}], done : SUBSET Effects, late : SUBSET Effects]
      /\ \A p \in P : Order(p) < Order(e)
      /\ \A f \in Effects : host.calls[f] # 0 => Order(f) < Order(e)
      /\ host.calls["send"] = 0
  BY <1>1, Asking
<1>3. /\ h \in [calls : [Effects -> {0, 1}], done : SUBSET Effects, late : SUBSET Effects]
      /\ \A f \in Effects : h.calls[f] = IF f = e THEN 1 ELSE host.calls[f]
      /\ h.done = host.done \cup {e} /\ h.late = host.late
  <2>1. h = [calls |-> [host.calls EXCEPT ![e] = host.calls[e] + 1],
             done  |-> host.done \cup {e}, late |-> host.late]
    BY <1>2, FieldsDone
  <2>2. host.done \cup {e} \in SUBSET Effects /\ host.late \in SUBSET Effects
    BY <1>2
  <2> HIDE DEF h
  <2>3. QED
    BY <1>2, <2>1, <2>2, Counted
<1>4. Fits(t) /\ t # <<>>
  BY <1>1, Running
<1>5. Sorted(T) /\ ToSet(t) = {e} \cup ToSet(T) /\ \A y \in ToSet(T) : Apart(e, y)
  BY <1>1, <1>4, FirstStep DEF Fits, Fitting, Step
<1>6. Owed(ToSet(T), P)
  <2>1. e \notin Results /\ e \notin Phases
    BY DEF Effects, Decisions, Results, Phases
  <2>2. Owed(ToSet(t), P)
    BY <1>4 DEF Fits, Fitting
  <2>3. {"workspace-open-issued", "route-issued", "create-issued", "bootstrap-issued",
          "send-issued"} \subseteq Phases
    BY DEF Phases
  <2>4. QED
    BY <1>5, <2>1, <2>2, <2>3 DEF Owed
<1>7. Promised(ToSet(T), h.done)
  BY <1>3, <1>4, <1>5 DEF Fits, Fitting, Promised
<1>8. Past(ToSet(T), P, h.calls)
  <2>1. \A x \in ToSet(T) : Order(x) # 0 => Order(e) < Order(x)
    BY <1>2, <1>5 DEF Apart
  <2>2. Past(ToSet(t), P, host.calls)
    BY <1>4 DEF Fits, Fitting
  <2>3. \A x \in ToSet(T) : Order(x) # 0 =>
          /\ \A p \in P : Order(p) < Order(x)
          /\ \A f \in Effects : h.calls[f] # 0 => Order(f) < Order(x)
    BY <1>3, <1>5, <2>1, <2>2 DEF Past
  <2>4. h.calls["send"] # 0 => ToSet(T) \subseteq AfterSend
    <3>1. "send" \in Effects
      BY DEF Effects, Decisions
    <3>2. h.calls["send"] # 0 => e = "send"
      BY <1>2, <1>3, <3>1
    <3>3. QED
      BY <1>5, <3>2 DEF Apart
  <2>5. QED
    BY <2>3, <2>4 DEF Past
<1> HIDE DEF h, T, P, t
<1>9. Fitting(T, P, h.done, h.calls)
  BY <1>5, <1>6, <1>7, <1>8 DEF Fitting
<1> QED
  BY <1>1, <1>3, <1>9, HostStep DEF P

\* A decision that is refused before its request is sent.
LEMMA DecisionUnsentStep == ASSUME FormationInv, NEW c \in Calls, DecisionUnsent(c) PROVE FormationInv'
<1>1. /\ Runs(c) /\ Step(c) = "decide" /\ Turns(c, <<"refused">>)
      /\ UNCHANGED <<receipt, shown, world, epoch, host>>
  BY DEF DecisionUnsent
<1>2. Step(c) \notin AfterSend /\ "refused" \in Results
  BY <1>1 DEF AfterSend, Results
<1> QED
  BY <1>1, <1>2, RefusedFits, GoesTo

\* What is known once a request for a decision has left.
LEMMA Requested ==
    ASSUME FormationInv, NEW c \in Calls, Runs(c), NEW e \in Decisions, Step(c) = e,
           NEW h, h = Fated(e, "done")
    PROVE  /\ e \in Effects /\ host.calls[e] = 0 /\ Order(e) <= 12
           /\ h \in [calls : [Effects -> {0, 1}], done : SUBSET Effects, late : SUBSET Effects]
           /\ \A f \in Effects : h.calls[f] = IF f = e THEN 1 ELSE host.calls[f]
           /\ h.done = host.done \cup {e} /\ h.late = host.late
           /\ \A p \in ToSet(receipt.phases) : Order(p) < Order(e)
           /\ \A f \in Effects : h.calls[f] # 0 => Order(f) <= Order(e)
           /\ h.calls["send"] = 0
<1>1. e \in Effects /\ "send" \in Effects /\ e # "send"
  BY DEF Effects, Decisions
<1>2. Order(e) <= 12
  <2>1. Order("decide") = 11 /\ Order("decide-again") = 12
    BY Orders
  <2>2. QED
    BY <2>1 DEF Decisions
<1>3. /\ host.calls[e] = 0
      /\ host \in [calls : [Effects -> {0, 1}], done : SUBSET Effects, late : SUBSET Effects]
      /\ \A p \in ToSet(receipt.phases) : Order(p) < Order(e)
      /\ \A f \in Effects : host.calls[f] # 0 => Order(f) < Order(e)
      /\ host.calls["send"] = 0
  BY <1>1, Asking
<1>4. h = [calls |-> [host.calls EXCEPT ![e] = host.calls[e] + 1],
           done  |-> host.done \cup {e}, late |-> host.late]
  BY <1>1, <1>3, FieldsFated
<1>5. host.done \cup {e} \in SUBSET Effects /\ host.late \in SUBSET Effects
  BY <1>1, <1>3
<1>6. /\ h \in [calls : [Effects -> {0, 1}], done : SUBSET Effects, late : SUBSET Effects]
      /\ \A f \in Effects : h.calls[f] = IF f = e THEN 1 ELSE host.calls[f]
      /\ h.done = host.done \cup {e} /\ h.late = host.late
  BY <1>1, <1>3, <1>4, <1>5, Counted
<1>7. \A f \in Effects : h.calls[f] # 0 => Order(f) <= Order(e)
  BY <1>3, <1>6, OrderNat
<1> QED
  BY <1>1, <1>2, <1>3, <1>6, <1>7

\* A request that is sent once more.
LEMMA DecisionRetriedStep == ASSUME FormationInv, NEW c \in Calls, DecisionRetried(c) PROVE FormationInv'
<1> DEFINE h == Fated("decide", "done")
           s == call[c].todo
           T == Tail(s)
           t == <<"decide-again">> \o T
           P == ToSet(receipt.phases)
<1>1. Runs(c) /\ Step(c) = "decide" /\ host' = h /\ Turns(c, t) /\ UNCHANGED <<receipt, shown, world, epoch>>
  BY DEF DecisionRetried
<1>2. "decide" \in Decisions /\ "decide" \in Effects /\ "decide-again" \in Steps
  BY StepNames DEF Decisions, Effects
<1> DEFINE e == "decide"
<1>a. h = Fated(e, "done") /\ Step(c) = e /\ e \in Decisions
  BY <1>1, <1>2
<1>b. Fits(s) /\ s # <<>> /\ t = <<"decide-again">> \o T
  BY <1>1, Running
<1>c. Sorted(T) /\ ToSet(s) = {e} \cup ToSet(T) /\ \A y \in ToSet(T) : Apart(e, y)
  BY <1>1, <1>b, FirstStep DEF Fits, Fitting, Step
<1> HIDE DEF h, T, t, P, s, e
<1>3. /\ h \in [calls : [Effects -> {0, 1}], done : SUBSET Effects, late : SUBSET Effects]
      /\ \A f \in Effects : h.calls[f] = IF f = e THEN 1 ELSE host.calls[f]
      /\ h.done = host.done \cup {e} /\ h.late = host.late
  BY <1>1, <1>a, Requested
<1>4. /\ \A p \in P : Order(p) < Order(e)
      /\ \A f \in Effects : h.calls[f] # 0 => Order(f) <= Order(e)
      /\ h.calls["send"] = 0
  BY <1>1, <1>a, Requested DEF P
<1>5. Order(e) = 11 /\ Order("decide-again") = 12
  BY Orders DEF e
<1>6. Owed(ToSet(s), P) /\ Promised(ToSet(s), host.done)
  BY <1>b DEF Fits, Fitting, P, s
<1>7. e \notin ToSet(T)
  BY <1>c, <1>5 DEF Apart
<1>8. "decide-again" \notin ToSet(T)
  BY <1>c, <1>6 DEF Owed, e
<1>9. \A y \in ToSet(T) : Order(y) # 0 => 12 < Order(y)
  <2> SUFFICES ASSUME NEW y \in ToSet(T), Order(y) # 0 PROVE 12 < Order(y)
    OBVIOUS
  <2>1. 11 < Order(y)
    BY <1>c, <1>5 DEF Apart
  <2>2. y # "decide-again"
    BY <1>8
  <2>3. Order(y) # 12
    BY <2>2 DEF Order
  <2>4. QED
    BY <2>1, <2>3, OrderNat
<1>10. \A y \in ToSet(T) : Apart("decide-again", y)
  BY <1>5, <1>9 DEF Apart
<1>11. Sorted(t) /\ ToSet(t) = {"decide-again"} \cup ToSet(T)
  BY <1>2, <1>b, <1>c, <1>10, Prefixed
<1>12. Owed(ToSet(t), P)
  <2>1. e \notin Results /\ "decide-again" \notin Results /\ e \in Decisions
    BY DEF Results, Decisions, e
  <2>2. QED
    BY <1>c, <1>6, <1>7, <1>11, <2>1 DEF Owed, e
<1>13. Promised(ToSet(t), h.done)
  <2>1. /\ e \notin Unsent \cup {"send", "create", "host-accepted"}
        /\ "decide-again" \notin Unsent \cup {"send", "host-accepted"}
    BY DEF Unsent, Results, e
  <2>2. QED
    BY <1>3, <1>c, <1>6, <1>11, <2>1 DEF Promised
<1>14. Past(ToSet(t), P, h.calls)
  <2>1. \A x \in ToSet(t) : Order(x) # 0 => Order(e) < Order(x)
    BY <1>5, <1>9, <1>11, OrderNat
  <2>2. \A x \in ToSet(t) : Order(x) # 0 =>
          /\ \A p \in P : Order(p) < Order(x)
          /\ \A f \in Effects : h.calls[f] # 0 => Order(f) < Order(x)
    BY <1>4, <2>1, OrderNat
  <2>3. QED
    BY <1>4, <2>2 DEF Past
<1>15. Fitting(t, P, h.done, h.calls)
  BY <1>11, <1>12, <1>13, <1>14 DEF Fitting
<1>16. /\ Runs(c) /\ e \in Effects /\ Step(c) = e /\ host' = h /\ Turns(c, t)
       /\ UNCHANGED <<receipt, shown, world, epoch>>
  BY <1>1, <1>2, <1>a DEF e
<1>17. /\ host.done \subseteq h.done /\ h.done \subseteq host.done \cup {e} /\ h.late \subseteq host.late \cup {e}
       /\ Fitting(t, ToSet(receipt.phases), h.done, h.calls)
  BY <1>3, <1>15 DEF P
<1> QED
  BY <1>3, <1>16, <1>17, HostStep

\* A decision that fails for good.
LEMMA DecisionFailedStep ==
    ASSUME FormationInv, NEW c \in Calls, NEW e \in Decisions, DecisionFailed(c, e) PROVE FormationInv'
<1> DEFINE h == Fated(e, "done")
           t == <<"refused">>
           P == ToSet(receipt.phases)
<1>1. Runs(c) /\ Step(c) = e /\ host' = h /\ Turns(c, t) /\ UNCHANGED <<receipt, shown, world, epoch>>
  BY DEF DecisionFailed
<1>2. /\ e \in Effects
      /\ h \in [calls : [Effects -> {0, 1}], done : SUBSET Effects, late : SUBSET Effects]
      /\ \A f \in Effects : h.calls[f] = IF f = e THEN 1 ELSE host.calls[f]
      /\ h.done = host.done \cup {e} /\ h.late = host.late
      /\ h.calls["send"] = 0
  BY <1>1, Requested
<1>3. "refused" \in Results /\ "refused" \in Steps
  BY StepNames DEF Results
<1>4. Sorted(t) /\ ToSet(t) = {"refused"}
  BY <1>3, OneStep
<1> HIDE DEF h, t
<1>5. ToSet(t) \cap Effects = {} /\ ToSet(t) \cap Results = {"refused"}
  BY <1>4 DEF Effects, Decisions, Results
<1>6. P \subseteq Phases
  BY <1>1, Running
<1>7. Fitting(t, P, h.done, h.calls)
  BY <1>2, <1>3, <1>4, <1>5, <1>6, CloseOff
<1> QED
  BY <1>1, <1>2, <1>7, HostStep DEF P

\* A decision that selects nothing.
LEMMA DecidedStep ==
    ASSUME FormationInv, NEW c \in Calls, NEW e \in Decisions,
           NEW reply \in {"route-declined", "route-mismatch"}, Decided(c, e, reply)
    PROVE  FormationInv'
<1> DEFINE h == Fated(e, "done")
           t == <<reply, "refused">>
           P == ToSet(receipt.phases)
<1>1. Runs(c) /\ Step(c) = e /\ host' = h /\ Turns(c, t) /\ UNCHANGED <<receipt, shown, world, epoch>>
  BY DEF Decided
<1>2. /\ e \in Effects /\ Order(e) <= 12
      /\ h \in [calls : [Effects -> {0, 1}], done : SUBSET Effects, late : SUBSET Effects]
      /\ \A f \in Effects : h.calls[f] = IF f = e THEN 1 ELSE host.calls[f]
      /\ h.done = host.done \cup {e} /\ h.late = host.late
      /\ \A p \in P : Order(p) < Order(e)
      /\ \A f \in Effects : h.calls[f] # 0 => Order(f) <= Order(e)
      /\ h.calls["send"] = 0
  BY <1>1, Requested
<1>3. "refused" \in Results /\ "refused" \in Steps /\ reply \in Steps
  BY StepNames DEF Results, Phases
<1>4. Order(reply) = 14 /\ Order("refused") = 40
  BY <1>3, Orders
<1>5. Apart(reply, "refused")
  BY <1>4 DEF Apart
<1>6. Sorted(t) /\ ToSet(t) = {reply, "refused"}
  BY <1>3, <1>5, Steps2
<1> HIDE DEF h, t
<1>7. ToSet(t) \cap Effects = {} /\ ToSet(t) \cap Results = {"refused"}
  BY <1>6 DEF Effects, Decisions, Results
<1>8. \A z \in ToSet(t) \ {"refused"} : Order(z) # 0 =>
         /\ \A p \in P : Order(p) < Order(z)
         /\ \A f \in Effects : h.calls[f] # 0 => Order(f) < Order(z)
  <2>1. \A z \in ToSet(t) \ {"refused"} : Order(z) = 14
    BY <1>4, <1>6
  <2>2. QED
    BY <1>2, <2>1, OrderNat
<1>9. P \subseteq Phases
  BY <1>1, Running
<1>10. Fitting(t, P, h.done, h.calls)
  BY <1>2, <1>3, <1>6, <1>7, <1>8, <1>9, CloseOff
<1> QED
  BY <1>1, <1>2, <1>10, HostStep DEF P

\* A host call that expires or fails.
LEMMA UncertainStep ==
    ASSUME FormationInv, NEW c \in Calls, NEW e \in Effects, NEW fate \in {"done", "late", "none"},
           EffectUncertain(c, e, fate)
    PROVE  FormationInv'
<1> DEFINE h == Fated(e, fate)
           r == Uncertain[e]
           t == Closing(c, e) \o <<r>>
           P == ToSet(receipt.phases)
<1>1. Runs(c) /\ Step(c) = e /\ host' = h /\ Turns(c, t) /\ UNCHANGED <<receipt, shown, world, epoch>>
  BY DEF EffectUncertain
<1>2. e \in {"open", "create", "send"} /\ "send" \in Effects
  BY DEF EffectUncertain, Effects, Decisions
<1>3. /\ r \in Results /\ r # "host-accepted"
      /\ e = "send" => r = "send-uncertain"
  BY <1>2 DEF Uncertain, Results
<1>4. /\ host.calls[e] = 0
      /\ host \in [calls : [Effects -> {0, 1}], done : SUBSET Effects, late : SUBSET Effects]
      /\ \A p \in P : Order(p) < Order(e)
      /\ \A f \in Effects : host.calls[f] # 0 => Order(f) < Order(e)
      /\ host.calls["send"] = 0
  BY <1>1, Asking
<1>5. /\ h \in [calls : [Effects -> {0, 1}], done : SUBSET Effects, late : SUBSET Effects]
      /\ \A f \in Effects : h.calls[f] = IF f = e THEN 1 ELSE host.calls[f]
      /\ host.done \subseteq h.done /\ h.done \subseteq host.done \cup {e}
      /\ h.late \subseteq host.late \cup {e}
  <2> DEFINE D == IF fate = "done" THEN host.done \cup {e} ELSE host.done
             L == IF fate = "late" THEN host.late \cup {e} ELSE host.late
  <2>1. h = [calls |-> [host.calls EXCEPT ![e] = host.calls[e] + 1], done |-> D, late |-> L]
    BY <1>4, FieldsFated
  <2>2. D \in SUBSET Effects /\ L \in SUBSET Effects
    BY <1>4
  <2>3. host.done \subseteq D /\ D \subseteq host.done \cup {e} /\ L \subseteq host.late \cup {e}
    OBVIOUS
  <2> HIDE DEF h, D, L
  <2>4. /\ h \in [calls : [Effects -> {0, 1}], done : SUBSET Effects, late : SUBSET Effects]
        /\ \A f \in Effects : h.calls[f] = IF f = e THEN 1 ELSE host.calls[f]
        /\ h.done = D /\ h.late = L
    BY <1>4, <2>1, <2>2, Counted
  <2>5. QED
    BY <2>3, <2>4
<1> HIDE DEF h, r
<1>6. /\ Sorted(t) /\ r \in ToSet(t) /\ ToSet(t) \cap Effects = {} /\ ToSet(t) \cap Results = {r}
      /\ \/ ToSet(t) = {r}
         \/ e = "create" /\ ToSet(t) = {"bootstrapped", r}
         \/ e = "send" /\ ToSet(t) = {"sent", r}
  BY <1>3, ClosingSteps
<1> HIDE DEF t
<1>7. \A z \in ToSet(t) \ {r} : Order(z) # 0 =>
        /\ \A p \in P : Order(p) < Order(z)
        /\ \A f \in Effects : h.calls[f] # 0 => Order(f) < Order(z)
  <2>1. /\ Order("create") = 19 /\ Order("bootstrapped") = 20
        /\ Order("send") = 27 /\ Order("sent") = 28
    BY Orders
  <2>2. \A z \in ToSet(t) \ {r} : Order(e) < Order(z)
    BY <1>6, <2>1
  <2>3. \A f \in Effects : h.calls[f] # 0 => f = e \/ Order(f) < Order(e)
    BY <1>4, <1>5
  <2>4. QED
    BY <1>4, <2>2, <2>3, OrderNat
<1>8. h.calls["send"] # 0 => ToSet(t) \subseteq AfterSend
  <2>1. h.calls["send"] # 0 => e = "send"
    BY <1>2, <1>4, <1>5
  <2>2. QED
    BY <1>3, <1>6, <2>1 DEF AfterSend
<1>9. P \subseteq Phases
  BY <1>1, Running
<1>10. Fitting(t, P, h.done, h.calls)
  BY <1>3, <1>6, <1>7, <1>8, <1>9, CloseOff
<1> QED
  BY <1>1, <1>5, <1>10, HostStep DEF P

\* A call that expired happens after all.
LEMMA LateStep == ASSUME FormationInv, NEW e \in Effects, LateEffect(e) PROVE FormationInv'
<1>1. /\ e \in host.late /\ host' = [host EXCEPT !.late = @ \ {e}, !.done = @ \cup {e}]
      /\ receipt' = receipt /\ call' = call /\ shown' = shown /\ world' = world /\ epoch' = epoch
  BY DEF LateEffect
<1>2. host \in [calls : [Effects -> {0, 1}], done : SUBSET Effects, late : SUBSET Effects]
  BY DEF FormationInv, FormationTypeOK
<1>3. /\ host' \in [calls : [Effects -> {0, 1}], done : SUBSET Effects, late : SUBSET Effects]
      /\ host'.calls = host.calls /\ host'.done = host.done \cup {e} /\ host'.late = host.late \ {e}
  BY <1>1, <1>2
<1>4. host'.done \cup host'.late = host.done \cup host.late
  BY <1>1, <1>3
<1>5. FormationTypeOK'
  BY <1>1, <1>3 DEF FormationInv, FormationTypeOK
<1>6. ASSUME NEW S, Promised(S, host.done) PROVE Promised(S, host'.done)
  BY <1>3, <1>6 DEF Promised
<1>7. ASSUME NEW t, Fits(t) PROVE Fitting(t, ToSet(receipt.phases), host'.done, host'.calls)
  BY <1>3, <1>6, <1>7 DEF Fits, Fitting
<1>8. CallsOK' /\ OneRuns'
  BY <1>1, <1>7 DEF FormationInv, CallsOK, OneRuns, Runs, Shape, Fits
<1>9. receipt # None
  BY <1>1, NothingYet
<1>10. JournalOK' /\ ShownOK'
  BY <1>1, <1>9 DEF FormationInv, JournalOK, ShownOK
<1>11. EffectsOK' /\ ResultOK'
  BY <1>1, <1>3, <1>4 DEF FormationInv, EffectsOK, ResultOK, Happens, Recorded
<1> QED
  BY <1>5, <1>8, <1>10, <1>11 DEF FormationInv

-----------------------------------------------------------------------------
(* The theorems *)

\* The inductive invariant holds at the start.
LEMMA FormationStarts == FormationInit => FormationInv
<1> SUFFICES ASSUME FormationInit PROVE FormationInv
  OBVIOUS
<1>1. FormationTypeOK
  BY DEF FormationInit, FormationTypeOK
<1>2. CallsOK /\ OneRuns
  BY DEF FormationInit, CallsOK, OneRuns, Runs
<1>3. JournalOK /\ EffectsOK /\ ResultOK /\ ShownOK
  BY DEF FormationInit, JournalOK, EffectsOK, ResultOK, ShownOK, Happens
<1> QED
  BY <1>1, <1>2, <1>3 DEF FormationInv

FormationSpec == FormationInit /\ [][FormationNext]_formationVars

\* Only one call ever executes, and what it did, what is on disk and what is
\* left of its path fit each other at every step (desk-operation.ts, run).
THEOREM PathsFollowed == FormationSpec => []FormationInv
<1>1. FormationInv /\ [FormationNext]_formationVars => FormationInv'
  <2> SUFFICES ASSUME FormationInv, [FormationNext]_formationVars PROVE FormationInv'
    OBVIOUS
  <2>1. CASE UNCHANGED formationVars
    BY <2>1, QuietStep DEF formationVars, FormationInv, FormationTypeOK
  <2>2. ASSUME NEW c \in Calls,
               \/ \E b \in Bodies : Start(c, b)
               \/ Admit(c) \/ AdmitTorn(c) \/ Check(c) \/ Pin(c) \/ Phase(c) \/ PhaseFails(c)
        PROVE  FormationInv'
    BY <2>2, StartStep, AdmitStep, AdmitTornStep, CheckStep, PinStepStep, PhaseStep, PhaseFailsStep
  <2>3. ASSUME NEW c \in Calls, NEW ok \in BOOLEAN,
               Preflight(c, ok) \/ Core(c, ok) \/ Observe(c, ok) \/ Member(c, ok) \/ Return(c, ok)
        PROVE  FormationInv'
    BY <2>3, PreflightStep, CoreStep, ObserveStep, MemberStep, ReturnStep
  <2>a. ASSUME NEW c \in Calls, DecisionUnsent(c) \/ DecisionRetried(c) PROVE FormationInv'
    BY <2>a, DecisionUnsentStep, DecisionRetriedStep
  <2>4. ASSUME NEW c \in Calls, NEW e \in Decisions,
               \/ DecisionFailed(c, e)
               \/ \E reply \in {"route-declined", "route-mismatch"} : Decided(c, e, reply)
        PROVE  FormationInv'
    BY <2>4, DecisionFailedStep, DecidedStep
  <2>5. ASSUME NEW c \in Calls, NEW e \in Effects,
               Effect(c, e) \/ \E fate \in {"done", "late", "none"} : EffectUncertain(c, e, fate)
        PROVE  FormationInv'
    BY <2>5, EffectStep, UncertainStep
  <2>6. CASE \/ \E e \in Effects : LateEffect(e)
             \/ \E f \in Facets : Drift(f)
             \/ Revoke \/ Rebind \/ Registers \/ Stop \/ Restart
    BY <2>6, LateStep, WorldSteps, RestartStep
  <2>7. QED
    BY <2>1, <2>2, <2>3, <2>a, <2>4, <2>5, <2>6 DEF FormationNext
<1>2. QED
  BY <1>1, FormationStarts, PTL DEF FormationSpec

\* Only the winner of the intent executes, nothing is asked of the host twice,
\* the request for its decision is repeated at most once, and nothing happens
\* before its phase is durable (desk-operation.ts:3; jev.ts, askJev).
THEOREM ExecutedOnce == FormationSpec => []FormedOnce
<1>1. FormationInv => FormedOnce
  <2> SUFFICES ASSUME FormationInv PROVE FormedOnce
    OBVIOUS
  <2>1. \A e \in Effects : host.calls[e] <= 1
    <3>1. \A e \in Effects : host.calls[e] \in {0, 1}
      BY DEF FormationInv, FormationTypeOK
    <3>2. QED
      BY <3>1
  <2>2. QED
    BY <2>1 DEF FormationInv, OneRuns, EffectsOK, ShownOK, FormedOnce
<1>2. QED
  BY <1>1, PathsFollowed, PTL

\* A recorded result is true for ever, and there is always room for it
\* (desk-operation.ts, run result; the budget of 16 phases).
THEOREM ResultsAreTrue == FormationSpec => []ReceiptsTellTheTruth
<1>1. FormationInv => ReceiptsTellTheTruth
  <2> SUFFICES ASSUME FormationInv, receipt # None
               PROVE  /\ Len(receipt.phases) <= 16
                      /\ receipt.result \in Unsent => ~Happens("send")
                      /\ receipt.result = "host-accepted" => {"create", "send"} \subseteq host.done
                      /\ receipt.result = "refused" /\ ~Recorded("create-issued") /\ ~Recorded("bootstrap-issued")
                           => ~Happens("create")
    BY DEF ReceiptsTellTheTruth, Unsent
  <2>1. Len(receipt.phases) <= 16
    <3> DEFINE ps == receipt.phases
    <3>1. ps \in Seq(Phases) /\ Len(ps) \in Nat
      BY LenProperties DEF FormationInv, FormationTypeOK, Receipts
    <3>2. CASE ps = <<>>
      BY <3>1, <3>2, EmptySeq
    <3>3. CASE ps # <<>>
      <4>1. Len(ps) \in 1..Len(ps)
        BY <3>1, <3>3, EmptySeq
      <4>2. ps[Len(ps)] \in Phases
        BY <3>1, <4>1, ElementOfSeq
      <4>3. PICK n \in 1..14 : Order(ps[Len(ps)]) = 2 * n
        BY <4>2, Bounds
      <4>4. 2 * Len(ps) <= 2 * n
        BY <3>3, <4>3 DEF FormationInv, JournalOK
      <4>5. QED
        BY <3>1, <4>3, <4>4
    <3>4. QED
      BY <3>2, <3>3
  <2>2. QED
    BY <2>1 DEF FormationInv, ResultOK, EffectsOK
<1>2. QED
  BY <1>1, PathsFollowed, PTL

-----------------------------------------------------------------------------
(* The configuration: the inductive invariant *)

Record(r, fields) == r = [f \in fields |-> r[f]]
Empty(providers) == Absent(providers) = Ids

\* A binding names what it launches, and its seats have providers.
Bound(b) ==
    /\ b.launch \in Launches
    /\ ~Empty(b.owned.providers)
    /\ \A slot \in b.owned.slots : b.owned.providers[slot.value.provider] # Unset

PlanFits(plan) ==
    /\ plan.previous = binding
    /\ plan.injects <=> Injects(plan.before.owned)
    /\ plan.read[1].providers = plan.before.owned.providers
    /\ plan.injects <=> Injects(plan.read[1])
    /\ binding # NoBinding => ~Empty(plan.before.owned.providers)
ActivationFits(plan) ==
    /\ Bound(plan.next) /\ ~Empty(plan.after.owned.providers)
    /\ plan.next.injected <=> IF binding = NoBinding THEN plan.injects ELSE binding.injected
DeactivationFits(plan) ==
    /\ binding # NoBinding /\ plan.next = NoBinding /\ Empty(plan.after.owned.providers)
    /\ Injects(plan.after.owned) <=> binding.injected
OperationFits ==
    /\ Record(operation, {"kind", "plan", "at", "sent", "took"})
    /\ operation.at \in {"prepared", "sent", "recovery"}
    /\ PlanFits(operation.plan)
    /\ \/ operation.kind = "activate" /\ ActivationFits(operation.plan)
       \/ operation.kind = "deactivate" /\ DeactivationFits(operation.plan)

\* What the user set the flag to: in the file while nothing of SLP is there,
\* else in the binding, or in the plan of a first activation.
FlagKnown ==
    /\ Empty(disk.providers) => (own <=> Injects(disk))
    /\ binding # NoBinding /\ ~Empty(disk.providers) => (own <=> binding.injected)
    /\ binding = NoBinding /\ operation = NoOperation => (own <=> Injects(disk))
    /\ binding = NoBinding /\ operation # NoOperation /\ ~Empty(disk.providers)
         => (own <=> operation.plan.injects)

ConfigInv ==
    /\ Record(disk, DocFields) /\ candidate \in Nat /\ routing \in Routings
    /\ binding = NoBinding \/ Bound(binding)
    /\ operation = NoOperation \/ OperationFits
    /\ FlagKnown


-----------------------------------------------------------------------------
(* The plans *)

LEMMA Least == ASSUME NEW S \in SUBSET Nat, S # {} PROVE Min(S) \in S /\ \A y \in S : Min(S) <= y
<1> DEFINE R == {ss \in Nat \X Nat : ss[1] < ss[2]}
<1>1. IsWellFoundedOn(R, Nat)
  BY NatLessThanWellFounded DEF OpToRel
<1> HIDE DEF R
<1>2. PICK x \in S : \A y \in S : ~(<<y, x>> \in R)
  BY <1>1, WFMin
<1>3. ASSUME NEW y \in S PROVE x <= y
  <2>1. <<y, x>> \notin R /\ x \in Nat /\ y \in Nat
    BY <1>2
  <2>2. ~(y < x)
    BY <2>1 DEF R
  <2>3. QED
    BY <2>1, <2>2
<1> QED
  BY <1>3 DEF Min

LEMMA SeatIds ==
    /\ DOMAIN Seats = {1, 2} /\ Seats[1] = "supervisor" /\ Seats[2] = "lead"
    /\ ToSet(Seats) = {"supervisor", "lead"}
    /\ \A f \in Family : \A seat \in {"supervisor", "lead", "peer"} : <<f, seat>> \in Ids
    /\ \E f : f \in Family
<1>1. /\ DOMAIN Seats = {1, 2} /\ Seats[1] = "supervisor" /\ Seats[2] = "lead"
      /\ ToSet(Seats) = {"supervisor", "lead"}
  BY DEF Seats, ToSet
<1>2. \A f \in Family : \A seat \in {"supervisor", "lead", "peer"} : <<f, seat>> \in Ids
  BY DEF Ids
<1>3. DOMAIN Families = 1..Len(Families) /\ Len(Families) \in Nat /\ Len(Families) # 0
  BY PlanAssumption, EmptySeq, LenProperties
<1>4. 1 \in DOMAIN Families
  BY <1>3
<1>5. Families[1] \in Family
  BY <1>4 DEF Family, ToSet
<1> QED
  BY <1>1, <1>2, <1>5

\* The first family of a set that is not empty is one of it.
LEMMA FirstIsOne == ASSUME NEW S \in SUBSET Family, S # {} PROVE FirstOf(S) \in S
<1> DEFINE N == {n \in DOMAIN Families : Families[n] \in S}
<1>1. DOMAIN Families = 1..Len(Families) /\ Len(Families) \in Nat
  BY PlanAssumption, LenProperties
<1>2. N \in SUBSET Nat
  BY <1>1
<1>3. N # {}
  BY DEF Family, ToSet
<1>4. Min(N) \in N
  BY <1>2, <1>3, Least
<1> QED
  BY <1>4 DEF FirstOf

\* What a request resolves to is a launch of recorded paths.
LEMMA Resolves ==
    ASSUME NEW request \in Requests, candidate \in Nat, binding = NoBinding \/ binding.launch \in Launches
    PROVE  Launch(request) \in Launches
<1>1. ASSUME NEW f \in Family, NEW prior \in Paths \cup {Unset}
      PROVE  Binary(f, request.binaries[f], prior) \in Paths \cup {Unset}
  BY PlanAssumption DEF Binary, Tracked, Paths
<1>2. \A f \in Family : binding # NoBinding => binding.launch.binaries[f] \in Paths \cup {Unset}
  BY DEF Launches
<1>3. \A f \in Family : (IF binding = NoBinding THEN Unset ELSE binding.launch.binaries[f]) \in Paths \cup {Unset}
  BY <1>2
<1>4. Resolution(request) \in [Family -> Paths \cup {Unset}]
  BY <1>1, <1>3 DEF Resolution
<1> QED
  BY <1>4 DEF Launch, Launches

\* The Peers are a pool: each family has its entry.
LEMMA NeverEmpty ==
    ASSUME NEW launch \in Launches, NEW chosen
    PROVE  ~Empty(DesiredProviderEntries(launch, chosen))
<1>1. PICK f : f \in Family
  BY SeatIds
<1>2. <<f, "peer">> \in Ids
  BY <1>1, SeatIds
<1>3. DesiredProviderEntries(launch, chosen)[<<f, "peer">>] = launch
  BY <1>2 DEF DesiredProviderEntries
<1>4. launch # Unset
  BY PlanAssumption
<1> QED
  BY <1>2, <1>3, <1>4 DEF Empty, Absent

\* A seat's profile names an entry that the same plan generates.
LEMMA SeatsHaveEntries ==
    ASSUME NEW request \in Requests, NEW launch \in Launches, routing \in Routings,
           IF binding = NoBinding THEN MayBind(request, launch) ELSE MayRebind(request, launch),
           NEW n \in DOMAIN Seats
    PROVE  DesiredProviderEntries(launch, Effective(request))[DesiredProfiles(request, launch)[n].provider] # Unset
<1> DEFINE seat == Seats[n]
           entries == DesiredProviderEntries(launch, Effective(request))
           provider == DesiredProfiles(request, launch)[n].provider
           pref == request.prefs[seat]
<1>1. seat \in {"supervisor", "lead"} /\ seat \in ToSet(Seats) /\ launch # Unset
  BY SeatIds, PlanAssumption
<1>2. Available(launch) \subseteq Family
  BY DEF Available
<1>3. pref.family \in Family \cup {Unset} /\ Unset \notin Family
  BY <1>1, PlanAssumption
<1>4. CASE routing = Unset
  <2>1. \E f \in Family : provider = <<f, seat>>
    <3>1. CASE binding = NoBinding
      <4>1. ProfileFamily(request, launch) \in Family
        <5>1. request.initial # Unset => request.initial \in Family
          BY PlanAssumption
        <5>2. request.initial = Unset => Available(launch) # {}
          BY <1>4, <3>1 DEF MayBind
        <5>3. Available(launch) # {} => FirstOf(Available(launch)) \in Family
          BY <1>2, FirstIsOne
        <5>4. Available(launch) \cap Bases # {} => FirstOf(Available(launch) \cap Bases) \in Family
          BY <1>2, FirstIsOne
        <5>5. QED
          BY <1>2, <5>1, <5>2, <5>3, <5>4 DEF ProfileFamily
      <4>2. provider = IF pref.family = Unset THEN <<ProfileFamily(request, launch), seat>> ELSE <<pref.family, seat>>
        BY <1>4, <3>1 DEF DesiredProfiles, DesiredProfile, ApplyProfilePrefs
      <4>3. QED
        BY <1>3, <4>1, <4>2
    <3>2. CASE binding # NoBinding
      <4> DEFINE own0 == disk.profiles[Place(disk.profiles, seat)]
      <4>1. PICK i \in DOMAIN disk.profiles, f \in Available(launch) :
              Places(disk.profiles, seat) = {i} /\ disk.profiles[i].provider = <<f, seat>>
        BY <1>1, <3>2 DEF MayRebind, ValidOwnedProfiles
      <4>2. Place(disk.profiles, seat) = i /\ disk.profiles[i].id = seat
        BY <4>1 DEF Place, Places
      <4>3. own0.provider = <<f, seat>> /\ own0.id = seat
        BY <4>1, <4>2
      <4>4. provider = IF pref.family = Unset THEN own0.provider ELSE <<pref.family, own0.id>>
        BY <1>4, <3>2 DEF DesiredProfiles, LiveProfile, ApplyProfilePrefs
      <4>5. QED
        BY <1>2, <1>3, <4>1, <4>3, <4>4
    <3>3. QED
      BY <3>1, <3>2
  <2>2. Effective(request) = Unset
    BY <1>4 DEF Effective
  <2>3. \A id \in Ids : entries[id] = launch
    BY <2>2 DEF DesiredProviderEntries
  <2>4. QED
    BY <1>1, <2>1, <2>3, SeatIds
<1>5. CASE routing # Unset
  <2>1. Effective(request)[seat] = IF pref.family = Unset THEN routing[seat].family ELSE pref.family
    BY <1>1, <1>5 DEF Effective
  <2>2. routing[seat].family \in Family
    BY <1>1, <1>5, PlanAssumption
  <2>3. provider = <<Effective(request)[seat], seat>>
    <3>1. CASE binding = NoBinding
      BY <1>5, <2>1, <3>1 DEF DesiredProfiles, DesiredProfile, ApplyProfilePrefs
    <3>2. CASE binding # NoBinding
      <4>1. PICK i \in DOMAIN disk.profiles : Places(disk.profiles, seat) = {i}
        BY <1>1, <3>2 DEF MayRebind, ValidOwnedProfiles
      <4>2. disk.profiles[Place(disk.profiles, seat)].id = seat
        BY <4>1 DEF Place, Places
      <4>3. QED
        BY <1>5, <2>1, <3>2, <4>2 DEF DesiredProfiles, LiveProfile, ApplyProfilePrefs, ApplyRoleRouting
    <3>3. QED
      BY <3>1, <3>2
  <2>4. Effective(request)[seat] \in Family
    BY <1>3, <2>1, <2>2
  <2>5. <<Effective(request)[seat], seat>> \in Ids
    BY <1>1, <2>4, SeatIds
  <2>6. entries[<<Effective(request)[seat], seat>>] = launch
    BY <1>1, <2>5 DEF DesiredProviderEntries
  <2>7. QED
    BY <1>1, <2>3, <2>6
<1> QED
  BY <1>4, <1>5


\* The slots of the profiles a plan wants are of those profiles.
LEMMA SlotsWanted ==
    ASSUME NEW profiles, NEW wanted, NEW slot \in ComputeSlots(profiles, wanted)
    PROVE  \E n \in DOMAIN wanted : slot.value = wanted[n]
<1> DEFINE new == {n \in DOMAIN wanted : Places(profiles, wanted[n].id) = {}}
           Index(n) == IF n \in new THEN Len(profiles) + Cardinality(new \cap 1..n)
                       ELSE Place(profiles, wanted[n].id)
<1>1. slot \in {[index |-> Index(n), value |-> wanted[n]] : n \in DOMAIN wanted}
  BY DEF ComputeSlots
<1> HIDE DEF Index
<1>2. PICK n \in DOMAIN wanted : slot = [index |-> Index(n), value |-> wanted[n]]
  BY <1>1
<1> QED
  BY <1>2

\* The plan of an activation: what it binds has its seats' providers.
LEMMA ActivationPlanned ==
    ASSUME NEW request \in Requests, ConfigInv, RawLiveAgreement,
           IF binding = NoBinding THEN MayBind(request, Launch(request)) ELSE MayRebind(request, Launch(request)),
           NEW plan, plan = PlanActivation(request)
    PROVE  PlanFits(plan) /\ ActivationFits(plan) /\ plan.read[1] = disk
<1> DEFINE launch == Launch(request)
           slots == ComputeSlots(disk.profiles, DesiredProfiles(request, launch))
           owned == [providers |-> DesiredProviderEntries(launch, Effective(request)),
                     slots |-> slots, listed |-> TRUE, inject |-> "on"]
<1>1. launch \in Launches /\ routing \in Routings
  BY Resolves DEF ConfigInv, Bound
<1>2. plan.next.launch = launch /\ plan.next.owned = owned /\ plan.after.owned = owned
  BY DEF PlanActivation, PlanFrom
<1>3. plan.next.injected = IF binding = NoBinding THEN Injects(live) ELSE binding.injected
  BY DEF PlanActivation, PlanFrom
<1>4. /\ plan.previous = binding /\ plan.injects = Injects(live) /\ plan.read[1] = disk
      /\ plan.before.owned.providers = disk.providers /\ plan.before.owned.inject = disk.inject
  BY DEF PlanActivation, PlanFrom, Projection, docs
<1>5. Injects(live) <=> Injects(disk)
  BY DEF RawLiveAgreement
<1>6. ~Empty(owned.providers)
  BY <1>1, NeverEmpty
<1>7. \A n \in DOMAIN Seats : owned.providers[DesiredProfiles(request, launch)[n].provider] # Unset
  BY <1>1, SeatsHaveEntries
<1>8. DOMAIN DesiredProfiles(request, launch) = DOMAIN Seats
  BY DEF DesiredProfiles
<1>9. \A slot \in owned.slots : owned.providers[slot.value.provider] # Unset
  BY <1>7, <1>8, SlotsWanted
<1> HIDE DEF owned
<1>10. Bound(plan.next) /\ ~Empty(plan.after.owned.providers)
  BY <1>1, <1>2, <1>6, <1>9 DEF Bound
<1>11. plan.next.injected <=> IF binding = NoBinding THEN plan.injects ELSE binding.injected
  BY <1>3, <1>4
<1>12. binding # NoBinding => ~Empty(plan.before.owned.providers)
  BY <1>4 DEF MayRebind, OwnedAsRecorded, ConfigInv, Bound
<1>13. /\ plan.injects <=> Injects(plan.before.owned)
       /\ plan.injects <=> Injects(plan.read[1])
  BY <1>4, <1>5 DEF Injects
<1> QED
  BY <1>4, <1>10, <1>11, <1>12, <1>13 DEF PlanFits, ActivationFits

LEMMA DeactivationPlanned ==
    ASSUME ConfigInv, binding # NoBinding, RawLiveAgreement, OwnedAsRecorded,
           NEW plan, plan = PlanDeactivation
    PROVE  PlanFits(plan) /\ DeactivationFits(plan) /\ plan.read[1] = disk
<1>1. /\ plan.previous = binding /\ plan.injects = Injects(live) /\ plan.read[1] = disk
      /\ plan.before.owned.providers = disk.providers /\ plan.before.owned.inject = disk.inject
      /\ plan.next = NoBinding
      /\ plan.after.owned.providers = [id \in Ids |-> Unset]
      /\ plan.after.owned.inject = IF binding.injected THEN "on" ELSE "off"
  BY DEF PlanDeactivation, PlanFrom, Projection, docs
<1>2. ~Empty(disk.providers)
  BY DEF OwnedAsRecorded, ConfigInv, Bound
<1>3. Empty(plan.after.owned.providers)
  BY <1>1 DEF Empty, Absent
<1>4. Injects(plan.after.owned) <=> binding.injected
  BY <1>1 DEF Injects
<1>5. /\ plan.injects <=> Injects(plan.before.owned)
      /\ plan.injects <=> Injects(plan.read[1])
  BY <1>1 DEF Injects, RawLiveAgreement
<1> QED
  BY <1>1, <1>2, <1>3, <1>4, <1>5 DEF PlanFits, DeactivationFits

\* What the class of a configuration says of its file.
LEMMA ClassKnows ==
    /\ Class \in {"after", "equal"} => /\ disk.providers = operation.plan.after.owned.providers
                                       /\ Injects(disk) <=> Injects(operation.plan.after.owned)
    /\ Class \in {"before", "equal"} => /\ disk.providers = operation.plan.before.owned.providers
                                        /\ Injects(disk) <=> Injects(operation.plan.before.owned)
<1> DEFINE DB == DiskAt(disk, operation.plan.before, operation.plan.unrelated)
           DA == DiskAt(disk, operation.plan.after, operation.plan.unrelated)
           LB == LiveAt(live, operation.plan.before, operation.plan.enabled)
           LA == LiveAt(live, operation.plan.after, operation.plan.enabled)
<1>1. /\ DA => /\ disk.providers = operation.plan.after.owned.providers
               /\ Injects(disk) <=> Injects(operation.plan.after.owned)
      /\ DB => /\ disk.providers = operation.plan.before.owned.providers
               /\ Injects(disk) <=> Injects(operation.plan.before.owned)
  BY DEF DiskAt
<1>2. Class = CASE DB /\ LB /\ DA /\ LA -> "equal"
                [] DB /\ LB /\ ~(DA /\ LA) -> "before"
                [] DA /\ LA /\ ~(DB /\ LB) -> "after"
                [] OTHER -> "neither"
  BY DEF Class, ClassOf
<1> HIDE DEF DB, DA, LB, LA
<1>3. (Class \in {"after", "equal"} => DA) /\ (Class \in {"before", "equal"} => DB)
  BY <1>2
<1> QED
  BY <1>1, <1>3

-----------------------------------------------------------------------------
(* The steps *)

LEMMA PrepareStep ==
    ASSUME ConfigInv, NEW kind \in {"activate", "deactivate"}, NEW plan, Prepare(kind, plan), PlanFits(plan), plan.read[1] = disk,
           \/ kind = "activate" /\ ActivationFits(plan)
           \/ kind = "deactivate" /\ DeactivationFits(plan)
    PROVE  ConfigInv'
<1>1. /\ operation = NoOperation /\ UNCHANGED <<disk, live, binding, routing, candidate, own>>
      /\ operation' = [kind |-> kind, plan |-> plan, at |-> "prepared", sent |-> Unset, took |-> "none"]
  BY DEF Prepare, docs, surroundings
<1>2. /\ operation'.kind = kind /\ operation'.plan = plan /\ operation'.at = "prepared"
      /\ Record(operation', {"kind", "plan", "at", "sent", "took"}) /\ operation' # NoOperation
  BY <1>1 DEF Record, NoOperation
<1>3. PlanFits(plan)' /\ (ActivationFits(plan) => ActivationFits(plan)') /\ (DeactivationFits(plan) => DeactivationFits(plan)')
  BY <1>1 DEF PlanFits, ActivationFits, DeactivationFits, Bound, Empty
<1>4. OperationFits'
  BY <1>2, <1>3 DEF OperationFits
<1>5. FlagKnown'
  <2>1. FlagKnown /\ (binding = NoBinding => (own <=> Injects(disk)))
    BY <1>1 DEF ConfigInv, FlagKnown
  <2>2. ~Empty(disk.providers) /\ binding = NoBinding => (own <=> plan.injects)
    <3>1. Injects(disk) <=> plan.injects
      BY DEF PlanFits
    <3>2. QED
      BY <2>1, <3>1
  <2>3. QED
    BY <1>1, <1>2, <2>1, <2>2 DEF FlagKnown
<1> QED
  BY <1>1, <1>4, <1>5 DEF ConfigInv, Bound, Record, Empty


LEMMA StillDoc ==
    ASSUME Record(disk, DocFields), NEW patch
    PROVE  /\ Record(Patched(disk, patch), DocFields)
           /\ Patched(disk, patch).providers = patch.providers
           /\ Patched(disk, patch).inject = patch.inject
BY DEF Record, DocFields, Patched

\* What the host takes of a patch.
LEMMA PatchTaken ==
    ASSUME ConfigInv, NEW direction \in {"forward", "inverse"}, NEW took \in {"none", "disk", "both"},
           Send(direction, took)
    PROVE  /\ Record(disk', DocFields)
           /\ took = "none" => disk' = disk
           /\ took # "none" /\ direction = "forward"
                => /\ disk'.providers = operation.plan.after.owned.providers
                   /\ Injects(disk') <=> Injects(operation.plan.after.owned)
           /\ took # "none" /\ direction = "inverse"
                => /\ disk'.providers = operation.plan.before.owned.providers
                   /\ Injects(disk') <=> operation.plan.injects
<1> DEFINE patch == PatchForDirection(operation.plan, direction, disk)
<1>1. /\ Record(Patched(disk, patch), DocFields)
      /\ Patched(disk, patch).providers = patch.providers /\ Patched(disk, patch).inject = patch.inject
  BY StillDoc DEF ConfigInv
<1>2. disk' = IF took = "none" THEN disk ELSE Patched(disk, patch)
  BY DEF Send
<1>3. /\ direction = "forward" => /\ patch.providers = operation.plan.after.owned.providers
                                  /\ patch.inject = IF Injects(operation.plan.after.owned) THEN "on" ELSE "off"
      /\ direction = "inverse" => /\ patch.providers = operation.plan.before.owned.providers
                                  /\ patch.inject = IF operation.plan.injects THEN "on" ELSE "off"
  BY DEF PatchForDirection, Patch
<1> HIDE DEF patch
<1>4. Record(disk', DocFields)
  BY <1>1, <1>2 DEF ConfigInv
<1> QED
  BY <1>1, <1>2, <1>3, <1>4 DEF Injects

\* A patch that is sent leaves the flag known: what it takes away or brings is
\* what the plan says.
LEMMA SendStep ==
    ASSUME ConfigInv, NEW direction \in {"forward", "inverse"}, NEW took \in {"none", "disk", "both"},
           Send(direction, took), operation # NoOperation,
           direction = "forward" => /\ disk.providers = operation.plan.before.owned.providers
                                    /\ Injects(disk) <=> operation.plan.injects,
           direction = "inverse" => /\ disk.providers = operation.plan.after.owned.providers
                                    /\ Injects(disk) <=> Injects(operation.plan.after.owned)
    PROVE  ConfigInv'
<1> DEFINE plan == operation.plan
<1>1. OperationFits /\ FlagKnown
  BY DEF ConfigInv
<1>2. /\ UNCHANGED <<binding, routing, candidate, own>>
      /\ operation' = [operation EXCEPT !.at = IF operation.at = "prepared" THEN "sent" ELSE @,
                                        !.sent = direction, !.took = took]
  BY DEF Send, surroundings
<1>3. /\ operation'.kind = operation.kind /\ operation'.plan = plan
      /\ operation'.at \in {"sent", "recovery"}
      /\ Record(operation', {"kind", "plan", "at", "sent", "took"})
  BY <1>1, <1>2 DEF OperationFits, Record
<1>4. operation' # NoOperation
  BY <1>3 DEF NoOperation
<1>5. OperationFits'
  BY <1>1, <1>2, <1>3 DEF OperationFits, PlanFits, ActivationFits, DeactivationFits, Bound, Empty
<1>6. /\ Record(disk', DocFields)
      /\ took = "none" => disk' = disk
      /\ took # "none" /\ direction = "forward"
           => disk'.providers = plan.after.owned.providers /\ (Injects(disk') <=> Injects(plan.after.owned))
      /\ took # "none" /\ direction = "inverse"
           => disk'.providers = plan.before.owned.providers /\ (Injects(disk') <=> plan.injects)
  BY PatchTaken
<1>7. /\ plan.injects <=> Injects(plan.before.owned)
      /\ binding # NoBinding => ~Empty(plan.before.owned.providers)
      /\ operation.kind \in {"activate", "deactivate"}
      /\ operation.kind = "activate" => ~Empty(plan.after.owned.providers)
      /\ operation.kind = "deactivate" => /\ binding # NoBinding /\ Empty(plan.after.owned.providers)
                                          /\ Injects(plan.after.owned) <=> binding.injected
  BY <1>1 DEF OperationFits, PlanFits, ActivationFits, DeactivationFits
<1> HIDE DEF plan
<1>8. /\ Empty(disk.providers) => (own <=> Injects(disk))
      /\ binding # NoBinding /\ ~Empty(disk.providers) => (own <=> binding.injected)
      /\ binding = NoBinding /\ ~Empty(disk.providers) => (own <=> plan.injects)
  BY <1>1 DEF FlagKnown, plan
<1>9. /\ direction = "forward" => /\ disk.providers = plan.before.owned.providers
                                  /\ Injects(disk) <=> plan.injects
      /\ direction = "inverse" => /\ disk.providers = plan.after.owned.providers
                                  /\ Injects(disk) <=> Injects(plan.after.owned)
  BY DEF plan
<1>10. /\ Empty(disk'.providers) => (own <=> Injects(disk'))
       /\ binding # NoBinding /\ ~Empty(disk'.providers) => (own <=> binding.injected)
       /\ binding = NoBinding /\ ~Empty(disk'.providers) => (own <=> plan.injects)
  <2>1. CASE took = "none"
    BY <1>6, <1>8, <2>1
  <2>2. CASE took # "none" /\ direction = "forward"
    BY <1>6, <1>7, <1>8, <1>9, <2>2
  <2>3. CASE took # "none" /\ direction = "inverse"
    BY <1>6, <1>7, <1>8, <1>9, <2>3
  <2>4. QED
    BY <2>1, <2>2, <2>3
<1>11. \A p : Empty(p)' <=> Empty(p)
  BY DEF Empty, Absent
<1>12. FlagKnown'
  BY <1>2, <1>3, <1>4, <1>10, <1>11 DEF FlagKnown
<1>13. /\ candidate' \in Nat /\ routing' \in Routings /\ (binding' = NoBinding \/ Bound(binding)')
  BY <1>2 DEF ConfigInv, Bound, Empty
<1> QED
  BY <1>5, <1>6, <1>12, <1>13 DEF ConfigInv

\* An operation that ends leaves a binding whose flag is known.
LEMMA FinishStep ==
    ASSUME ConfigInv, NEW next, Finish(next), next = NoBinding \/ Bound(next),
           Empty(disk.providers) => (own' <=> Injects(disk)),
           next # NoBinding /\ ~Empty(disk.providers) => (own' <=> next.injected),
           next = NoBinding => (own' <=> Injects(disk))
    PROVE  ConfigInv'
<1>1. /\ UNCHANGED <<disk, live, routing, candidate>> /\ binding' = next /\ operation' = NoOperation
  BY DEF Finish, docs, surroundings
<1>2. binding' = NoBinding \/ Bound(binding)'
  BY <1>1 DEF Bound, Empty
<1>3. FlagKnown'
  BY <1>1 DEF FlagKnown, Empty
<1> QED
  BY <1>1, <1>2, <1>3 DEF ConfigInv, Record

\* Both ends of an operation.
LEMMA EndsKnown ==
    ASSUME ConfigInv, operation # NoOperation
    PROVE  /\ disk.providers = operation.plan.after.owned.providers
              /\ (Injects(disk) <=> Injects(operation.plan.after.owned)) /\ UNCHANGED own
              /\ Finish(operation.plan.next)
                => ConfigInv'
           /\ disk.providers = operation.plan.before.owned.providers
              /\ (Injects(disk) <=> Injects(operation.plan.before.owned)) /\ UNCHANGED own
              /\ Finish(binding)
                => ConfigInv'
<1> DEFINE plan == operation.plan
<1>1. OperationFits /\ FlagKnown
  BY DEF ConfigInv
<1>2. /\ plan.injects <=> Injects(plan.before.owned)
      /\ binding # NoBinding => ~Empty(plan.before.owned.providers)
      /\ \/ /\ Bound(plan.next) /\ ~Empty(plan.after.owned.providers)
            /\ binding = NoBinding => (plan.next.injected <=> plan.injects)
            /\ binding # NoBinding => (plan.next.injected <=> binding.injected)
         \/ /\ binding # NoBinding /\ plan.next = NoBinding /\ Empty(plan.after.owned.providers)
            /\ Injects(plan.after.owned) <=> binding.injected
  BY <1>1 DEF OperationFits, PlanFits, ActivationFits, DeactivationFits
<1>3. plan.next # NoBinding \/ plan.next = NoBinding
  OBVIOUS
<1>4. Bound(plan.next) => plan.next # NoBinding
  BY PlanAssumption DEF Bound, NoBinding
<1> HIDE DEF plan
<1>5. /\ Empty(disk.providers) => (own <=> Injects(disk))
      /\ binding # NoBinding /\ ~Empty(disk.providers) => (own <=> binding.injected)
      /\ binding = NoBinding /\ ~Empty(disk.providers) => (own <=> plan.injects)
  BY <1>1 DEF FlagKnown, plan
<1>6. ASSUME disk.providers = plan.after.owned.providers, Injects(disk) <=> Injects(plan.after.owned),
             UNCHANGED own, Finish(plan.next)
      PROVE  ConfigInv'
  <2>1. plan.next = NoBinding \/ Bound(plan.next)
    BY <1>2
  <2>2. plan.next # NoBinding /\ ~Empty(disk.providers) => (own' <=> plan.next.injected)
    BY <1>2, <1>5, <1>6
  <2>3. plan.next = NoBinding => (own' <=> Injects(disk))
    BY <1>2, <1>4, <1>5, <1>6
  <2>4. QED
    BY <1>5, <1>6, <2>1, <2>2, <2>3, FinishStep
<1>7. ASSUME disk.providers = plan.before.owned.providers, Injects(disk) <=> Injects(plan.before.owned),
             UNCHANGED own, Finish(binding)
      PROVE  ConfigInv'
  <2>1. binding = NoBinding \/ Bound(binding)
    BY DEF ConfigInv
  <2>2. binding = NoBinding => (own' <=> Injects(disk))
    BY <1>2, <1>5, <1>7
  <2>3. QED
    BY <1>5, <1>7, <2>1, <2>2, FinishStep
<1> QED
  BY <1>6, <1>7 DEF plan


\* A step that neither plans nor sends nor ends an operation.
LEMMA QuietEdit ==
    ASSUME ConfigInv, UNCHANGED binding, candidate' \in Nat, routing' \in Routings,
           Record(disk', DocFields), disk'.providers = disk.providers,
           \/ UNCHANGED operation
           \/ operation # NoOperation /\ operation' = [operation EXCEPT !.at = "recovery"],
           \/ UNCHANGED own /\ (Injects(disk') <=> Injects(disk))
           \/ (own' <=> Injects(disk')) /\ FlagIsHis
           \/ UNCHANGED own /\ ~FlagIsHis
    PROVE  ConfigInv'
<1>1. \A p : Empty(p)' <=> Empty(p)
  BY DEF Empty, Absent
<1>2. binding' = NoBinding \/ Bound(binding)'
  BY <1>1 DEF ConfigInv, Bound
<1>3. /\ operation' = NoOperation <=> operation = NoOperation
      /\ operation # NoOperation => operation'.plan = operation.plan
      /\ operation' = NoOperation \/ OperationFits'
  <2>1. CASE UNCHANGED operation
    BY <1>1, <2>1 DEF ConfigInv, OperationFits, PlanFits, ActivationFits, DeactivationFits, Bound, Record
  <2>2. CASE operation # NoOperation /\ operation' = [operation EXCEPT !.at = "recovery"]
    <3>1. OperationFits
      BY <2>2 DEF ConfigInv
    <3>2. /\ operation'.kind = operation.kind /\ operation'.plan = operation.plan /\ operation'.at = "recovery"
          /\ Record(operation', {"kind", "plan", "at", "sent", "took"})
      BY <2>2, <3>1 DEF OperationFits, Record
    <3>3. OperationFits'
      BY <1>1, <3>1, <3>2 DEF OperationFits, PlanFits, ActivationFits, DeactivationFits, Bound
    <3>4. operation' # NoOperation
      BY <3>2 DEF NoOperation
    <3>5. QED
      BY <2>2, <3>2, <3>3, <3>4
  <2>3. QED
    BY <2>1, <2>2
<1>4. FlagKnown
  BY DEF ConfigInv
<1>5. FlagKnown'
  <2>1. CASE UNCHANGED own /\ (Injects(disk') <=> Injects(disk))
    BY <1>1, <1>3, <1>4, <2>1 DEF FlagKnown
  <2>2. CASE (own' <=> Injects(disk')) /\ FlagIsHis
    <3>1. Empty(disk.providers) \/ (binding = NoBinding /\ operation = NoOperation)
      BY <2>2 DEF FlagIsHis, Empty
    <3>2. QED
      BY <1>1, <1>3, <2>2, <3>1 DEF FlagKnown
  <2>3. CASE UNCHANGED own /\ ~FlagIsHis
    <3>1. ~Empty(disk.providers) /\ ~(binding = NoBinding /\ operation = NoOperation)
      BY <2>3 DEF FlagIsHis, Empty
    <3>2. QED
      BY <1>1, <1>3, <1>4, <2>3, <3>1 DEF FlagKnown
  <2>4. QED
    BY <2>1, <2>2, <2>3
<1> QED
  BY <1>2, <1>3, <1>5 DEF ConfigInv

LEMMA InterruptStep ==
    ASSUME ConfigInv, operation # NoOperation, operation' = [operation EXCEPT !.at = "recovery"],
           UNCHANGED <<docs, binding, surroundings, own, spent>>
    PROVE  ConfigInv'
<1>1. UNCHANGED <<disk, binding, routing, candidate, own>>
  BY DEF docs, surroundings
<1>2. /\ Record(disk', DocFields) /\ candidate' \in Nat /\ routing' \in Routings
      /\ (Injects(disk') <=> Injects(disk)) /\ disk'.providers = disk.providers
  BY <1>1 DEF ConfigInv, Record
<1> QED
  BY <1>1, <1>2, QuietEdit

LEMMA Started ==
    ASSUME ConfigInv, operation.at \in {"prepared", "sent", "recovery"}
    PROVE  operation # NoOperation /\ OperationFits
BY DEF ConfigInv, NoOperation

LEMMA ActivateStep == ASSUME ConfigInv, NEW request \in Requests, Activate(request) PROVE ConfigInv'
<1> DEFINE plan == PlanActivation(request)
<1>1. /\ RawLiveAgreement /\ Prepare("activate", plan)
      /\ IF binding = NoBinding THEN MayBind(request, Launch(request)) ELSE MayRebind(request, Launch(request))
  BY DEF Activate, MayPlan
<1> HIDE DEF plan
<1>2. plan = PlanActivation(request)
  BY DEF plan
<1>3. PlanFits(plan) /\ ActivationFits(plan) /\ plan.read[1] = disk
  BY <1>1, <1>2, ActivationPlanned
<1> QED
  BY <1>1, <1>3, PrepareStep

LEMMA DeactivateStep == ASSUME ConfigInv, Deactivate PROVE ConfigInv'
<1> DEFINE plan == PlanDeactivation
<1>1. binding # NoBinding /\ RawLiveAgreement /\ OwnedAsRecorded /\ Prepare("deactivate", plan)
  BY DEF Deactivate, MayPlan
<1> HIDE DEF plan
<1>2. plan = PlanDeactivation
  BY DEF plan
<1>3. PlanFits(plan) /\ DeactivationFits(plan) /\ plan.read[1] = disk
  BY <1>1, <1>2, DeactivationPlanned
<1> QED
  BY <1>1, <1>3, PrepareStep

LEMMA DispatchStep == ASSUME ConfigInv, NEW took \in {"none", "disk", "both"}, Dispatch(took) PROVE ConfigInv'
<1>1. AtStage("prepared") /\ StillCurrent /\ Send("forward", took)
  BY DEF Dispatch
<1>2. operation # NoOperation /\ OperationFits
  BY <1>1, Started DEF AtStage
<1>3. disk = operation.plan.read[1]
  BY <1>1 DEF StillCurrent, docs
<1>4. disk.providers = operation.plan.before.owned.providers /\ (Injects(disk) <=> operation.plan.injects)
  BY <1>2, <1>3 DEF OperationFits, PlanFits
<1> QED
  BY <1>1, <1>2, <1>4, SendStep

LEMMA NothingToSendStep == ASSUME ConfigInv, NothingToSend PROVE ConfigInv'
<1>1. operation # NoOperation
  BY Started DEF NothingToSend, AtStage
<1>2. /\ disk.providers = operation.plan.after.owned.providers
      /\ (Injects(disk) <=> Injects(operation.plan.after.owned)) /\ UNCHANGED own
      /\ Finish(operation.plan.next)
  BY DEF NothingToSend, AlreadyThere, DiskAt
<1> QED
  BY <1>1, <1>2, EndsKnown

LEMMA PlanIsStaleStep == ASSUME ConfigInv, PlanIsStale PROVE ConfigInv'
<1>1. /\ Finish(binding) /\ own' = IF binding = NoBinding THEN Injects(disk) ELSE own
      /\ binding = NoBinding \/ Bound(binding)
  BY DEF PlanIsStale, ConfigInv
<1>2. FlagKnown
  BY DEF ConfigInv
<1>3. /\ Empty(disk.providers) => (own' <=> Injects(disk))
      /\ binding # NoBinding /\ ~Empty(disk.providers) => (own' <=> binding.injected)
      /\ binding = NoBinding => (own' <=> Injects(disk))
  BY <1>1, <1>2 DEF FlagKnown
<1> QED
  BY <1>1, <1>3, FinishStep

LEMMA SettleStep == ASSUME ConfigInv, Settle PROVE ConfigInv'
<1>1. operation # NoOperation
  BY Started DEF Settle, AtStage
<1>2. CASE Class \in {"after", "equal"} /\ Finish(operation.plan.next) /\ UNCHANGED own
  BY <1>1, <1>2, ClassKnows, EndsKnown
<1>3. CASE Class = "before" /\ Finish(binding) /\ UNCHANGED own
  BY <1>1, <1>3, ClassKnows, EndsKnown
<1>4. CASE /\ operation' = [operation EXCEPT !.at = "recovery"]
           /\ UNCHANGED <<docs, binding, surroundings, own, spent>>
  BY <1>1, <1>4, InterruptStep
<1> QED
  BY <1>2, <1>3, <1>4 DEF Settle

LEMMA CrashingStep == ASSUME ConfigInv, Crash PROVE ConfigInv'
BY Started, InterruptStep DEF Crash

LEMMA CompleteStep == ASSUME ConfigInv, NEW took \in {"none", "disk", "both"}, Complete(took) PROVE ConfigInv'
<1>1. operation # NoOperation /\ OperationFits
  BY Started DEF Complete, AtStage
<1>2. CASE Class \in {"after", "equal"} /\ Finish(operation.plan.next) /\ UNCHANGED own
  BY <1>1, <1>2, ClassKnows, EndsKnown
<1>3. CASE Class = "before" /\ Send("forward", took)
  <2>1. disk.providers = operation.plan.before.owned.providers /\ (Injects(disk) <=> operation.plan.injects)
    BY <1>1, <1>3, ClassKnows DEF OperationFits, PlanFits
  <2>2. QED
    BY <1>1, <1>3, <2>1, SendStep
<1> QED
  BY <1>2, <1>3 DEF Complete

LEMMA RestoreStep == ASSUME ConfigInv, NEW took \in {"none", "disk", "both"}, RestoreBefore(took) PROVE ConfigInv'
<1>1. operation # NoOperation /\ OperationFits
  BY Started DEF RestoreBefore, AtStage
<1>2. CASE Class \in {"before", "equal"} /\ Finish(operation.plan.previous) /\ UNCHANGED own
  <2>1. operation.plan.previous = binding
    BY <1>1 DEF OperationFits, PlanFits
  <2>2. QED
    BY <1>1, <1>2, <2>1, ClassKnows, EndsKnown
<1>3. CASE Class = "after" /\ Send("inverse", took)
  BY <1>1, <1>3, ClassKnows, SendStep
<1> QED
  BY <1>2, <1>3 DEF RestoreBefore

\* No edit of others writes an entry of the plugin.
LEMMA EditedKeeps ==
    ASSUME NEW doc, Record(doc, DocFields), NEW other \in Edited(doc)
    PROVE  Record(other, DocFields) /\ other.providers = doc.providers
<1> DEFINE Kept(d) == Record(d, DocFields) /\ d.providers = doc.providers
<1>1. \A x : Kept([doc EXCEPT !.profiles = x, !.listed = TRUE])
  BY DEF Record, DocFields
<1>2. \A x : Kept([doc EXCEPT !.profiles = x])
  BY DEF Record, DocFields
<1>3. \A x : Kept([doc EXCEPT !.refs = x]) /\ Kept([doc EXCEPT !.inject = x]) /\ Kept([doc EXCEPT !.enabled = x])
             /\ Kept([doc EXCEPT !.rest = x])
  BY DEF Record, DocFields
<1>4. \/ \E x : other = [doc EXCEPT !.profiles = x, !.listed = TRUE]
      \/ \E x : other = [doc EXCEPT !.profiles = x]
      \/ \E x : \/ other = [doc EXCEPT !.refs = x] \/ other = [doc EXCEPT !.inject = x]
               \/ other = [doc EXCEPT !.enabled = x] \/ other = [doc EXCEPT !.rest = x]
  BY DEF Edited
<1> QED
  BY <1>1, <1>2, <1>3, <1>4

LEMMA EditConfigStep == ASSUME ConfigInv, NEW where \in {"both", "file", "daemon"}, EditConfig(where) PROVE ConfigInv'
<1>1. /\ UNCHANGED <<operation, binding, candidate, routing>>
      /\ disk' = disk \/ disk' \in Edited(disk)
      /\ own' = IF FlagIsHis THEN Injects(disk') ELSE own
  BY DEF EditConfig, Edits, surroundings
<1>2. Record(disk', DocFields) /\ disk'.providers = disk.providers
  BY <1>1, EditedKeeps DEF ConfigInv
<1>3. candidate' \in Nat /\ routing' \in Routings
  BY <1>1 DEF ConfigInv
<1>4. \/ (own' <=> Injects(disk')) /\ FlagIsHis
      \/ UNCHANGED own /\ ~FlagIsHis
  BY <1>1
<1> QED
  BY <1>1, <1>2, <1>3, <1>4, QuietEdit

LEMMA ForgetStep == ASSUME ConfigInv, Forget PROVE ConfigInv'
<1>1. /\ UNCHANGED <<disk, operation, candidate, routing>> /\ operation = NoOperation
      /\ binding' = NoBinding /\ own' = Injects(disk)
  BY DEF Forget, Edits, docs, surroundings
<1>2. FlagKnown'
  BY <1>1 DEF FlagKnown
<1> QED
  BY <1>1, <1>2 DEF ConfigInv, Record

LEMMA OthersStep == ASSUME ConfigInv, Reload \/ ChangeWorld \/ UNCHANGED planVars PROVE ConfigInv'
<1>1. /\ UNCHANGED <<disk, binding, operation, own>>
      /\ candidate' \in Nat /\ routing' \in Routings
  BY DEF Reload, ChangeWorld, Edits, docs, surroundings, planVars, ConfigInv
<1>2. /\ Record(disk', DocFields) /\ disk'.providers = disk.providers
      /\ (Injects(disk') <=> Injects(disk))
  BY <1>1 DEF ConfigInv, Record
<1> QED
  BY <1>1, <1>2, QuietEdit

LEMMA PlanInitInv == ASSUME PlanInit PROVE ConfigInv
<1>1. /\ disk \in Documents /\ binding = NoBinding /\ operation = NoOperation /\ routing \in Routings
      /\ candidate = 1 /\ own = Injects(disk)
  BY DEF PlanInit
<1>2. Record(disk, DocFields)
  BY <1>1, PlanAssumption DEF Record
<1>3. FlagKnown
  BY <1>1 DEF FlagKnown
<1> QED
  BY <1>1, <1>2, <1>3 DEF ConfigInv

LEMMA PlanNextInv == ASSUME ConfigInv, [PlanNext]_planVars PROVE ConfigInv'
<1>1. ASSUME NEW request \in Requests, Activate(request) PROVE ConfigInv'
  BY <1>1, ActivateStep
<1>2. ASSUME NEW took \in {"none", "disk", "both"}, Dispatch(took) \/ Complete(took) \/ RestoreBefore(took)
      PROVE  ConfigInv'
  BY <1>2, DispatchStep, CompleteStep, RestoreStep
<1>3. ASSUME NEW where \in {"both", "file", "daemon"}, EditConfig(where) PROVE ConfigInv'
  BY <1>3, EditConfigStep
<1> QED
  BY <1>1, <1>2, <1>3, DeactivateStep, NothingToSendStep, PlanIsStaleStep, SettleStep, CrashingStep,
     ForgetStep, OthersStep DEF PlanNext

PlanSpec == PlanInit /\ [][PlanNext]_planVars

\* The inductive invariant of the planner: what a binding names its plan has
\* generated (planActivation), both endpoints of an operation under way fit
\* the binding before and after it, and the flag the user had set is in the
\* file, in the plan, or in the binding (finalizeIntended, finalizePrevious).
THEOREM FlagAndSeatsKept == PlanSpec => []ConfigInv
<1>1. PlanInit => ConfigInv
  BY PlanInitInv
<1>2. ConfigInv /\ [PlanNext]_planVars => ConfigInv'
  BY PlanNextInv
<1> QED
  BY <1>1, <1>2, PTL DEF PlanSpec

\* A binding's saved profiles name providers it has generated, and the flag
\* comes back to what the user had set when nothing of SLP is left, for any
\* documents, requests, routings, edits and recoveries (planActivation,
\* planDeactivation, patchForDirection).
THEOREM ConfigStaysSound == PlanSpec => []ConfigIsSound
<1>1. ASSUME ConfigInv PROVE ConfigIsSound
  <2>1. SeatsExist
    BY <1>1 DEF ConfigInv, SeatsExist, Bound
  <2>2. FlagComesBack
    BY <1>1 DEF ConfigInv, FlagComesBack, FlagKnown, Empty
  <2>3. QED
    BY <2>1, <2>2 DEF ConfigIsSound
<1> QED
  BY <1>1, FlagAndSeatsKept, PTL

=============================================================================
