---------------------------- MODULE SessionProofs ---------------------------
(***************************************************************************)
(* Proofs about the two ends of a desk session: module Bridge, for any     *)
(* number of instances in any number of processes, any binaries and any    *)
(* number of polls, and module Relay, for any number of frames, ids and    *)
(* bounds of its buffers, of a relay that starts.  The argument about the  *)
(* bridge is who owns the lock file; the one about the relay is where a    *)
(* frame is: the pipes are increasing sequences, each before the next, so  *)
(* that all a step does is to move the head of one to the end of another.  *)
(***************************************************************************)
EXTENDS Relay, Bridge, SequenceTheorems, TLAPS

-----------------------------------------------------------------------------
(* The bridge *)

BridgeSpec == BridgeInit /\ [][BridgeNext]_bridgeVars

-----------------------------------------------------------------------------
(* The invariant *)

\* start() has not bound a server yet.
Early == {"off", "rooting", "rooted", "locking", "writing", "judging", "waiting",
          "recovering", "refused", "locked"}
Places == Early \cup {"binding", "bound", "unpinning", "serving", "ended", "unbound", "dead"}
LockFiles == [by : Plugins, whole : BOOLEAN]

BridgeTypeOK ==
    /\ at \in [Plugins -> Places]
    /\ stopped \in [Plugins -> BOOLEAN] /\ closing \in [Plugins -> BOOLEAN]
    /\ lockHeld \in [Plugins -> BOOLEAN] /\ socketOwned \in [Plugins -> BOOLEAN]
    /\ lockFile \in LockFiles \cup {Nobody}
    /\ grafted \subseteq Plugins

\* The flag of a live instance is right: the lock file is whole and its own.
HeldIsMine == \A p \in Plugins : lockHeld[p] /\ Alive(p) => Mine(p)

\* The file an instance opened exclusively stays as it opened it.
WritesOwn == \A p \in Plugins : at[p] = "writing" =>
                lockFile # Nobody /\ lockFile.by = p /\ ~lockFile.whole

\* A server is bound, served and closed under the lock: an instance that is
\* not stopped keeps it, and one that serves keeps it until the close event.
ServersHold ==
    /\ \A p \in Plugins : closing[p] => stopped[p]
    /\ \A p \in Plugins : at[p] = "serving" => lockHeld[p]
    /\ \A p \in Plugins : at[p] \in {"locked", "binding", "bound", "unpinning"} =>
                             stopped[p] \/ lockHeld[p]

\* The socket is given up with the lock, never after it.
SocketsHeld == \A p \in Plugins : socketOwned[p] /\ Alive(p) => lockHeld[p]

EarlyOwnsNothing ==
    \A p \in Plugins : at[p] \in Early => ~socketOwned[p] /\ p \notin grafted

SocketAtPath == \A p \in Plugins : Served(p) => sockFile = p \/ strayed
GraftedKept == \A p \in Plugins : Served(p) /\ p \in grafted => installed = BridgePin[p]

LockInv == /\ BridgeTypeOK /\ HeldIsMine /\ WritesOwn /\ ServersHold /\ SocketsHeld
           /\ EarlyOwnsNothing
BridgeInv == LockInv /\ SocketAtPath /\ GraftedKept

-----------------------------------------------------------------------------
(* The lock *)

LEMMA InitInv == BridgeInit => BridgeInv
  BY DEF BridgeInit, BridgeInv, LockInv, BridgeTypeOK, HeldIsMine, WritesOwn, ServersHold,
         SocketsHeld, EarlyOwnsNothing, SocketAtPath, GraftedKept, Early, Places, Served

\* Two live instances cannot both hold the lock.
LEMMA OneHolder ==
    ASSUME LockInv, NEW p \in Plugins, NEW q \in Plugins,
           lockHeld[p], Alive(p), lockHeld[q], Alive(q)
    PROVE  p = q
  BY DEF LockInv, HeldIsMine, Mine

(***************************************************************************)
(* acquireLock: the exclusive open writes only where no file is, a judged  *)
(* lock is removed only when its holder is dead.                           *)
(***************************************************************************)
LEMMA AcquireSteps ==
    ASSUME LockInv, NEW p \in Plugins, NEW ok \in BOOLEAN,
           NEW status \in {"alive", "esrch", "undetermined"},
           \/ StartBridge(p) \/ ResolveStableRoot(p, ok) \/ Prepared(p)
           \/ OpenLockFile(p) \/ WriteLockFile(p) \/ WriteLockFileFails(p, ok)
           \/ JudgeLock(p, status) \/ PollAgain(p) \/ RecoverLock(p, ok) \/ Unavailable(p)
    PROVE  LockInv'
  <1> USE BridgeAssumption DEF LockInv, BridgeTypeOK, LockFiles, HeldIsMine, WritesOwn, ServersHold,
          SocketsHeld, EarlyOwnsNothing, Early, Places, Alive, Mine, Moves, bridgeFiles, seatVars
  <1>1. CASE StartBridge(p)            BY <1>1 DEF StartBridge
  <1>2. CASE ResolveStableRoot(p, ok)  BY <1>2 DEF ResolveStableRoot
  <1>3. CASE Prepared(p)               BY <1>3 DEF Prepared
  <1>4. CASE OpenLockFile(p)
    <2> DEFINE torn == [by |-> p, whole |-> FALSE]
    <2>1. torn \in LockFiles /\ torn.by = p /\ ~torn.whole /\ torn # Nobody
      <3>1. torn \in LockFiles /\ torn.by = p /\ ~torn.whole
            OBVIOUS
      <3> HIDE DEF torn
      <3> QED BY <3>1
    <2>2. CASE lockFile = Nobody /\ lockFile' = torn /\ Moves(p, "writing")
      <3> HIDE DEF torn
      <3> QED BY <1>4, <2>1, <2>2 DEF OpenLockFile
    <2>3. CASE Moves(p, "judging") /\ UNCHANGED lockFile
          BY <1>4, <2>3 DEF OpenLockFile
    <2> QED BY <1>4, <2>2, <2>3 DEF OpenLockFile
  <1>5. CASE WriteLockFile(p)          BY <1>5 DEF WriteLockFile
  <1>6. CASE WriteLockFileFails(p, ok) BY <1>6 DEF WriteLockFileFails
  <1>7. CASE JudgeLock(p, status)      BY <1>7 DEF JudgeLock
  <1>8. CASE PollAgain(p)              BY <1>8 DEF PollAgain
  <1>9. CASE RecoverLock(p, ok)        BY <1>9 DEF RecoverLock
  <1>10. CASE Unavailable(p)           BY <1>10 DEF Unavailable
  <1> QED BY <1>1, <1>2, <1>3, <1>4, <1>5, <1>6, <1>7, <1>8, <1>9, <1>10

(***************************************************************************)
(* start() under the lock, and every way it gives the lock up: releaseLock *)
(* removes only a file that is this instance's.                            *)
(***************************************************************************)
LEMMA ServeSteps ==
    ASSUME LockInv, NEW p \in Plugins, NEW ok \in BOOLEAN,
           \/ AbortIfStopped(p, ok) \/ Bind(p, ok) \/ BindFails(p, ok) \/ Listening(p)
           \/ Serve(p) \/ PinFails(p) \/ Unpinned(p, ok)
           \/ StopServer(p) \/ StopIdle(p, ok) \/ Finish(p, ok) \/ Graft(p, ok)
    PROVE  LockInv'
  <1> USE BridgeAssumption DEF LockInv, BridgeTypeOK, LockFiles, HeldIsMine, WritesOwn, ServersHold,
          SocketsHeld, EarlyOwnsNothing, Early, Places, Alive, Mine, Moves, Release, Finished,
          bridgeFiles, seatVars, instanceVars, HasServer, Awaiting
  <1>1. CASE AbortIfStopped(p, ok) BY <1>1 DEF AbortIfStopped
  <1>2. CASE Bind(p, ok)           BY <1>2 DEF Bind
  <1>3. CASE BindFails(p, ok)      BY <1>3 DEF BindFails
  <1>4. CASE Listening(p)          BY <1>4 DEF Listening
  <1>5. CASE Serve(p)              BY <1>5 DEF Serve
  <1>6. CASE PinFails(p)           BY <1>6 DEF PinFails
  <1>7. CASE Unpinned(p, ok)       BY <1>7 DEF Unpinned
  <1>8. CASE StopServer(p)         BY <1>8 DEF StopServer
  <1>9. CASE StopIdle(p, ok)       BY <1>9 DEF StopIdle
  <1>10. CASE Finish(p, ok)        BY <1>10 DEF Finish
  <1>11. CASE Graft(p, ok)         BY <1>11 DEF Graft
  <1> QED BY <1>1, <1>2, <1>3, <1>4, <1>5, <1>6, <1>7, <1>8, <1>9, <1>10, <1>11

\* A process that ends leaves its files, and they say nothing of the living.
LEMMA DiesStep ==
    ASSUME LockInv, NEW h, Dies(h)
    PROVE  LockInv'
  BY DEF Dies, LockInv, BridgeTypeOK, LockFiles, HeldIsMine, WritesOwn, ServersHold, SocketsHeld,
         EarlyOwnsNothing, Early, Places, Alive, Mine, bridgeFiles

\* What a seat does, and a binary that drifts, leave the lock alone.
LEMMA SeatSteps ==
    ASSUME LockInv, SeatStep \/ InstallDrifts
    PROVE  LockInv'
  <1>1. UNCHANGED <<instanceVars, lockFile>> /\ grafted' \subseteq grafted
        BY DEF SeatStep, InstallDrifts, RowMoves, SeatWorldMoves, Hello, Disconnects, TurnEnds,
               Dial, CallTool, Gate, TurnIdentified, TurnServed, Runs, bridgeFiles
  <1> QED BY <1>1 DEF LockInv, BridgeTypeOK, HeldIsMine, WritesOwn, ServersHold,
               SocketsHeld, EarlyOwnsNothing, Alive, Mine, instanceVars

LEMMA LockSteps == LockInv /\ [BridgeNext]_bridgeVars => LockInv'
  <1> SUFFICES ASSUME LockInv, [BridgeNext]_bridgeVars PROVE LockInv'
      OBVIOUS
  <1>1. CASE UNCHANGED bridgeVars
        BY <1>1 DEF bridgeVars, instanceVars, bridgeFiles, LockInv, BridgeTypeOK, HeldIsMine,
                    WritesOwn, ServersHold, SocketsHeld, EarlyOwnsNothing, Alive, Mine
  <1>2. CASE BridgeNext
    <2>1. ASSUME NEW p \in Plugins, StartBridge(p) \/ StopServer(p) PROVE LockInv'
      <3>1. TRUE \in BOOLEAN /\ "alive" \in {"alive", "esrch", "undetermined"}
            OBVIOUS
      <3> QED BY <2>1, <3>1, AcquireSteps, ServeSteps
    <2>2. ASSUME NEW p \in Plugins, BridgeStep(p) PROVE LockInv'
      <3>1. TRUE \in BOOLEAN /\ "alive" \in {"alive", "esrch", "undetermined"}
            OBVIOUS
      <3> QED BY <2>2, <3>1, AcquireSteps, ServeSteps DEF BridgeStep
    <2>3. ASSUME NEW p \in Plugins, NEW ok \in BOOLEAN, StopIdle(p, ok) \/ Graft(p, ok)
          PROVE  LockInv'
          BY <2>3, ServeSteps
    <2> QED BY <1>2, <2>1, <2>2, <2>3, DiesStep, SeatSteps DEF BridgeNext
  <1> QED BY <1>1, <1>2

-----------------------------------------------------------------------------
(* The socket *)

(***************************************************************************)
(* Whoever removes, binds or replaces a file under the lock holds it, so   *)
(* nobody else is serving then.                                            *)
(***************************************************************************)
LEMMA ServedHolds ==
    ASSUME LockInv, NEW p \in Plugins, Served(p)
    PROVE  lockHeld[p] /\ Alive(p)
  BY DEF LockInv, ServersHold, Served, Alive, BridgeTypeOK

\* Steps that touch neither the socket, the binary nor the grafts.
LEMMA FilesKept ==
    ASSUME BridgeInv, LockInv', UNCHANGED <<sockFile, strayed, installed, grafted>>,
           \A q \in Plugins : Served(q)' => Served(q)
    PROVE  SocketAtPath' /\ GraftedKept'
  BY DEF BridgeInv, SocketAtPath, GraftedKept

LEMMA SocketSteps ==
    ASSUME BridgeInv, LockInv', BridgeNext
    PROVE  SocketAtPath' /\ GraftedKept'
  <1> USE DEF BridgeInv, SocketAtPath, GraftedKept
  <1>1. ASSUME NEW p \in Plugins, NEW ok \in BOOLEAN, NEW status \in {"alive", "esrch", "undetermined"},
               \/ StartBridge(p) \/ ResolveStableRoot(p, ok) \/ Prepared(p)
               \/ OpenLockFile(p) \/ WriteLockFile(p) \/ WriteLockFileFails(p, ok)
               \/ JudgeLock(p, status) \/ PollAgain(p) \/ RecoverLock(p, ok) \/ Unavailable(p)
               \/ Listening(p) \/ Serve(p)
        PROVE  SocketAtPath' /\ GraftedKept'
    <2>1. UNCHANGED <<sockFile, strayed, installed, grafted, stopped>>
          BY <1>1 DEF StartBridge, ResolveStableRoot, Prepared, OpenLockFile, WriteLockFile,
             WriteLockFileFails, JudgeLock, PollAgain, RecoverLock, Unavailable, Listening, Serve,
             bridgeFiles
    <2>2. \A q \in Plugins : Served(q)' => Served(q)
          BY <1>1 DEF StartBridge, ResolveStableRoot, Prepared, OpenLockFile, WriteLockFile,
             WriteLockFileFails, JudgeLock, PollAgain, RecoverLock, Unavailable, Listening, Serve,
             Served, Moves, LockInv, BridgeTypeOK
    <2> QED BY <2>1, <2>2, FilesKept
  <1>2. ASSUME NEW p \in Plugins, NEW ok \in BOOLEAN, Bind(p, ok) PROVE SocketAtPath' /\ GraftedKept'
    <2>1. lockHeld[p] /\ Alive(p) /\ p \notin grafted
          BY <1>2 DEF Bind, LockInv, ServersHold, EarlyOwnsNothing, Early, Alive
    <2>2. sockFile' = p /\ UNCHANGED <<grafted, stopped>> /\ Moves(p, "binding")
          BY <1>2 DEF Bind
    <2>3. ASSUME NEW q \in Plugins, Served(q)' PROVE q = p
      <3>1. q # p => Served(q)
            BY <2>2, <2>3 DEF Served, Moves, LockInv, BridgeTypeOK
      <3> QED BY <2>1, <3>1, ServedHolds, OneHolder
    <2> QED BY <2>1, <2>2, <2>3
  <1>3. ASSUME NEW p \in Plugins, NEW ok \in BOOLEAN, BindFails(p, ok)
        PROVE  SocketAtPath' /\ GraftedKept'
    <2>1. lockHeld[p] /\ Alive(p)
          BY <1>3 DEF BindFails, LockInv, ServersHold, Alive
    <2>2. ASSUME NEW q \in Plugins PROVE ~Served(q)'
      <3>1. Served(q)' => q # p /\ Served(q)
            BY <1>3 DEF BindFails, Served, Moves, LockInv, BridgeTypeOK
      <3> QED BY <2>1, <3>1, ServedHolds, OneHolder
    <2> QED BY <2>2
  <1>4. ASSUME NEW p \in Plugins, NEW ok \in BOOLEAN,
               AbortIfStopped(p, ok) \/ StopIdle(p, ok) \/ Finish(p, ok)
        PROVE  SocketAtPath' /\ GraftedKept'
    <2>1. UNCHANGED <<strayed, installed, grafted>>
          /\ sockFile' = IF socketOwned[p] THEN Nobody ELSE sockFile
          BY <1>4 DEF AbortIfStopped, StopIdle, Finish, Finished
    <2>2. \A q \in Plugins : Served(q)' => q # p /\ Served(q)
          BY <1>4 DEF AbortIfStopped, StopIdle, Finish, Served, Moves, LockInv, BridgeTypeOK,
                      ServersHold, HasServer
    <2>3. Alive(p)
          BY <1>4 DEF AbortIfStopped, StopIdle, Finish, Awaiting, Alive
    <2>4. socketOwned[p] => \A q \in Plugins : ~Served(q)'
          BY <2>2, <2>3, ServedHolds, OneHolder DEF LockInv, SocketsHeld
    <2> QED BY <2>1, <2>2, <2>4
  <1>5. ASSUME NEW p \in Plugins, StopServer(p) \/ PinFails(p)
        PROVE  SocketAtPath' /\ GraftedKept'
    <2>1. UNCHANGED <<strayed, installed, grafted>>
          BY <1>5 DEF StopServer, PinFails
    <2>2. \A q \in Plugins : Served(q)' => q # p /\ Served(q)
          BY <1>5 DEF StopServer, PinFails, Served, Moves, LockInv, BridgeTypeOK
    <2>3. CASE at[p] \in {"binding", "bound", "serving"}
      <3>1. Served(p)
            BY <1>5, <2>3 DEF StopServer, PinFails, Served
      <3>2. \A q \in Plugins : ~Served(q)'
            BY <2>2, <3>1, ServedHolds, OneHolder
      <3> QED BY <3>2
    <2>4. CASE at[p] \notin {"binding", "bound", "serving"}
      <3>1. sockFile' = sockFile
            BY <1>5, <2>4 DEF StopServer, PinFails
      <3> QED BY <2>1, <2>2, <3>1, FilesKept
    <2> QED BY <2>3, <2>4
  <1>6. ASSUME NEW p \in Plugins, NEW ok \in BOOLEAN, Unpinned(p, ok)
        PROVE  SocketAtPath' /\ GraftedKept'
    <2>1. UNCHANGED <<installed, grafted>> /\ strayed' = (strayed \/ sockFile \notin {p, Nobody})
          BY <1>6 DEF Unpinned
    <2>2. \A q \in Plugins : Served(q)' => q # p /\ Served(q)
          BY <1>6 DEF Unpinned, Served, Moves, LockInv, BridgeTypeOK
    <2> QED BY <2>1, <2>2, BridgeAssumption
  <1>7. ASSUME NEW p \in Plugins, NEW ok \in BOOLEAN, Graft(p, ok)
        PROVE  SocketAtPath' /\ GraftedKept'
    <2>1. UNCHANGED <<at, stopped, sockFile, strayed>> /\ lockHeld[p] /\ Alive(p)
          BY <1>7 DEF Graft, instanceVars, LockInv, ServersHold, Alive
    <2>2. \A q \in Plugins : Served(q)' => q = p /\ Served(p)
          BY <2>1, ServedHolds, OneHolder DEF Served
    <2>3. p \in grafted' => installed' = BridgePin[p] \/ (p \in grafted /\ installed' = installed)
          BY <1>7 DEF Graft, Install
    <2> QED BY <2>1, <2>2, <2>3
  <1>8. ASSUME NEW h, Dies(h) PROVE SocketAtPath' /\ GraftedKept'
    <2>1. UNCHANGED <<sockFile, strayed, installed, grafted, stopped>>
          /\ \A q \in Plugins : at'[q] \in {at[q], "dead"}
          BY <1>8 DEF Dies, bridgeFiles
    <2>2. \A q \in Plugins : Served(q)' => Served(q)
          BY <2>1 DEF Served
    <2> QED BY <2>1, <2>2, FilesKept
  <1>9. CASE SeatStep \/ InstallDrifts
    <2>1. /\ UNCHANGED <<at, stopped, sockFile, strayed>>
          /\ UNCHANGED <<installed, grafted>> \/ grafted' = {}
          BY <1>9 DEF SeatStep, InstallDrifts, RowMoves, SeatWorldMoves, Hello, Disconnects, TurnEnds,
               Dial, CallTool, Gate, TurnIdentified, TurnServed, Runs, bridgeFiles, instanceVars
    <2> QED BY <2>1 DEF Served
  <1>10. TRUE \in BOOLEAN /\ "alive" \in {"alive", "esrch", "undetermined"}
         OBVIOUS
  <1>11. ASSUME NEW p \in Plugins, BridgeStep(p) PROVE SocketAtPath' /\ GraftedKept'
         BY <1>1, <1>2, <1>3, <1>4, <1>5, <1>6, <1>10, <1>11 DEF BridgeStep
  <1>12. ASSUME NEW p \in Plugins, StartBridge(p) PROVE SocketAtPath' /\ GraftedKept'
         BY <1>1, <1>10, <1>12
  <1> QED BY <1>4, <1>5, <1>7, <1>8, <1>9, <1>11, <1>12 DEF BridgeNext

-----------------------------------------------------------------------------
(* The theorems *)

(***************************************************************************)
(* The lock protocol of start() and stop(): flags and files agree, and no  *)
(* server outlives its lock (acquireLock, releaseLock, finish).            *)
(***************************************************************************)
THEOREM LockDiscipline == BridgeSpec => []BridgeInv
  <1>1. BridgeInv /\ [BridgeNext]_bridgeVars => BridgeInv'
    <2> SUFFICES ASSUME BridgeInv, [BridgeNext]_bridgeVars PROVE BridgeInv'
        OBVIOUS
    <2>1. LockInv'
          BY LockSteps DEF BridgeInv
    <2>2. CASE BridgeNext
          BY <2>1, <2>2, SocketSteps DEF BridgeInv
    <2>3. CASE UNCHANGED bridgeVars
      <3>1. \A q \in Plugins : Served(q)' => Served(q)
            BY <2>3 DEF bridgeVars, instanceVars, Served
      <3> QED BY <2>1, <2>3, <3>1, FilesKept DEF bridgeVars, bridgeFiles, BridgeInv
    <2> QED BY <2>2, <2>3
  <1> QED BY InitInv, <1>1, PTL DEF BridgeSpec

(***************************************************************************)
(* At most one instance listens, it holds the lock, its socket is the one  *)
(* at the path, and what it grafted is what it pins (DeskBridge.start).    *)
(***************************************************************************)
THEOREM AtMostOneListens == BridgeSpec => []OneListener
  <1>1. BridgeInv => OneListener
    <2> SUFFICES ASSUME BridgeInv PROVE OneListener
        OBVIOUS
    <2>1. \A p, q \in Plugins : Served(p) /\ Served(q) => p = q
          BY ServedHolds, OneHolder DEF BridgeInv
    <2>2. \A p \in Plugins : Served(p) => Mine(p) /\ lockHeld[p]
          BY ServedHolds DEF BridgeInv, LockInv, HeldIsMine
    <2> QED BY <2>1, <2>2 DEF OneListener, BridgeInv, SocketAtPath, GraftedKept
  <1> QED BY LockDiscipline, <1>1, PTL

-----------------------------------------------------------------------------
(* The relay *)

RelaySpec == RelayInit /\ mode = "offline" /\ [][RelayNext]_relayVars

-----------------------------------------------------------------------------
(* Lines *)

\* Frames in the order they were written, and sets of them one after another.
Line(s) == s \in Seq(Nat) /\ \A i, j \in 1..Len(s) : i < j => s[i] < s[j]
Below(S, T) == \A x \in S, y \in T : x < y

LEMMA Members ==
    ASSUME NEW s \in Seq(Nat)
    PROVE  /\ Len(s) \in Nat /\ \A i \in 1..Len(s) : s[i] \in Nat /\ s[i] \in ToSet(s)
           /\ \A x \in ToSet(s) : x \in Nat /\ \E i \in 1..Len(s) : x = s[i]
<1>1. DOMAIN s = 1..Len(s) /\ Len(s) \in Nat
  BY LenProperties
<1>2. \A i \in 1..Len(s) : s[i] \in Nat
  BY ElementOfSeq
<1> QED
  BY <1>1, <1>2 DEF ToSet

LEMMA EmptyLine == Line(<<>>) /\ ToSet(<<>>) = {}
<1>1. <<>> \in Seq(Nat) /\ Len(<<>>) = 0
  BY EmptySeq
<1>2. Line(<<>>)
  BY <1>1 DEF Line
<1>3. \A x \in ToSet(<<>>) : \E i \in 1..0 : x = <<>>[i]
  BY <1>1, Members
<1>4. ~\E i \in 1..0 : TRUE
  OBVIOUS
<1> QED
  BY <1>2, <1>3, <1>4

\* Taking the first frame of a line.
LEMMA TailLine ==
    ASSUME NEW s, Line(s), s # <<>>
    PROVE  /\ Line(Tail(s)) /\ Head(s) \in ToSet(s)
           /\ ToSet(Tail(s)) = ToSet(s) \ {Head(s)}
           /\ Below({Head(s)}, ToSet(Tail(s)))
<1> DEFINE t == Tail(s)
<1>1. /\ s \in Seq(Nat) /\ Len(s) \in Nat \ {0}
      /\ t \in Seq(Nat) /\ Len(t) = Len(s) - 1
      /\ \A i \in 1..Len(t) : t[i] = s[i + 1]
      /\ Head(s) = s[1]
  BY HeadTailProperties, EmptySeq, LenProperties DEF Line
<1> HIDE DEF t
<1>2. \A i, j \in 1..Len(s) : i < j => s[i] < s[j]
  BY DEF Line
<1>3. ASSUME NEW i \in 1..Len(t)
      PROVE  i + 1 \in 1..Len(s) /\ 1 \in 1..Len(s) /\ 1 < i + 1 /\ t[i] = s[i + 1]
  BY <1>1
<1>4. Line(t)
  <2> SUFFICES ASSUME NEW i \in 1..Len(t), NEW j \in 1..Len(t), i < j
               PROVE  t[i] < t[j]
    BY <1>1 DEF Line
  <2>1. i + 1 < j + 1
    BY <1>1
  <2>2. s[i + 1] < s[j + 1]
    BY <1>2, <1>3, <2>1
  <2>3. QED
    BY <1>3, <2>2
<1>5. Head(s) \in ToSet(s)
  <2>1. 1 \in 1..Len(s)
    BY <1>1
  <2>2. QED
    BY <1>1, <2>1, Members
<1>6. \A x \in ToSet(t) : x \in ToSet(s) /\ Head(s) < x
  <2> TAKE x \in ToSet(t)
  <2>1. PICK i \in 1..Len(t) : x = t[i]
    BY <1>1, Members
  <2>2. x = s[i + 1] /\ i + 1 \in 1..Len(s) /\ s[1] < s[i + 1]
    BY <1>2, <1>3, <2>1
  <2>3. QED
    BY <2>2, <1>1, Members
<1>7. \A x \in ToSet(s) : x # Head(s) => x \in ToSet(t)
  <2> SUFFICES ASSUME NEW x \in ToSet(s), x # Head(s) PROVE x \in ToSet(t)
    OBVIOUS
  <2>1. PICK i \in 1..Len(s) : x = s[i]
    BY <1>1, Members
  <2>2. i # 1
    BY <1>1, <2>1
  <2>3. i - 1 \in 1..Len(t) /\ (i - 1) + 1 = i
    BY <1>1, <2>2
  <2>4. t[i - 1] = x
    BY <1>1, <2>1, <2>3
  <2>5. QED
    BY <1>1, <2>3, <2>4, Members
<1>8. Head(s) \in Nat /\ \A x \in ToSet(t) : x \in Nat
  BY <1>1, <1>5, Members
<1>9. ToSet(t) = ToSet(s) \ {Head(s)}
  BY <1>6, <1>7, <1>8
<1>10. Below({Head(s)}, ToSet(t))
  BY <1>6 DEF Below
<1> QED
  BY <1>4, <1>5, <1>9, <1>10 DEF t

\* One line after another.
LEMMA ConcatLine ==
    ASSUME NEW s, NEW t, Line(s), Line(t), Below(ToSet(s), ToSet(t))
    PROVE  Line(s \o t) /\ ToSet(s \o t) = ToSet(s) \cup ToSet(t)
<1> DEFINE u == s \o t
<1>1. /\ s \in Seq(Nat) /\ Len(s) \in Nat
      /\ t \in Seq(Nat) /\ Len(t) \in Nat
      /\ u \in Seq(Nat) /\ Len(u) = Len(s) + Len(t)
      /\ \A i \in 1..Len(u) : u[i] = IF i <= Len(s) THEN s[i] ELSE t[i - Len(s)]
  BY ConcatProperties, LenProperties DEF Line
<1> HIDE DEF u
<1>2. ASSUME NEW i \in 1..Len(u)
      PROVE  \/ i <= Len(s) /\ i \in 1..Len(s) /\ u[i] = s[i]
             \/ i > Len(s) /\ i - Len(s) \in 1..Len(t) /\ u[i] = t[i - Len(s)]
  BY <1>1
<1>3. Line(u)
  <2> SUFFICES ASSUME NEW i \in 1..Len(u), NEW j \in 1..Len(u), i < j
               PROVE  u[i] < u[j]
    BY <1>1 DEF Line
  <2>1. CASE j <= Len(s)
    <3>1. i <= Len(s)
      BY <1>1, <2>1
    <3>2. i \in 1..Len(s) /\ j \in 1..Len(s) /\ u[i] = s[i] /\ u[j] = s[j]
      BY <1>1, <1>2, <2>1, <3>1
    <3>3. QED
      BY <3>2 DEF Line
  <2>2. CASE i > Len(s)
    <3>1. j > Len(s) /\ i - Len(s) < j - Len(s)
      BY <1>1, <2>2
    <3>2. /\ i - Len(s) \in 1..Len(t) /\ j - Len(s) \in 1..Len(t)
          /\ u[i] = t[i - Len(s)] /\ u[j] = t[j - Len(s)]
      BY <1>1, <1>2, <2>2, <3>1
    <3>3. QED
      BY <3>1, <3>2 DEF Line
  <2>3. CASE i <= Len(s) /\ j > Len(s)
    <3>1. /\ i \in 1..Len(s) /\ j - Len(s) \in 1..Len(t)
          /\ u[i] = s[i] /\ u[j] = t[j - Len(s)]
      BY <1>1, <1>2, <2>3
    <3>2. u[i] \in ToSet(s) /\ u[j] \in ToSet(t)
      BY <1>1, <3>1, Members
    <3>3. QED
      BY <3>2 DEF Below
  <2>4. QED
    BY <1>1, <2>1, <2>2, <2>3
<1>4. \A x \in ToSet(u) : x \in ToSet(s) \cup ToSet(t)
  <2> TAKE x \in ToSet(u)
  <2>1. PICK i \in 1..Len(u) : x = u[i]
    BY <1>1, Members
  <2>2. QED
    BY <1>1, <1>2, <2>1, Members
<1>5. \A x \in ToSet(s) : x \in ToSet(u)
  <2> TAKE x \in ToSet(s)
  <2>1. PICK i \in 1..Len(s) : x = s[i]
    BY <1>1, Members
  <2>2. i \in 1..Len(u) /\ u[i] = x
    BY <1>1, <2>1
  <2>3. QED
    BY <1>1, <2>2, Members
<1>6. \A x \in ToSet(t) : x \in ToSet(u)
  <2> TAKE x \in ToSet(t)
  <2>1. PICK i \in 1..Len(t) : x = t[i]
    BY <1>1, Members
  <2>2. i + Len(s) \in 1..Len(u) /\ ~(i + Len(s) <= Len(s)) /\ (i + Len(s)) - Len(s) = i
    BY <1>1
  <2>3. u[i + Len(s)] = x
    BY <1>1, <2>1, <2>2
  <2>4. QED
    BY <1>1, <2>2, <2>3, Members
<1> QED
  BY <1>3, <1>4, <1>5, <1>6 DEF u

\* A frame behind a line.
LEMMA AppendLine ==
    ASSUME NEW s, NEW f \in Nat, Line(s), Below(ToSet(s), {f})
    PROVE  Line(Append(s, f)) /\ ToSet(Append(s, f)) = ToSet(s) \cup {f}
<1> DEFINE t == <<f>>
<1>1. t \in Seq(Nat) /\ Len(t) = 1 /\ t[1] = f
  OBVIOUS
<1>2. Append(s, f) = s \o t
  BY AppendIsConcat DEF Line
<1> HIDE DEF t
<1>3. Line(t)
  BY <1>1 DEF Line
<1>4. \A x \in ToSet(t) : x = f
  <2> TAKE x \in ToSet(t)
  <2>1. PICK i \in 1..Len(t) : x = t[i]
    BY <1>1, Members
  <2>2. i = 1
    BY <1>1
  <2>3. QED
    BY <1>1, <2>1, <2>2
<1>5. f \in ToSet(t)
  <2>1. 1 \in 1..Len(t)
    BY <1>1
  <2>2. QED
    BY <1>1, <2>1, Members
<1>6. ToSet(t) = {f}
  BY <1>4, <1>5
<1>7. Below(ToSet(s), ToSet(t))
  BY <1>6
<1>8. Line(s \o t) /\ ToSet(s \o t) = ToSet(s) \cup ToSet(t)
  BY <1>3, <1>7, ConcatLine
<1> QED
  BY <1>2, <1>6, <1>8

\* A line cut in two.
LEMMA SplitLine ==
    ASSUME NEW s, Line(s), NEW n \in 0..Len(s)
    PROVE  /\ Line(SubSeq(s, 1, n)) /\ Line(SubSeq(s, n + 1, Len(s)))
           /\ ToSet(SubSeq(s, 1, n)) \cup ToSet(SubSeq(s, n + 1, Len(s))) = ToSet(s)
           /\ Below(ToSet(SubSeq(s, 1, n)), ToSet(SubSeq(s, n + 1, Len(s))))
<1> DEFINE a == SubSeq(s, 1, n)
           b == SubSeq(s, n + 1, Len(s))
<1>1. s \in Seq(Nat) /\ Len(s) \in Nat /\ n \in Nat /\ n <= Len(s)
  BY LenProperties DEF Line
<1>2. \A i \in 1..Len(s) : s[i] \in Nat
  BY <1>1, Members
<1>3. a \in Seq(Nat) /\ Len(a) = n /\ \A i \in 1..n : a[i] = s[i]
  <2>1. \A i \in 1..n : s[i] \in Nat
    BY <1>1, <1>2
  <2>2. /\ a \in Seq(Nat) /\ Len(a) = (IF 1 <= n THEN n - 1 + 1 ELSE 0)
        /\ \A i \in 1..(n - 1 + 1) : a[i] = s[1 + i - 1]
    BY <1>1, <2>1, SubSeqProperties
  <2> HIDE DEF a
  <2>3. QED
    BY <1>1, <2>2
<1>4. b \in Seq(Nat) /\ Len(b) = Len(s) - n /\ \A i \in 1..Len(b) : b[i] = s[n + i]
  <2>1. \A i \in (n + 1)..Len(s) : s[i] \in Nat
    BY <1>1, <1>2
  <2>2. /\ b \in Seq(Nat) /\ Len(b) = (IF n + 1 <= Len(s) THEN Len(s) - (n + 1) + 1 ELSE 0)
        /\ \A i \in 1..(Len(s) - (n + 1) + 1) : b[i] = s[(n + 1) + i - 1]
    BY <1>1, <2>1, SubSeqProperties
  <2> HIDE DEF b
  <2>3. Len(b) = Len(s) - n
    BY <1>1, <2>2
  <2>4. ASSUME NEW i \in 1..Len(b) PROVE b[i] = s[n + i]
    <3>1. i \in 1..(Len(s) - (n + 1) + 1) /\ (n + 1) + i - 1 = n + i
      BY <1>1, <2>3
    <3>2. QED
      BY <2>2, <3>1
  <2>5. QED
    BY <2>2, <2>3, <2>4
<1> HIDE DEF a, b
<1>5. \A i, j \in 1..Len(s) : i < j => s[i] < s[j]
  BY DEF Line
<1>6. Line(a)
  <2> SUFFICES ASSUME NEW i \in 1..n, NEW j \in 1..n, i < j PROVE a[i] < a[j]
    BY <1>3 DEF Line
  <2>1. i \in 1..Len(s) /\ j \in 1..Len(s)
    BY <1>1
  <2>2. QED
    BY <2>1, <1>3, <1>5
<1>7. Line(b)
  <2> SUFFICES ASSUME NEW i \in 1..Len(b), NEW j \in 1..Len(b), i < j PROVE b[i] < b[j]
    BY <1>4 DEF Line
  <2>1. n + i \in 1..Len(s) /\ n + j \in 1..Len(s) /\ n + i < n + j
    BY <1>1, <1>4
  <2>2. s[n + i] < s[n + j]
    BY <1>5, <2>1
  <2>3. QED
    BY <1>4, <2>2
<1>8. \A x \in ToSet(a) : \E i \in 1..n : x = s[i]
  BY <1>3, Members
<1>9. \A x \in ToSet(b) : \E i \in (n + 1)..Len(s) : x = s[i]
  <2> TAKE x \in ToSet(b)
  <2>1. PICK k \in 1..Len(b) : x = b[k]
    BY <1>4, Members
  <2>2. n + k \in (n + 1)..Len(s) /\ x = s[n + k]
    BY <1>1, <1>4, <2>1
  <2>3. QED
    BY <2>2
<1>10. Below(ToSet(a), ToSet(b))
  <2> SUFFICES ASSUME NEW x \in ToSet(a), NEW y \in ToSet(b) PROVE x < y
    BY DEF Below
  <2>1. PICK i \in 1..n : x = s[i]
    BY <1>8
  <2>2. PICK j \in (n + 1)..Len(s) : y = s[j]
    BY <1>9
  <2>3. i \in 1..Len(s) /\ j \in 1..Len(s) /\ i < j
    BY <1>1
  <2>4. QED
    BY <1>5, <2>1, <2>2, <2>3
<1>11. \A x \in ToSet(a) \cup ToSet(b) : x \in ToSet(s)
  <2> TAKE x \in ToSet(a) \cup ToSet(b)
  <2>1. PICK i \in 1..Len(s) : x = s[i]
    BY <1>1, <1>8, <1>9
  <2>2. QED
    BY <1>1, <2>1, Members
<1>12. \A x \in ToSet(s) : x \in ToSet(a) \cup ToSet(b)
  <2> TAKE x \in ToSet(s)
  <2>1. PICK i \in 1..Len(s) : x = s[i]
    BY <1>1, Members
  <2>2. CASE i <= n
    <3>1. i \in 1..Len(a) /\ a[i] = x
      BY <1>1, <1>3, <2>1, <2>2
    <3>2. QED
      BY <1>3, <3>1, Members
  <2>3. CASE i > n
    <3>1. i - n \in 1..Len(b) /\ n + (i - n) = i
      BY <1>1, <1>4, <2>3
    <3>2. b[i - n] = x
      BY <1>4, <2>1, <3>1
    <3>3. QED
      BY <1>4, <3>1, <3>2, Members
  <2>4. QED
    BY <1>1, <2>2, <2>3
<1>13. ToSet(a) \cup ToSet(b) = ToSet(s)
  BY <1>11, <1>12
<1> QED
  BY <1>6, <1>7, <1>10, <1>13 DEF a, b
-----------------------------------------------------------------------------
(* The invariant *)

Verdicts == {"malformed", "gap", "result", "unknown"}
RelayTypeOK ==
    /\ script \in Seq(Kinds) /\ Len(script) <= MaxFrames
    /\ mode \in {"offline", "relay", "teardown", "unknown", "exit"}
    /\ inFlight \subseteq Sent /\ \A f \in inFlight : IsRequest(f)
    /\ orphans \subseteq Sent
    /\ answers \in [Frames -> {<<>>} \cup {<<v>> : v \in Verdicts}]
    /\ ran \in [Frames -> {0, 1}]
    /\ \A f \in Frames \ Sent : answers[f] = <<>> /\ ran[f] = 0

\* The pipes, each before the next.
LinesOK ==
    /\ Line(native) /\ Line(carry) /\ Line(wire) /\ Line(desk) /\ Line(replies) /\ Line(tail)
    /\ ToSet(native) \subseteq Sent /\ ToSet(carry) \subseteq Sent
    /\ ToSet(wire) \subseteq Sent /\ ToSet(desk) \subseteq Sent
    /\ Below(ToSet(carry), ToSet(native))
    /\ Below(ToSet(wire), ToSet(carry) \cup ToSet(native))
    /\ Below(ToSet(desk), ToSet(wire) \cup ToSet(carry) \cup ToSet(native))
    /\ Below(ToSet(replies), ToSet(desk) \cup ToSet(wire) \cup ToSet(carry) \cup ToSet(native))

\* What is on its way to the desk has not run; what is on its way back has,
\* is a request and still remembered.
RanOK ==
    /\ \A f \in ToSet(native) \cup ToSet(carry) \cup ToSet(wire) \cup ToSet(desk) \cup orphans : ran[f] = 0
    /\ \A f \in ToSet(replies) \cup ToSet(tail) : f \in inFlight /\ ran[f] = 1
    /\ \A f \in ToSet(wire) \cup ToSet(desk) : IsRequest(f) => f \in inFlight
    /\ ToSet(replies) \cap ToSet(tail) = {}
    /\ orphans \cap (ToSet(native) \cup ToSet(carry) \cup ToSet(wire) \cup ToSet(desk)) = {}

\* A request waits where it is, or was answered.
AnswersOK ==
    /\ \A f \in ToSet(native) \cup ToSet(carry) \cup inFlight : answers[f] = <<>>
    /\ inFlight \cap (ToSet(native) \cup ToSet(carry)) = {}
    /\ \A f \in Sent : IsRequest(f) =>
        /\ answers[f] = <<>> => f \in ToSet(native) \cup ToSet(carry) \cup inFlight
        /\ answers[f] = <<"gap">> => ran[f] = 0 /\ f \notin orphans
        /\ answers[f] = <<"result">> => ran[f] = 1

\* What a mode of the relay leaves behind.
ModesOK ==
    /\ mode # "relay" => wire = <<>> /\ desk = <<>> /\ replies = <<>>
    /\ mode \notin {"relay", "teardown"} => tail = <<>>
    /\ mode = "offline" => inFlight = {}
    /\ ended => eof /\ native = <<>>
    /\ mode = "exit" /\ ~dead => eof /\ native = <<>> /\ carry = <<>> /\ inFlight = {}

RelayInv == RelayTypeOK /\ LinesOK /\ RanOK /\ AnswersOK /\ ModesOK
-----------------------------------------------------------------------------
(* The steps *)

\* One verdict on a frame that has none.
LEMMA Verdict ==
    ASSUME NEW v
    PROVE  /\ Append(<<>>, v) = <<v>> /\ <<v>> # <<>>
           /\ \A w : <<v>> = <<w>> => v = w
<1>1. <<v>>[1] = v /\ Len(<<v>>) = 1 /\ Len(<<>>) = 0 /\ Append(<<>>, v) = <<v>>
  OBVIOUS
<1>2. ASSUME NEW w, <<v>> = <<w>> PROVE v = w
  BY <1>2
<1> QED
  BY <1>1, <1>2

LEMMA SentFrames ==
    ASSUME RelayInv
    PROVE  Len(script) \in Nat /\ Sent \subseteq Frames /\ Sent \subseteq Nat
<1>1. Len(script) \in Nat
  BY LenProperties DEF RelayInv, RelayTypeOK
<1> QED
  BY <1>1, RelayAssumption DEF RelayInv, RelayTypeOK, Sent, Frames

\* Steps that move no frame.
LEMMA ClientReadsStep == ASSUME RelayInv, ClientReads PROVE RelayInv'
BY DEF ClientReads, RelayInv, RelayTypeOK, LinesOK, RanOK, AnswersOK, ModesOK, Sent, IsRequest, Frames,
       relayVars, input, session, link, sink

LEMMA ClientClosesStep == ASSUME RelayInv, ClientCloses PROVE RelayInv'
BY DEF ClientCloses, RelayInv, RelayTypeOK, LinesOK, RanOK, AnswersOK, ModesOK, Sent, IsRequest, Frames,
       relayVars, input, session, link, sink

LEMMA HoldEndsStep == ASSUME RelayInv, HoldEnds PROVE RelayInv'
BY DEF HoldEnds, RelayInv, RelayTypeOK, LinesOK, RanOK, AnswersOK, ModesOK, Sent, IsRequest, Frames,
       relayVars, input, session, link, sink

LEMMA LeaveStep == ASSUME RelayInv, Leave PROVE RelayInv'
BY DEF Leave, RelayInv, RelayTypeOK, LinesOK, RanOK, AnswersOK, ModesOK, Sent, IsRequest, Frames,
       relayVars, input, session, link, sink

LEMMA EndOfInputStep == ASSUME RelayInv, EndOfInput PROVE RelayInv'
BY DEF EndOfInput, RelayInv, RelayTypeOK, LinesOK, RanOK, AnswersOK, ModesOK, Sent, IsRequest, Frames,
       relayVars, input, session, link, sink

\* What the desk had received is an orphan, also after the process died.
LEMMA SinkDiesStep ==
    ASSUME RelayInv, SinkDies
    PROVE  RelayInv'
<1>1. /\ script' = script /\ native' = native /\ carry' = carry /\ eof' = eof
      /\ ended' = ended /\ inFlight' = inFlight /\ answers' = answers /\ ran' = ran
      /\ mode' = "exit"
      /\ dead' = TRUE
      /\ orphans' = orphans \cup ToSet(desk)
      /\ wire' = <<>>
      /\ desk' = <<>>
      /\ replies' = <<>>
      /\ tail' = <<>>
  BY DEF SinkDies, input, session, link, sink
<1>2. /\ Line(wire') /\ Line(desk') /\ Line(replies') /\ Line(tail')
      /\ ToSet(wire') = {} /\ ToSet(desk') = {} /\ ToSet(replies') = {} /\ ToSet(tail') = {}
  BY <1>1, EmptyLine
<1>3. ToSet(desk) \subseteq Sent /\ ToSet(desk) \cap (ToSet(native) \cup ToSet(carry)) = {}
  BY DEF RelayInv, LinesOK, RelayTypeOK, Below, Sent
<1>4. RelayTypeOK'
  BY <1>1, <1>2, <1>3 DEF RelayInv, RelayTypeOK, Sent, IsRequest
<1>5. LinesOK'
  BY <1>1, <1>2, <1>3 DEF RelayInv, LinesOK, RelayTypeOK, Below, Sent
<1>6. RanOK'
  BY <1>1, <1>2, <1>3 DEF RelayInv, RelayTypeOK, LinesOK, RanOK, Sent, IsRequest
<1>7. AnswersOK'
  BY <1>1, <1>2, <1>3, Verdict DEF RelayInv, RelayTypeOK, RanOK, AnswersOK, Sent, IsRequest
<1>8. ModesOK'
  BY <1>1, <1>2, <1>3 DEF RelayInv, ModesOK
<1> QED
  BY <1>4, <1>5, <1>6, <1>7, <1>8 DEF RelayInv

LEMMA LinkDownStep ==
    ASSUME RelayInv, mode = "relay", LinkDown
    PROVE  RelayInv'
<1>1. /\ script' = script /\ native' = native /\ carry' = carry /\ eof' = eof
      /\ ended' = ended /\ inFlight' = inFlight /\ tail' = tail /\ dead' = dead
      /\ answers' = answers /\ ran' = ran
      /\ mode' = "teardown"
      /\ orphans' = orphans \cup ToSet(desk)
      /\ wire' = <<>>
      /\ desk' = <<>>
      /\ replies' = <<>>
  BY DEF LinkDown, input, session, link, sink
<1>2. /\ Line(wire') /\ Line(desk') /\ Line(replies')
      /\ ToSet(wire') = {} /\ ToSet(desk') = {} /\ ToSet(replies') = {}
  BY <1>1, EmptyLine
<1>3. ToSet(desk) \subseteq Sent /\ ToSet(desk) \cap (ToSet(native) \cup ToSet(carry)) = {}
  BY DEF RelayInv, LinesOK, RelayTypeOK, Below, Sent
<1>4. RelayTypeOK'
  BY <1>1, <1>2, <1>3 DEF RelayInv, RelayTypeOK, Sent, IsRequest
<1>5. LinesOK'
  BY <1>1, <1>2, <1>3 DEF RelayInv, LinesOK, RelayTypeOK, Below, Sent
<1>6. RanOK'
  BY <1>1, <1>2, <1>3 DEF RelayInv, RelayTypeOK, LinesOK, RanOK, Sent, IsRequest
<1>7. AnswersOK'
  BY <1>1, <1>2, <1>3, Verdict DEF RelayInv, RelayTypeOK, RanOK, AnswersOK, Sent, IsRequest
<1>8. ModesOK'
  BY <1>1, <1>2, <1>3 DEF RelayInv, ModesOK
<1> QED
  BY <1>4, <1>5, <1>6, <1>7, <1>8 DEF RelayInv

\* A new frame is behind all others.
LEMMA ClientWritesStep ==
    ASSUME RelayInv, NEW k \in Kinds, ClientWrites(k)
    PROVE  RelayInv'
<1>1. /\ carry' = carry /\ eof' = eof /\ ended' = ended /\ mode' = mode
      /\ inFlight' = inFlight /\ wire' = wire /\ desk' = desk /\ orphans' = orphans
      /\ replies' = replies /\ tail' = tail /\ dead' = dead /\ answers' = answers
      /\ ran' = ran
      /\ script' = Append(script, k)
      /\ native' = Append(native, Len(script) + 1)
  BY DEF ClientWrites, input, session, link, sink
<1>2. Len(script) \in Nat /\ Len(script) < MaxFrames /\ ~eof
  BY SentFrames DEF ClientWrites
<1>3. /\ script' \in Seq(Kinds) /\ Len(script') = Len(script) + 1
      /\ \A f \in Sent : script'[f] = script[f]
  BY <1>1, AppendProperties DEF RelayInv, RelayTypeOK, Sent
<1>4. /\ Sent' = Sent \cup {Len(script) + 1} /\ Len(script) + 1 \notin Sent
      /\ Len(script) + 1 \in Frames /\ Sent \subseteq Frames
  BY <1>2, <1>3, SentFrames, RelayAssumption DEF Sent, Frames
<1>5. \A f \in Sent : f < Len(script) + 1
  BY <1>2 DEF Sent
<1>6. /\ Line(native') /\ ToSet(native') = ToSet(native) \cup {Len(script) + 1}
  <2>1. Line(native) /\ Below(ToSet(native), {Len(script) + 1})
    BY <1>2, <1>5 DEF RelayInv, LinesOK, Below
  <2>2. Len(script) + 1 \in Nat
    BY <1>2
  <2>3. QED
    BY <1>1, <2>1, <2>2, AppendLine
<1>7. /\ ToSet(replies) \subseteq Sent /\ ToSet(tail) \subseteq Sent
  BY DEF RelayInv, RanOK, RelayTypeOK
<1>8. \A f \in Sent : IsRequest(f)' <=> IsRequest(f)
  BY <1>3 DEF IsRequest
<1>9. answers[Len(script) + 1] = <<>> /\ ran[Len(script) + 1] = 0
  BY <1>4 DEF RelayInv, RelayTypeOK
<1>10. RelayTypeOK'
  <2>1. /\ script' \in Seq(Kinds) /\ Len(script') <= MaxFrames
        /\ mode' \in {"offline", "relay", "teardown", "unknown", "exit"}
    BY <1>1, <1>2, <1>3, RelayAssumption DEF RelayInv, RelayTypeOK
  <2>2. /\ inFlight' \subseteq Sent' /\ orphans' \subseteq Sent'
        /\ \A f \in inFlight' : IsRequest(f)'
    BY <1>1, <1>4, <1>8 DEF RelayInv, RelayTypeOK
  <2>3. /\ answers' \in [Frames -> {<<>>} \cup {<<v>> : v \in Verdicts}]
        /\ ran' \in [Frames -> {0, 1}]
    BY <1>1 DEF RelayInv, RelayTypeOK
  <2>4. \A f \in Frames \ Sent' : answers'[f] = <<>> /\ ran'[f] = 0
    BY <1>1, <1>4 DEF RelayInv, RelayTypeOK
  <2>5. QED
    BY <2>1, <2>2, <2>3, <2>4 DEF RelayTypeOK
<1>11. LinesOK'
  BY <1>1, <1>4, <1>5, <1>6, <1>7 DEF RelayInv, LinesOK, Below
<1>12. RanOK'
  BY <1>1, <1>4, <1>6, <1>7, <1>8, <1>9 DEF RelayInv, RelayTypeOK, LinesOK, RanOK
<1>13. AnswersOK'
  <2>1. \A f \in ToSet(native') \cup ToSet(carry') \cup inFlight' : answers'[f] = <<>>
    BY <1>1, <1>6, <1>9 DEF RelayInv, AnswersOK
  <2>2. inFlight' \cap (ToSet(native') \cup ToSet(carry')) = {}
    <3>1. Len(script) + 1 \notin inFlight
      BY <1>4 DEF RelayInv, RelayTypeOK
    <3>2. QED
      BY <3>1, <1>1, <1>6 DEF RelayInv, AnswersOK
  <2>3. ASSUME NEW f \in Sent', IsRequest(f)'
        PROVE  /\ answers'[f] = <<>> => f \in ToSet(native') \cup ToSet(carry') \cup inFlight'
               /\ answers'[f] = <<"gap">> => ran'[f] = 0 /\ f \notin orphans'
               /\ answers'[f] = <<"result">> => ran'[f] = 1
    <3>1. CASE f = Len(script) + 1
      BY <3>1, <1>1, <1>6, <1>9, Verdict
    <3>2. CASE f \in Sent
      BY <2>3, <3>2, <1>1, <1>6, <1>8 DEF RelayInv, AnswersOK
    <3>3. QED
      BY <2>3, <3>1, <3>2, <1>4
  <2>4. QED
    BY <2>1, <2>2, <2>3 DEF AnswersOK
<1>14. ModesOK'
  BY <1>1, <1>2 DEF RelayInv, ModesOK
<1> QED
  BY <1>10, <1>11, <1>12, <1>13, <1>14 DEF RelayInv

\* A line cut in two, the first part behind the next line.
LEMMA Moved ==
    ASSUME RelayInv, NEW n \in 0..Len(native), native' = SubSeq(native, n + 1, Len(native)),
           carry' = carry \o SubSeq(native, 1, n)
    PROVE  /\ Line(carry') /\ Line(native') /\ Below(ToSet(carry'), ToSet(native'))
           /\ ToSet(carry) \subseteq ToSet(carry') /\ ToSet(native') \subseteq ToSet(native)
           /\ ToSet(carry') \cup ToSet(native') = ToSet(carry) \cup ToSet(native)
           /\ native = <<>> => native' = <<>>
<1>1. Line(native) /\ Line(carry) /\ Below(ToSet(carry), ToSet(native))
  BY DEF RelayInv, LinesOK
<1>2. \E A, B : /\ ToSet(SubSeq(native, 1, n)) = A /\ ToSet(native') = B
                /\ A \cup B = ToSet(native) /\ Below(A, B)
                /\ Line(SubSeq(native, 1, n)) /\ Line(native')
  BY <1>1, SplitLine
<1>3. PICK A, B : /\ ToSet(SubSeq(native, 1, n)) = A /\ ToSet(native') = B
                  /\ A \cup B = ToSet(native) /\ Below(A, B)
                  /\ Line(SubSeq(native, 1, n)) /\ Line(native')
  BY <1>2
<1>4. Line(carry') /\ ToSet(carry') = ToSet(carry) \cup A
  <2>1. Below(ToSet(carry), A)
    BY <1>1, <1>3 DEF Below
  <2>2. QED
    BY <1>1, <1>3, <2>1, ConcatLine
<1>5. Below(ToSet(carry'), ToSet(native'))
  BY <1>1, <1>3, <1>4 DEF Below
<1>6. ASSUME native = <<>> PROVE native' = <<>>
  <2>1. Len(native) = 0
    BY <1>6, EmptySeq
  <2>2. n + 1 \in Int /\ Len(native) \in Int /\ Len(native) < n + 1
    BY <2>1
  <2>3. QED
    BY <2>2, SubSeqEmpty
<1> QED
  BY <1>3, <1>4, <1>5, <1>6

LEMMA ReadStep ==
    ASSUME RelayInv, NEW n, Read(n)
    PROVE  RelayInv'
<1>1. /\ script' = script /\ eof' = eof /\ ended' = ended /\ mode' = mode
      /\ inFlight' = inFlight /\ wire' = wire /\ desk' = desk /\ orphans' = orphans
      /\ replies' = replies /\ tail' = tail /\ dead' = dead /\ answers' = answers
      /\ ran' = ran
      /\ carry' = carry \o SubSeq(native, 1, n)
      /\ native' = SubSeq(native, n + 1, Len(native))
  BY DEF Read, input, session, link, sink
<1>2. n \in 0..Len(native)
  <2>1. Len(native) \in Nat /\ n \in 1..Len(native)
    BY LenProperties DEF Read, RelayInv, LinesOK, Line
  <2>2. QED
    BY <2>1
<1>3. /\ Line(carry') /\ Line(native') /\ Below(ToSet(carry'), ToSet(native'))
      /\ ToSet(carry) \subseteq ToSet(carry') /\ ToSet(native') \subseteq ToSet(native)
      /\ ToSet(carry') \cup ToSet(native') = ToSet(carry) \cup ToSet(native)
      /\ native = <<>> => native' = <<>>
  BY <1>1, <1>2, Moved
<1>4. mode \in {"offline", "relay"}
  BY DEF Read
<1>5. RelayTypeOK'
  BY <1>1, <1>2, <1>3, <1>4 DEF RelayInv, RelayTypeOK, Sent, IsRequest
<1>6. LinesOK'
  BY <1>1, <1>2, <1>3, <1>4 DEF RelayInv, LinesOK, RelayTypeOK, Below, Sent
<1>7. RanOK'
  BY <1>1, <1>2, <1>3, <1>4 DEF RelayInv, RelayTypeOK, LinesOK, RanOK, Sent, IsRequest
<1>8. AnswersOK'
  BY <1>1, <1>2, <1>3, <1>4, Verdict DEF RelayInv, RelayTypeOK, RanOK, AnswersOK, Sent, IsRequest
<1>9. ModesOK'
  BY <1>1, <1>2, <1>3, <1>4 DEF RelayInv, ModesOK
<1> QED
  BY <1>5, <1>6, <1>7, <1>8, <1>9 DEF RelayInv

\* A new session starts with empty pipes.
LEMMA AcknowledgedStep ==
    ASSUME RelayInv, NEW n, Acknowledged(n)
    PROVE  RelayInv'
<1>1. /\ script' = script /\ eof' = eof /\ ended' = ended /\ inFlight' = inFlight
      /\ orphans' = orphans /\ dead' = dead /\ answers' = answers /\ ran' = ran
      /\ mode' = "relay"
      /\ wire' = <<>>
      /\ desk' = <<>>
      /\ replies' = <<>>
      /\ tail' = <<>>
  BY DEF Acknowledged, Detach, input, session, link, sink
<1>2. /\ Line(wire') /\ Line(desk') /\ Line(replies') /\ Line(tail')
      /\ ToSet(wire') = {} /\ ToSet(desk') = {} /\ ToSet(replies') = {} /\ ToSet(tail') = {}
  BY <1>1, EmptyLine
<1>3. /\ Line(carry') /\ Line(native') /\ Below(ToSet(carry'), ToSet(native'))
      /\ ToSet(carry) \subseteq ToSet(carry') /\ ToSet(native') \subseteq ToSet(native)
      /\ ToSet(carry') \cup ToSet(native') = ToSet(carry) \cup ToSet(native)
      /\ native = <<>> => native' = <<>>
  <2>1. CASE holding
    <3>1. carry' = carry /\ native' = native
      BY <2>1 DEF Acknowledged, Detach
    <3>2. QED
      BY <3>1 DEF RelayInv, LinesOK
  <2>2. CASE ~holding
    <3>1. /\ n \in 0..Len(native) /\ native' = SubSeq(native, n + 1, Len(native))
          /\ carry' = carry \o SubSeq(native, 1, n)
      BY <2>2 DEF Acknowledged, Detach
    <3>2. QED
      BY <3>1, Moved
  <2>3. QED
    BY <2>1, <2>2
<1>4. mode = "offline"
  BY DEF Acknowledged
<1>5. RelayTypeOK'
  BY <1>1, <1>2, <1>3, <1>4 DEF RelayInv, RelayTypeOK, Sent, IsRequest
<1>6. LinesOK'
  BY <1>1, <1>2, <1>3, <1>4 DEF RelayInv, LinesOK, RelayTypeOK, Below, Sent
<1>7. RanOK'
  BY <1>1, <1>2, <1>3, <1>4 DEF RelayInv, RelayTypeOK, LinesOK, RanOK, Sent, IsRequest
<1>8. AnswersOK'
  BY <1>1, <1>2, <1>3, <1>4, Verdict DEF RelayInv, RelayTypeOK, RanOK, AnswersOK, Sent, IsRequest
<1>9. ModesOK'
  BY <1>1, <1>2, <1>3, <1>4 DEF RelayInv, ModesOK
<1> QED
  BY <1>5, <1>6, <1>7, <1>8, <1>9 DEF RelayInv

\* The head of one line moves behind the next.
LEMMA TransmitStep ==
    ASSUME RelayInv, NEW f, f = Head(wire), wire # <<>>, Transmit
    PROVE  RelayInv'
<1>1. /\ script' = script /\ native' = native /\ carry' = carry /\ eof' = eof
      /\ ended' = ended /\ mode' = mode /\ inFlight' = inFlight /\ orphans' = orphans
      /\ replies' = replies /\ tail' = tail /\ dead' = dead /\ answers' = answers
      /\ ran' = ran
      /\ desk' = Append(desk, f)
      /\ wire' = Tail(wire)
  BY DEF Transmit, input, session, link, sink
<1>2. /\ Line(wire') /\ ToSet(wire') = ToSet(wire) \ {f}
      /\ f \in ToSet(wire) /\ Below({f}, ToSet(wire'))
  BY <1>1, TailLine DEF RelayInv, LinesOK
<1>3. f \in Sent /\ f \in Frames /\ f \in Nat
  BY <1>2, SentFrames DEF RelayInv, LinesOK
<1>4. Line(desk') /\ ToSet(desk') = ToSet(desk) \cup {f}
  <2>1. Line(desk) /\ Below(ToSet(desk), {f})
    BY <1>2 DEF RelayInv, LinesOK, Below
  <2>2. QED
    BY <1>1, <2>1, <1>3, AppendLine
<1>5. mode = "relay"
  BY DEF Transmit
<1>6. RelayTypeOK'
  BY <1>1, <1>2, <1>3, <1>4, <1>5 DEF RelayInv, RelayTypeOK, Sent, IsRequest
<1>7. LinesOK'
  BY <1>1, <1>2, <1>3, <1>4, <1>5 DEF RelayInv, LinesOK, RelayTypeOK, Below, Sent
<1>8. RanOK'
  BY <1>1, <1>2, <1>3, <1>4, <1>5 DEF RelayInv, RelayTypeOK, LinesOK, RanOK, Sent, IsRequest
<1>9. AnswersOK'
  BY <1>1, <1>2, <1>3, <1>4, <1>5, Verdict DEF RelayInv, RelayTypeOK, RanOK, AnswersOK, Sent, IsRequest
<1>10. ModesOK'
  BY <1>1, <1>2, <1>3, <1>4, <1>5 DEF RelayInv, ModesOK
<1> QED
  BY <1>6, <1>7, <1>8, <1>9, <1>10 DEF RelayInv

\* The desk runs a frame: it has not run before, and a request's reply is new.
LEMMA DispatchStep ==
    ASSUME RelayInv, NEW f, f = Head(desk), desk # <<>>, Dispatch
    PROVE  RelayInv'
<1>1. /\ script' = script /\ native' = native /\ carry' = carry /\ eof' = eof
      /\ ended' = ended /\ mode' = mode /\ inFlight' = inFlight /\ wire' = wire
      /\ orphans' = orphans /\ tail' = tail /\ dead' = dead /\ answers' = answers
      /\ desk' = Tail(desk)
      /\ ran' = [ran EXCEPT ![f] = @ + 1]
      /\ replies' = (IF IsRequest(f) THEN Append(replies, f) ELSE replies)
  BY DEF Dispatch, input, session, link, sink
<1>2. /\ Line(desk') /\ ToSet(desk') = ToSet(desk) \ {f}
      /\ f \in ToSet(desk) /\ Below({f}, ToSet(desk'))
  BY <1>1, TailLine DEF RelayInv, LinesOK
<1>3. f \in Sent /\ f \in Frames /\ f \in Nat
  BY <1>2, SentFrames DEF RelayInv, LinesOK
<1>4. /\ Line(replies')
      /\ ToSet(replies') = ToSet(replies) \cup (IF IsRequest(f) THEN {f} ELSE {})
  <2>1. Line(replies) /\ Below(ToSet(replies), {f})
    BY <1>2 DEF RelayInv, LinesOK, Below
  <2>2. CASE IsRequest(f)
    BY <1>1, <1>3, <2>1, <2>2, AppendLine
  <2>3. CASE ~IsRequest(f)
    BY <1>1, <2>1, <2>3
  <2>4. QED
    BY <2>2, <2>3
<1>5. ran[f] = 0 /\ ran' \in [Frames -> {0, 1}] /\ ran'[f] = 1
      /\ \A g \in Frames : g # f => ran'[g] = ran[g]
  BY <1>1, <1>2, <1>3 DEF RelayInv, RelayTypeOK, RanOK
<1>6. mode = "relay"
  BY DEF RelayInv, ModesOK
<1>7. /\ f \notin ToSet(native) \cup ToSet(carry) \cup ToSet(wire) \cup orphans
      /\ f \notin ToSet(replies) \cup ToSet(tail)
      /\ (IsRequest(f) => f \in inFlight /\ answers[f] = <<>>)
  BY <1>2, <1>3, <1>5 DEF RelayInv, LinesOK, RanOK, AnswersOK, Below
<1>8. RelayTypeOK'
  BY <1>1, <1>2, <1>3, <1>4, <1>5, <1>6, <1>7 DEF RelayInv, RelayTypeOK, Sent, IsRequest
<1>9. LinesOK'
  BY <1>1, <1>2, <1>3, <1>4, <1>5, <1>6, <1>7 DEF RelayInv, LinesOK, RelayTypeOK, Below, Sent
<1>10. RanOK'
  <2>1. \A g \in ToSet(native') \cup ToSet(carry') \cup ToSet(wire') \cup ToSet(desk') \cup orphans' :
           ran'[g] = 0
    <3> TAKE g \in ToSet(native') \cup ToSet(carry') \cup ToSet(wire') \cup ToSet(desk') \cup orphans'
    <3>1. g # f /\ ran[g] = 0
      BY <1>1, <1>2, <1>7 DEF RelayInv, RanOK
    <3>2. g \in Frames
      BY <1>1, <1>2, SentFrames DEF RelayInv, LinesOK, RelayTypeOK
    <3>3. QED
      BY <3>1, <3>2, <1>5
  <2>2. \A g \in ToSet(replies') \cup ToSet(tail') : g \in inFlight' /\ ran'[g] = 1
    <3> TAKE g \in ToSet(replies') \cup ToSet(tail')
    <3>1. CASE g = f
      BY <3>1, <1>1, <1>4, <1>5, <1>7
    <3>2. CASE g # f
      <4>1. g \in inFlight /\ ran[g] = 1
        BY <3>2, <1>1, <1>4 DEF RelayInv, RanOK
      <4>2. g \in Frames
        BY <4>1, SentFrames DEF RelayInv, RelayTypeOK
      <4>3. QED
        BY <3>2, <4>1, <4>2, <1>1, <1>5
    <3>3. QED
      BY <3>1, <3>2
  <2>3. \A g \in ToSet(wire') \cup ToSet(desk') : IsRequest(g)' => g \in inFlight'
    BY <1>1, <1>2 DEF RelayInv, RanOK, IsRequest
  <2>4. ToSet(replies') \cap ToSet(tail') = {}
    BY <1>1, <1>4, <1>7 DEF RelayInv, RanOK
  <2>5. orphans' \cap (ToSet(native') \cup ToSet(carry') \cup ToSet(wire') \cup ToSet(desk')) = {}
    BY <1>1, <1>2 DEF RelayInv, RanOK
  <2>6. QED
    BY <2>1, <2>2, <2>3, <2>4, <2>5 DEF RanOK
<1>11. AnswersOK'
  <2>1. ASSUME NEW g \in Sent', IsRequest(g)'
        PROVE  /\ answers'[g] = <<>> => g \in ToSet(native') \cup ToSet(carry') \cup inFlight'
               /\ answers'[g] = <<"gap">> => ran'[g] = 0 /\ g \notin orphans'
               /\ answers'[g] = <<"result">> => ran'[g] = 1
    <3>1. g \in Sent /\ IsRequest(g) /\ g \in Frames
      BY <2>1, <1>1, SentFrames DEF Sent, IsRequest
    <3>2. CASE g = f
      BY <3>1, <3>2, <1>1, <1>7, Verdict DEF RelayInv, AnswersOK
    <3>3. CASE g # f
      BY <3>1, <3>3, <1>1, <1>5 DEF RelayInv, AnswersOK
    <3>4. QED
      BY <3>2, <3>3
  <2>2. QED
    BY <2>1, <1>1 DEF RelayInv, AnswersOK
<1>12. ModesOK'
  BY <1>1, <1>2, <1>3, <1>4, <1>5, <1>6, <1>7 DEF RelayInv, ModesOK
<1> QED
  BY <1>8, <1>9, <1>10, <1>11, <1>12 DEF RelayInv

\* So does the desk with what a lost connection had brought.
LEMMA DispatchOrphanStep ==
    ASSUME RelayInv, NEW f \in orphans, orphans' = orphans \ {f} /\ ran' = [ran EXCEPT ![f] = @ + 1]
           /\ UNCHANGED <<input, session, wire, wireFull, desk, replies, tail, tailPaused, sink>>
    PROVE  RelayInv'
<1>1. /\ script' = script /\ native' = native /\ carry' = carry /\ eof' = eof
      /\ ended' = ended /\ mode' = mode /\ inFlight' = inFlight /\ wire' = wire
      /\ desk' = desk /\ replies' = replies /\ tail' = tail /\ dead' = dead
      /\ answers' = answers
      /\ orphans' = orphans \ {f}
      /\ ran' = [ran EXCEPT ![f] = @ + 1]
  BY DEF input, input, session, link, sink
<1>2. f \in Frames /\ ran[f] = 0
  BY SentFrames DEF RelayInv, RelayTypeOK, RanOK
<1>3. ran' \in [Frames -> {0, 1}] /\ ran'[f] = 1
      /\ \A g \in Frames : g # f => ran'[g] = ran[g]
  BY <1>1, <1>2 DEF RelayInv, RelayTypeOK
<1>4. RelayTypeOK'
  BY <1>1, <1>2, <1>3 DEF RelayInv, RelayTypeOK, Sent, IsRequest
<1>5. LinesOK'
  BY <1>1, <1>2, <1>3 DEF RelayInv, LinesOK, RelayTypeOK, Below, Sent
<1>6. RanOK'
  BY <1>1, <1>2, <1>3 DEF RelayInv, RelayTypeOK, LinesOK, RanOK, Sent, IsRequest
<1>7. AnswersOK'
  BY <1>1, <1>2, <1>3, Verdict DEF RelayInv, RelayTypeOK, RanOK, AnswersOK, Sent, IsRequest
<1>8. ModesOK'
  BY <1>1, <1>2, <1>3 DEF RelayInv, ModesOK
<1> QED
  BY <1>4, <1>5, <1>6, <1>7, <1>8 DEF RelayInv

\* The splitter is empty when it takes what came.
LEMMA ReceiveStep ==
    ASSUME RelayInv, Receive
    PROVE  RelayInv'
<1>1. /\ script' = script /\ native' = native /\ carry' = carry /\ eof' = eof
      /\ ended' = ended /\ mode' = mode /\ inFlight' = inFlight /\ wire' = wire
      /\ desk' = desk /\ orphans' = orphans /\ dead' = dead /\ answers' = answers
      /\ ran' = ran
      /\ tail' = replies
      /\ replies' = <<>>
  BY DEF Receive, input, session, link, sink
<1>2. /\ Line(replies')
      /\ ToSet(replies') = {}
  BY <1>1, EmptyLine
<1>3. Line(tail') /\ ToSet(tail') = ToSet(replies)
  BY <1>1 DEF RelayInv, LinesOK
<1>4. mode = "relay"
  BY DEF Receive
<1>5. RelayTypeOK'
  BY <1>1, <1>2, <1>3, <1>4 DEF RelayInv, RelayTypeOK, Sent, IsRequest
<1>6. LinesOK'
  BY <1>1, <1>2, <1>3, <1>4 DEF RelayInv, LinesOK, RelayTypeOK, Below, Sent
<1>7. RanOK'
  BY <1>1, <1>2, <1>3, <1>4 DEF RelayInv, RelayTypeOK, LinesOK, RanOK, Sent, IsRequest
<1>8. AnswersOK'
  BY <1>1, <1>2, <1>3, <1>4, Verdict DEF RelayInv, RelayTypeOK, RanOK, AnswersOK, Sent, IsRequest
<1>9. ModesOK'
  BY <1>1, <1>2, <1>3, <1>4 DEF RelayInv, ModesOK
<1> QED
  BY <1>5, <1>6, <1>7, <1>8, <1>9 DEF RelayInv

\* A frame that is answered on the spot, or dropped.
LEMMA TakenStep ==
    ASSUME RelayInv, mode \in {"offline", "relay"},
           NEW said \in {"gap", "malformed"}, NEW f, f = Head(carry), carry # <<>>, carry' = Tail(carry),
           \/ answers' = answers /\ ~IsRequest(f)
           \/ answers' = [answers EXCEPT ![f] = Append(@, said)],
           UNCHANGED <<script, native, eof, ended, mode, inFlight, wire, desk, orphans, replies, tail, dead, ran>>
    PROVE  RelayInv'
<1>1. /\ script' = script /\ native' = native /\ eof' = eof /\ ended' = ended
      /\ mode' = mode /\ inFlight' = inFlight /\ wire' = wire /\ desk' = desk
      /\ orphans' = orphans /\ replies' = replies /\ tail' = tail /\ dead' = dead
      /\ ran' = ran
      /\ carry' = Tail(carry)
  BY DEF RelayInv, input, session, link, sink
<1>2. /\ Line(carry') /\ ToSet(carry') = ToSet(carry) \ {f}
      /\ f \in ToSet(carry) /\ Below({f}, ToSet(carry'))
  BY <1>1, TailLine DEF RelayInv, LinesOK
<1>3. f \in Sent /\ f \in Frames /\ f \in Nat
  BY <1>2, SentFrames DEF RelayInv, LinesOK
<1>4. /\ f \notin ToSet(native) \cup orphans \cup inFlight /\ answers[f] = <<>>
      /\ ran[f] = 0
  BY <1>2, <1>3 DEF RelayInv, LinesOK, RanOK, AnswersOK, Below
<1>5. /\ answers' \in [Frames -> {<<>>} \cup {<<v>> : v \in Verdicts}]
      /\ answers'[f] = <<>> => ~IsRequest(f)
      /\ answers'[f] # <<"result">>
      /\ \A g \in Frames : g # f => answers'[g] = answers[g]
  <2>1. answers' = answers \/ answers' = [answers EXCEPT ![f] = <<said>>]
    BY <1>3, <1>4, Verdict DEF RelayInv, RelayTypeOK
  <2>2. said \in Verdicts /\ said # "result"
    BY DEF Verdicts
  <2>3. CASE answers' = answers /\ ~IsRequest(f)
    BY <2>3, <1>3, <1>4, Verdict DEF RelayInv, RelayTypeOK
  <2>4. CASE answers' = [answers EXCEPT ![f] = <<said>>]
    <3>1. answers'[f] = <<said>> /\ \A g \in Frames : g # f => answers'[g] = answers[g]
      BY <2>4, <1>3 DEF RelayInv, RelayTypeOK
    <3>2. answers' \in [Frames -> {<<>>} \cup {<<v>> : v \in Verdicts}]
      BY <2>4, <2>2 DEF RelayInv, RelayTypeOK
    <3>3. QED
      BY <3>1, <3>2, <2>2, Verdict
  <2>5. QED
    BY <2>1, <2>3, <2>4
<1>6. RelayTypeOK'
  BY <1>1, <1>2, <1>3, <1>4, <1>5 DEF RelayInv, RelayTypeOK, Sent, IsRequest
<1>7. LinesOK'
  BY <1>1, <1>2, <1>3, <1>4, <1>5 DEF RelayInv, LinesOK, RelayTypeOK, Below, Sent
<1>8. RanOK'
  BY <1>1, <1>2, <1>3, <1>4, <1>5 DEF RelayInv, RelayTypeOK, LinesOK, RanOK, Sent, IsRequest
<1>9. AnswersOK'
  <2>1. ASSUME NEW g \in Sent', IsRequest(g)'
        PROVE  /\ answers'[g] = <<>> => g \in ToSet(native') \cup ToSet(carry') \cup inFlight'
               /\ answers'[g] = <<"gap">> => ran'[g] = 0 /\ g \notin orphans'
               /\ answers'[g] = <<"result">> => ran'[g] = 1
    <3>1. g \in Sent /\ IsRequest(g) /\ g \in Frames
      BY <2>1, <1>1, SentFrames DEF Sent, IsRequest
    <3>2. CASE g = f
      BY <3>1, <3>2, <1>1, <1>4, <1>5
    <3>3. CASE g # f
      BY <3>1, <3>3, <1>1, <1>2, <1>5 DEF RelayInv, AnswersOK
    <3>4. QED
      BY <3>2, <3>3
  <2>2. \A g \in ToSet(native') \cup ToSet(carry') \cup inFlight' : answers'[g] = <<>>
    <3> TAKE g \in ToSet(native') \cup ToSet(carry') \cup inFlight'
    <3>1. g # f /\ answers[g] = <<>>
      BY <1>1, <1>2, <1>4 DEF RelayInv, AnswersOK
    <3>2. g \in Frames
      BY <1>1, <1>2, SentFrames DEF RelayInv, LinesOK, RelayTypeOK
    <3>3. QED
      BY <3>1, <3>2, <1>5
  <2>3. inFlight' \cap (ToSet(native') \cup ToSet(carry')) = {}
    BY <1>1, <1>2 DEF RelayInv, AnswersOK
  <2>4. QED
    BY <2>1, <2>2, <2>3 DEF AnswersOK
<1>10. ModesOK'
  BY <1>1, <1>2, <1>3, <1>4, <1>5 DEF RelayInv, ModesOK
<1> QED
  BY <1>6, <1>7, <1>8, <1>9, <1>10 DEF RelayInv

LEMMA OfflineLineStep == ASSUME RelayInv, OfflineLine PROVE RelayInv'
<1>1. /\ mode \in {"offline", "relay"} /\ carry # <<>> /\ carry' = Tail(carry)
      /\ UNCHANGED <<script, native, eof, ended, mode, inFlight, wire, desk, orphans, replies, tail, dead, ran>>
  BY DEF OfflineLine, StdinBusy, Say, input, session, link, sink
<1>2. PICK f : f = Head(carry)
  OBVIOUS
<1>3. CASE script[f].type = "note"
  <2>1. answers' = answers /\ ~IsRequest(f)
    BY <1>2, <1>3 DEF OfflineLine, IsRequest, sink
  <2>2. QED
    BY <1>1, <1>2, <2>1, TakenStep
<1>4. CASE script[f].type # "note"
  <2>1. PICK v \in {"gap", "malformed"} : answers' = [answers EXCEPT ![f] = Append(@, v)]
    BY <1>2, <1>4 DEF OfflineLine, Say
  <2>2. QED
    BY <1>1, <1>2, <2>1, TakenStep
<1> QED
  BY <1>3, <1>4

\* A frame that goes to the socket.
LEMMA ForwardStep ==
    ASSUME RelayInv, mode = "relay", NEW f, f = Head(carry), carry # <<>>, carry' = Tail(carry),
           Forward(f),
           UNCHANGED <<script, native, eof, ended, mode, desk, orphans, replies, tail, ran>>
    PROVE  RelayInv'
<1>1. /\ script' = script /\ native' = native /\ eof' = eof /\ ended' = ended
      /\ mode' = mode /\ desk' = desk /\ orphans' = orphans /\ replies' = replies
      /\ tail' = tail /\ dead' = dead /\ answers' = answers /\ ran' = ran
      /\ carry' = Tail(carry)
      /\ wire' = Append(wire, f)
      /\ inFlight' = inFlight \cup (IF IsRequest(f) THEN {f} ELSE {})
  BY DEF Forward, input, session, link, sink
<1>2. /\ Line(carry') /\ ToSet(carry') = ToSet(carry) \ {f}
      /\ f \in ToSet(carry) /\ Below({f}, ToSet(carry'))
  BY <1>1, TailLine DEF RelayInv, LinesOK
<1>3. f \in Sent /\ f \in Frames /\ f \in Nat
  BY <1>2, SentFrames DEF RelayInv, LinesOK
<1>4. Line(wire') /\ ToSet(wire') = ToSet(wire) \cup {f}
  <2>1. Line(wire) /\ Below(ToSet(wire), {f})
    BY <1>2 DEF RelayInv, LinesOK, Below
  <2>2. QED
    BY <1>1, <2>1, <1>3, AppendLine
<1>5. f \notin ToSet(native) \cup orphans /\ answers[f] = <<>> /\ ran[f] = 0
  <2>1. f \notin ToSet(native)
    <3>1. f \in ToSet(native) => f < f
      BY <1>2 DEF RelayInv, LinesOK, Below
    <3>2. QED
      BY <1>3, <3>1
  <2>2. f \notin orphans /\ ran[f] = 0
    BY <1>2 DEF RelayInv, RanOK
  <2>3. answers[f] = <<>>
    BY <1>2 DEF RelayInv, AnswersOK
  <2>4. QED
    BY <2>1, <2>2, <2>3
<1>6. mode = "relay"
  OBVIOUS
<1>7. RelayTypeOK'
  BY <1>1, <1>2, <1>3, <1>4, <1>5, <1>6 DEF RelayInv, RelayTypeOK, Sent, IsRequest
<1>8. LinesOK'
  <2>1. /\ Line(native') /\ Line(desk') /\ Line(replies') /\ Line(tail')
        /\ ToSet(native') \subseteq Sent' /\ ToSet(desk') \subseteq Sent'
        /\ ToSet(carry') \subseteq Sent'
    BY <1>1, <1>2 DEF RelayInv, LinesOK, Sent
  <2>2. ToSet(wire') \subseteq Sent'
    BY <1>1, <1>3, <1>4 DEF RelayInv, LinesOK, Sent
  <2>3. Below(ToSet(carry'), ToSet(native')) /\ Below({f}, ToSet(native))
    BY <1>1, <1>2 DEF RelayInv, LinesOK, Below
  <2>4. Below(ToSet(wire'), ToSet(carry') \cup ToSet(native'))
    <3> SUFFICES ASSUME NEW x \in ToSet(wire'), NEW y \in ToSet(carry') \cup ToSet(native')
                 PROVE  x < y
      BY DEF Below
    <3>1. CASE x = f
      BY <3>1, <1>1, <1>2, <2>3 DEF Below
    <3>2. CASE x \in ToSet(wire)
      BY <3>2, <1>1, <1>2 DEF RelayInv, LinesOK, Below
    <3>3. QED
      BY <3>1, <3>2, <1>4
  <2>5. ToSet(wire') \cup ToSet(carry') \cup ToSet(native')
          = ToSet(wire) \cup ToSet(carry) \cup ToSet(native)
    BY <1>1, <1>2, <1>4
  <2>6. Below(ToSet(desk'), ToSet(wire') \cup ToSet(carry') \cup ToSet(native'))
    BY <1>1, <2>5 DEF RelayInv, LinesOK
  <2>7. Below(ToSet(replies'), ToSet(desk') \cup ToSet(wire') \cup ToSet(carry') \cup ToSet(native'))
    <3>1. ToSet(desk') \cup ToSet(wire') \cup ToSet(carry') \cup ToSet(native')
            = ToSet(desk) \cup ToSet(wire) \cup ToSet(carry) \cup ToSet(native)
      BY <1>1, <2>5
    <3>2. QED
      BY <1>1, <3>1 DEF RelayInv, LinesOK
  <2>8. Line(carry') /\ Line(wire')
    BY <1>2, <1>4
  <2>9. QED
    BY <2>1, <2>2, <2>3, <2>4, <2>6, <2>7, <2>8 DEF LinesOK
<1>9. RanOK'
  BY <1>1, <1>2, <1>3, <1>4, <1>5, <1>6 DEF RelayInv, RelayTypeOK, LinesOK, RanOK, Sent, IsRequest
<1>10. AnswersOK'
  <2>1. ASSUME NEW g \in Sent', IsRequest(g)'
        PROVE  /\ answers'[g] = <<>> => g \in ToSet(native') \cup ToSet(carry') \cup inFlight'
               /\ answers'[g] = <<"gap">> => ran'[g] = 0 /\ g \notin orphans'
               /\ answers'[g] = <<"result">> => ran'[g] = 1
    <3>1. g \in Sent /\ IsRequest(g)
      BY <2>1, <1>1 DEF Sent, IsRequest
    <3>2. CASE g = f
      BY <3>1, <3>2, <1>1, <1>5, Verdict
    <3>3. CASE g # f
      BY <3>1, <3>3, <1>1, <1>2 DEF RelayInv, AnswersOK
    <3>4. QED
      BY <3>2, <3>3
  <2>2. \A g \in ToSet(native') \cup ToSet(carry') \cup inFlight' : answers'[g] = <<>>
    BY <1>1, <1>2, <1>5 DEF RelayInv, AnswersOK
  <2>3. inFlight' \cap (ToSet(native') \cup ToSet(carry')) = {}
    BY <1>1, <1>2, <1>5 DEF RelayInv, AnswersOK
  <2>4. QED
    BY <2>1, <2>2, <2>3 DEF AnswersOK
<1>11. ModesOK'
  BY <1>1, <1>2, <1>3, <1>4, <1>5, <1>6 DEF RelayInv, ModesOK
<1> QED
  BY <1>7, <1>8, <1>9, <1>10, <1>11 DEF RelayInv

LEMMA StdinLineStep == ASSUME RelayInv, StdinLine PROVE RelayInv'
<1>1. /\ mode = "relay" /\ carry # <<>> /\ carry' = Tail(carry)
      /\ UNCHANGED <<script, native, eof, ended, mode, desk, orphans, replies, tail, ran>>
  BY DEF StdinLine, StdinBusy, input, session, link, sink
<1>2. PICK f : f = Head(carry)
  OBVIOUS
<1>3. \/ Answer(f, "malformed") \/ Answer(f, "gap") \/ Forward(f)
      \/ script[f].type = "note" /\ UNCHANGED <<sink, inFlight, wire>>
  BY <1>2 DEF StdinLine
<1>4. CASE Forward(f)
  BY <1>1, <1>2, <1>4, ForwardStep
<1>5. ASSUME NEW v \in {"gap", "malformed"}, Answer(f, v) PROVE RelayInv'
  <2>1. /\ answers' = [answers EXCEPT ![f] = Append(@, v)]
        /\ UNCHANGED <<inFlight, wire, dead>>
    BY <1>5 DEF Answer, Say
  <2>2. QED
    BY <1>1, <1>2, <2>1, TakenStep
<1>6. CASE script[f].type = "note" /\ UNCHANGED <<sink, inFlight, wire>>
  <2>1. answers' = answers /\ dead' = dead /\ ~IsRequest(f) /\ UNCHANGED <<inFlight, wire>>
    BY <1>6 DEF sink, IsRequest
  <2>2. QED
    BY <1>1, <1>2, <2>1, TakenStep
<1> QED
  BY <1>3, <1>4, <1>5, <1>6

\* A reply is written once, and its request forgotten.
LEMMA ReplyLineStep ==
    ASSUME RelayInv, NEW f, f = Head(tail), tail # <<>>, ReplyLine
    PROVE  RelayInv'
<1>1. /\ script' = script /\ native' = native /\ carry' = carry /\ eof' = eof
      /\ ended' = ended /\ mode' = mode /\ wire' = wire /\ desk' = desk
      /\ orphans' = orphans /\ replies' = replies /\ dead' = dead /\ ran' = ran
      /\ tail' = Tail(tail)
      /\ inFlight' = inFlight \ {f}
      /\ answers' = [answers EXCEPT ![f] = Append(@, "result")]
  BY DEF ReplyLine, TailBusy, Say, input, session, link, sink
<1>2. /\ Line(tail') /\ ToSet(tail') = ToSet(tail) \ {f}
      /\ f \in ToSet(tail) /\ Below({f}, ToSet(tail'))
  BY <1>1, TailLine DEF RelayInv, LinesOK
<1>3. f \in inFlight /\ ran[f] = 1 /\ f \in Sent /\ f \in Frames
  BY <1>2, SentFrames DEF RelayInv, RanOK, RelayTypeOK
<1>4. /\ f \notin ToSet(native) \cup ToSet(carry) \cup ToSet(wire) \cup ToSet(desk) \cup ToSet(replies)
      /\ answers[f] = <<>>
  BY <1>2, <1>3 DEF RelayInv, RanOK, AnswersOK
<1>5. /\ answers' \in [Frames -> {<<>>} \cup {<<v>> : v \in Verdicts}]
      /\ answers'[f] = <<"result">> /\ \A g \in Frames : g # f => answers'[g] = answers[g]
  <2>1. answers' = [answers EXCEPT ![f] = <<"result">>]
    BY <1>1, <1>3, <1>4, Verdict DEF RelayInv, RelayTypeOK
  <2>2. "result" \in Verdicts
    BY DEF Verdicts
  <2>3. QED
    BY <2>1, <2>2, <1>3, <1>4 DEF RelayInv, RelayTypeOK
<1>6. mode \in {"relay", "teardown"}
  BY DEF ReplyLine, TailBusy
<1>7. RelayTypeOK'
  BY <1>1, <1>2, <1>3, <1>4, <1>5, <1>6 DEF RelayInv, RelayTypeOK, Sent, IsRequest
<1>8. LinesOK'
  BY <1>1, <1>2, <1>3, <1>4, <1>5, <1>6 DEF RelayInv, LinesOK, RelayTypeOK, Below, Sent
<1>9. RanOK'
  BY <1>1, <1>2, <1>3, <1>4, <1>5, <1>6 DEF RelayInv, RelayTypeOK, LinesOK, RanOK, Sent, IsRequest
<1>10. AnswersOK'
  <2>1. ASSUME NEW g \in Sent', IsRequest(g)'
        PROVE  /\ answers'[g] = <<>> => g \in ToSet(native') \cup ToSet(carry') \cup inFlight'
               /\ answers'[g] = <<"gap">> => ran'[g] = 0 /\ g \notin orphans'
               /\ answers'[g] = <<"result">> => ran'[g] = 1
    <3>1. g \in Sent /\ IsRequest(g) /\ g \in Frames
      BY <2>1, <1>1, SentFrames DEF Sent, IsRequest
    <3>2. CASE g = f
      BY <3>2, <1>3, <1>4, <1>5, <1>1, Verdict
    <3>3. CASE g # f
      BY <3>1, <3>3, <1>3, <1>4, <1>5, <1>1 DEF RelayInv, AnswersOK
    <3>4. QED
      BY <3>2, <3>3
  <2>2. \A g \in ToSet(native') \cup ToSet(carry') \cup inFlight' : answers'[g] = <<>>
    <3> TAKE g \in ToSet(native') \cup ToSet(carry') \cup inFlight'
    <3>1. g # f /\ answers[g] = <<>>
      BY <1>1, <1>3, <1>4, <1>5 DEF RelayInv, AnswersOK
    <3>2. g \in Frames
      BY <1>1, SentFrames DEF RelayInv, LinesOK, RelayTypeOK
    <3>3. QED
      BY <3>1, <3>2, <1>3, <1>4, <1>5
  <2>3. inFlight' \cap (ToSet(native') \cup ToSet(carry')) = {}
    BY <1>1 DEF RelayInv, AnswersOK
  <2>4. QED
    BY <2>1, <2>2, <2>3 DEF AnswersOK
<1>11. ModesOK'
  BY <1>1, <1>2, <1>3, <1>4, <1>5, <1>6 DEF RelayInv, ModesOK
<1> QED
  BY <1>7, <1>8, <1>9, <1>10, <1>11 DEF RelayInv

\* A request whose session is over is answered as unknown.
LEMMA UnknownStep ==
    ASSUME RelayInv, mode = "unknown", NEW f \in inFlight, inFlight' = inFlight \ {f},
           Say(f, "unknown"), UNCHANGED <<input, mode, holding, link, ran>>
    PROVE  RelayInv'
<1>1. /\ script' = script /\ native' = native /\ carry' = carry /\ eof' = eof
      /\ ended' = ended /\ mode' = mode /\ wire' = wire /\ desk' = desk
      /\ orphans' = orphans /\ replies' = replies /\ tail' = tail /\ dead' = dead
      /\ ran' = ran
      /\ inFlight' = inFlight \ {f}
      /\ answers' = [answers EXCEPT ![f] = Append(@, "unknown")]
  BY DEF Say, input, session, link, sink
<1>2. f \in Sent /\ f \in Frames /\ answers[f] = <<>>
  BY SentFrames DEF RelayInv, RelayTypeOK, AnswersOK
<1>3. /\ answers' \in [Frames -> {<<>>} \cup {<<v>> : v \in Verdicts}]
      /\ answers'[f] = <<"unknown">> /\ \A g \in Frames : g # f => answers'[g] = answers[g]
  <2>1. answers' = [answers EXCEPT ![f] = <<"unknown">>]
    BY <1>1, <1>2, Verdict DEF RelayInv, RelayTypeOK
  <2>2. "unknown" \in Verdicts
    BY DEF Verdicts
  <2>3. QED
    BY <2>1, <2>2, <1>2 DEF RelayInv, RelayTypeOK
<1>4. /\ ToSet(wire) = {} /\ ToSet(desk) = {} /\ ToSet(replies) = {} /\ ToSet(tail) = {}
      /\ mode = "unknown"
  BY EmptyLine DEF RelayInv, ModesOK
<1>5. RelayTypeOK'
  BY <1>1, <1>2, <1>3, <1>4 DEF RelayInv, RelayTypeOK, Sent, IsRequest
<1>6. LinesOK'
  BY <1>1, <1>2, <1>3, <1>4 DEF RelayInv, LinesOK, RelayTypeOK, Below, Sent
<1>7. RanOK'
  BY <1>1, <1>2, <1>3, <1>4 DEF RelayInv, RelayTypeOK, LinesOK, RanOK, Sent, IsRequest
<1>8. AnswersOK'
  <2>1. ASSUME NEW g \in Sent', IsRequest(g)'
        PROVE  /\ answers'[g] = <<>> => g \in ToSet(native') \cup ToSet(carry') \cup inFlight'
               /\ answers'[g] = <<"gap">> => ran'[g] = 0 /\ g \notin orphans'
               /\ answers'[g] = <<"result">> => ran'[g] = 1
    <3>1. g \in Sent /\ IsRequest(g) /\ g \in Frames
      BY <2>1, <1>1, SentFrames DEF Sent, IsRequest
    <3>2. CASE g = f
      BY <3>2, <1>2, <1>3, <1>1, Verdict
    <3>3. CASE g # f
      BY <3>1, <3>3, <1>2, <1>3, <1>1 DEF RelayInv, AnswersOK
    <3>4. QED
      BY <3>2, <3>3
  <2>2. \A g \in ToSet(native') \cup ToSet(carry') \cup inFlight' : answers'[g] = <<>>
    <3> TAKE g \in ToSet(native') \cup ToSet(carry') \cup inFlight'
    <3>1. g # f /\ answers[g] = <<>>
      BY <1>1, <1>2, <1>3 DEF RelayInv, AnswersOK
    <3>2. g \in Frames
      BY <1>1, SentFrames DEF RelayInv, LinesOK, RelayTypeOK
    <3>3. QED
      BY <3>1, <3>2, <1>2, <1>3
  <2>3. inFlight' \cap (ToSet(native') \cup ToSet(carry')) = {}
    BY <1>1 DEF RelayInv, AnswersOK
  <2>4. QED
    BY <2>1, <2>2, <2>3 DEF AnswersOK
<1>9. ModesOK'
  BY <1>1, <1>2, <1>3, <1>4 DEF RelayInv, ModesOK
<1> QED
  BY <1>5, <1>6, <1>7, <1>8, <1>9 DEF RelayInv

\* The end of a session.
LEMMA OverStep ==
    ASSUME RelayInv, NEW held, Over(held), inFlight = {}, UNCHANGED <<inFlight, sink>>,
           mode \in {"teardown", "unknown"}, tail = <<>>
    PROVE  RelayInv'
<1>1. /\ UNCHANGED <<script, native, carry, eof, ended, inFlight, wire, desk, orphans, replies, tail, dead, answers, ran>>
      /\ mode' = "offline" \/ (mode' = "exit" /\ ended /\ carry = <<>>)
  BY DEF Over, link, sink
<1>2. RelayTypeOK' /\ LinesOK' /\ RanOK' /\ AnswersOK'
  BY <1>1 DEF RelayInv, RelayTypeOK, LinesOK, RanOK, AnswersOK, Sent, IsRequest
<1>3. ModesOK'
  BY <1>1 DEF RelayInv, ModesOK
<1> QED
  BY <1>2, <1>3 DEF RelayInv

LEMMA SessionOverStep == ASSUME RelayInv, NEW held, SessionOver(held) PROVE RelayInv'
BY OverStep DEF SessionOver, RelayInv, ModesOK

LEMMA TailDrainedStep == ASSUME RelayInv, NEW held, TailDrained(held) PROVE RelayInv'
<1>1. CASE inFlight = {}
  BY <1>1, OverStep DEF TailDrained
<1>2. CASE inFlight # {}
  <2>1. /\ UNCHANGED <<script, native, carry, eof, ended, inFlight, wire, desk, orphans, replies, tail, dead, answers, ran>>
        /\ mode = "teardown" /\ mode' = "unknown" /\ tail = <<>>
    BY <1>2 DEF TailDrained, input, link, sink
  <2>2. RelayTypeOK' /\ LinesOK' /\ RanOK' /\ AnswersOK'
    BY <2>1 DEF RelayInv, RelayTypeOK, LinesOK, RanOK, AnswersOK, Sent, IsRequest
  <2>3. ModesOK'
    BY <2>1 DEF RelayInv, ModesOK
  <2>4. QED
    BY <2>2, <2>3 DEF RelayInv
<1> QED
  BY <1>1, <1>2

-----------------------------------------------------------------------------
(* The theorems *)

LEMMA RelayStarts == RelayInit /\ mode = "offline" => RelayInv
<1> SUFFICES ASSUME RelayInit, mode = "offline" PROVE RelayInv
  OBVIOUS
<1>1. script \in Seq(Kinds) /\ Len(script) = 0 /\ Sent = {}
  BY EmptySeq DEF RelayInit, Sent
<1>2. RelayTypeOK
  BY <1>1, RelayAssumption DEF RelayInit, RelayTypeOK
<1>3. LinesOK
  BY <1>1, EmptyLine DEF RelayInit, LinesOK, Below
<1>4. RanOK /\ AnswersOK
  BY <1>1, EmptyLine DEF RelayInit, RanOK, AnswersOK
<1>5. ModesOK
  BY DEF RelayInit, ModesOK
<1> QED
  BY <1>2, <1>3, <1>4, <1>5 DEF RelayInv

\* Where each frame is, what was said of it and how often it ran agree, in
\* every mode of the relay (slp-desk-mcp.mjs: offline, session, teardown).
THEOREM EachFrameInOnePlace == RelaySpec => []RelayInv
<1>1. RelayInv /\ [RelayNext]_relayVars => RelayInv'
  <2> SUFFICES ASSUME RelayInv, [RelayNext]_relayVars PROVE RelayInv'
    OBVIOUS
  <2>1. CASE UNCHANGED relayVars
    BY <2>1 DEF relayVars, input, session, link, sink, RelayInv, RelayTypeOK, LinesOK, RanOK,
                AnswersOK, ModesOK, Sent, IsRequest
  <2>2. CASE Steps
    <3>1. CASE Unknown
      BY <3>1, UnknownStep DEF Unknown
    <3>2. CASE ReplyLine
      BY <3>2, ReplyLineStep DEF ReplyLine, TailBusy
    <3>3. QED
      BY <2>2, <3>1, <3>2, OfflineLineStep, StdinLineStep, LeaveStep, TailDrainedStep,
         SessionOverStep DEF Steps
  <2>3. CASE \E k \in Kinds : ClientWrites(k)
    BY <2>3, ClientWritesStep
  <2>4. CASE Transmit
    BY <2>4, TransmitStep DEF Transmit
  <2>5. CASE Dispatch
    BY <2>5, DispatchStep DEF Dispatch
  <2>6. CASE DispatchOrphan
    BY <2>6, DispatchOrphanStep DEF DispatchOrphan
  <2>7. CASE LinkLost \/ PeerCloses
    BY <2>7, LinkDownStep DEF LinkLost, PeerCloses, HalfClosed
  <2>8. CASE \/ ClientReads \/ SinkDies \/ ClientCloses \/ EndOfInput \/ HoldEnds \/ Receive
             \/ (\E n \in 1..MaxFrames : Read(n)) \/ \E n \in 0..MaxFrames : Acknowledged(n)
    BY <2>8, ClientReadsStep, SinkDiesStep, ClientClosesStep, EndOfInputStep, HoldEndsStep,
       ReceiveStep, ReadStep, AcknowledgedStep
  <2>9. QED
    BY <2>1, <2>2, <2>3, <2>4, <2>5, <2>6, <2>7, <2>8 DEF RelayNext
<1>2. QED
  BY <1>1, RelayStarts, PTL DEF RelaySpec

LEMMA HonestFromInv == RelayInv => AnswersAreHonest
<1> SUFFICES ASSUME RelayInv PROVE AnswersAreHonest
  OBVIOUS
<1>1. \A f \in Sent : ran[f] <= 1
  <2> TAKE f \in Sent
  <2>1. ran[f] \in {0, 1}
    BY SentFrames DEF RelayInv, RelayTypeOK
  <2>2. QED
    BY <2>1
<1>2. ASSUME NEW f \in ToSet(carry), f \in ToSet(native) PROVE FALSE
  <2>1. f \in Nat /\ f < f
    BY <1>2, Members DEF RelayInv, LinesOK, Line, Below
  <2>2. QED
    BY <2>1
<1>3. ASSUME NEW f \in Sent, IsRequest(f)
      PROVE  /\ Count(f, ToSet(native)) + Count(f, ToSet(carry)) + Count(f, inFlight) + Len(answers[f]) = 1
             /\ answers[f] = <<"gap">> => ran[f] = 0 /\ f \notin ToSet(wire) \cup ToSet(desk) \cup orphans
             /\ answers[f] = <<"result">> => ran[f] = 1
  <2>1. /\ answers[f] = <<"gap">> => ran[f] = 0 /\ f \notin orphans
        /\ answers[f] = <<"result">> => ran[f] = 1
    BY <1>3 DEF RelayInv, AnswersOK
  <2>2. answers[f] = <<"gap">> => f \notin ToSet(wire) \cup ToSet(desk)
    <3>1. f \in ToSet(wire) \cup ToSet(desk) => f \in inFlight /\ answers[f] = <<>>
      BY <1>3 DEF RelayInv, RanOK, AnswersOK
    <3>2. <<"gap">> # <<>>
      BY Verdict
    <3>3. QED
      BY <3>1, <3>2
  <2>3. CASE answers[f] = <<>>
    <3>1. Len(answers[f]) = 0
      BY <2>3
    <3>2. \/ f \in ToSet(native) /\ f \notin ToSet(carry) /\ f \notin inFlight
          \/ f \in ToSet(carry) /\ f \notin ToSet(native) /\ f \notin inFlight
          \/ f \in inFlight /\ f \notin ToSet(native) /\ f \notin ToSet(carry)
      BY <1>2, <1>3, <2>3 DEF RelayInv, AnswersOK
    <3>3. QED
      BY <2>1, <2>2, <3>1, <3>2 DEF Count
  <2>4. CASE answers[f] # <<>>
    <3>1. PICK v \in Verdicts : answers[f] = <<v>>
      BY <2>4, SentFrames DEF RelayInv, RelayTypeOK
    <3>2. Len(answers[f]) = 1
      BY <3>1
    <3>3. f \notin ToSet(native) /\ f \notin ToSet(carry) /\ f \notin inFlight
      BY <2>4 DEF RelayInv, AnswersOK
    <3>4. QED
      BY <2>1, <2>2, <3>2, <3>3 DEF Count
  <2>5. QED
    BY <2>3, <2>4
<1>4. Line(desk \o wire \o carry \o native)
  <2>1. /\ Line(desk \o wire)
        /\ ToSet(desk \o wire) = ToSet(desk) \cup ToSet(wire)
    BY ConcatLine DEF RelayInv, LinesOK, Below
  <2>2. Below(ToSet(desk \o wire), ToSet(carry))
    BY <2>1 DEF RelayInv, LinesOK, Below
  <2>3. /\ Line(desk \o wire \o carry)
        /\ ToSet(desk \o wire \o carry) = ToSet(desk) \cup ToSet(wire) \cup ToSet(carry)
    BY <2>1, <2>2, ConcatLine DEF RelayInv, LinesOK
  <2>4. Below(ToSet(desk \o wire \o carry), ToSet(native))
    BY <2>3 DEF RelayInv, LinesOK, Below
  <2>5. QED
    BY <2>3, <2>4, ConcatLine DEF RelayInv, LinesOK
<1>5. ASSUME NEW line, Line(line)
      PROVE  \A i, j \in DOMAIN line : i < j => line[i] < line[j]
  BY <1>5, LenProperties DEF Line
<1>6. mode = "exit" /\ ~dead => native = <<>> /\ carry = <<>> /\ inFlight = {}
  BY DEF RelayInv, ModesOK
<1> QED
  BY <1>1, <1>3, <1>4, <1>5, <1>6 DEF AnswersAreHonest

\* Every accepted request is answered exactly once and never replayed, a
\* refused one never reaches the desk, a result is of a request that ran once,
\* frames keep their order and the relay leaves nothing behind
\* (slp-desk-mcp.mjs, the header comment on lines 26-31).
THEOREM AnsweredHonestly == RelaySpec => []AnswersAreHonest
BY EachFrameInOnePlace, HonestFromInv, PTL

=============================================================================
