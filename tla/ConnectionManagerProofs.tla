---------------------- MODULE ConnectionManagerProofs ----------------------
(***************************************************************************)
(* Machine-checked proofs about ConnectionManager, for any number of       *)
(* threads, calls and sessions and whichever calls fail.                   *)
(***************************************************************************)
EXTENDS ConnectionManager, TLAPS

\* What the proofs need to know of the constants.
LEMMA Constants ==
  /\ Main \in Thread /\ Workers \subseteq Thread
  /\ None \notin Thread
  /\ MaxAttempts \in Nat /\ MaxCalls \in Nat /\ Tries \in 1 .. Tries
  /\ \A s \in Session : s \in Nat /\ s # 0
BY ConstantsAssumption DEF Thread, Session

\* An event is one more listener thread.
LEMMA EmitType ==
  ASSUME TypeOK, NEW st \in ConnectionState, Emit(st)
  PROVE /\ shown' \in ConnectionState
        /\ syncs' \in [ConnectionState \X (1 .. Tries) -> Nat]
BY Constants DEF TypeOK, Emit

\* The temporary files of an attempt.
LEMMA FilesType ==
  ASSUME TypeOK, NEW a \in Session, NEW b \in BOOLEAN, PrepareFiles(a, b)
  PROVE files' \in SUBSET File /\ runtime' \in SUBSET File
BY DEF TypeOK, PrepareFiles, File

\* The number of a new attempt is that of a session.
LEMMA NewSession ==
  ASSUME TypeOK, SpawnInv, NEW t \in Thread, pc[t] = "spawn"
  PROVE attempts + 1 \in Session /\ attempts + 1 \in 0 .. MaxAttempts
BY Constants DEF TypeOK, SpawnInv, Session

-----------------------------------------------------------------------------
(* Type correctness *)

LEMMA TypeInit == Init => TypeOK
<1> SUFFICES ASSUME Init PROVE TypeOK
  OBVIOUS
<1>1. log \in [Session -> Seq(Line)]
  <2>1. <<>> \in Seq(Line)
    OBVIOUS
  <2> QED
    BY <2>1 DEF Init
<1>2. pc \in [Thread -> Pc] /\ victim \in [Thread -> Session \cup {0}]
  BY DEF Init, Pc
<1>3. /\ stop \in [Session -> BOOLEAN] /\ bw \in [Session -> BOOLEAN]
      /\ pos \in [Session -> Nat]
      /\ mon \in [Session -> {"none", "opening", "reading", "line", "ended"}]
      /\ proc \in [Session -> {"none", "alive", "dead"}]
      /\ syncs \in [ConnectionState \X (1 .. Tries) -> Nat]
  BY DEF Init
<1>4. state \in ConnectionState /\ shown \in ConnectionState /\ running \in BOOLEAN
  BY DEF Init, ConnectionState
<1>5. calls \in 0 .. MaxCalls /\ attempts \in 0 .. MaxAttempts
  BY Constants DEF Init
<1> QED
  BY <1>1, <1>2, <1>3, <1>4, <1>5 DEF Init, TypeOK

\* Calls of the user.
LEMMA TypeCalls ==
  ASSUME TypeOK, NEW t \in Thread,
         NEW l \in {"lockConnect", "lockBegin", "lockQuery", "lockDisconnect",
                    "lockQuit"},
         Call(t, l), quitter' \in Workers \cup {None}
  PROVE TypeOK'
BY Constants DEF TypeOK, Call, Goto, Pc, Waiting, mgrVars, pmVars, monVars,
                 vpnVars, evVars

\* Steps of a thread that announce no state and start nothing.
LEMMA TypeQuiet ==
  ASSUME TypeOK, NEW t \in Thread,
         \/ Query \/ ConnectRejected(t) \/ ConnectIcon(t) \/ NoSecret(t)
         \/ FinishDisconnect(t) \/ DisconnectIcon(t) \/ Unlock(t)
         \/ QuitCheck(t) \/ Exit(t)
  PROVE TypeOK'
<1> USE Constants DEF TypeOK, Goto, Pc, Waiting, Holding, Icon, mgrVars,
                      pmVars, monVars, vpnVars, evVars, thrVars
<1>1. CASE Query BY <1>1 DEF Query
<1>2. CASE ConnectRejected(t) BY <1>2 DEF ConnectRejected
<1>3. CASE ConnectIcon(t) BY <1>3 DEF ConnectIcon
<1>4. CASE NoSecret(t) BY <1>4 DEF NoSecret
<1>5. CASE FinishDisconnect(t) BY <1>5 DEF FinishDisconnect
<1>6. CASE DisconnectIcon(t) BY <1>6 DEF DisconnectIcon
<1>7. CASE Unlock(t) BY <1>7 DEF Unlock
<1>8. CASE QuitCheck(t) BY <1>8 DEF QuitCheck
<1>9. CASE Exit(t) BY <1>9 DEF Exit
<1> QED
  BY <1>1, <1>2, <1>3, <1>4, <1>5, <1>6, <1>7, <1>8, <1>9
\* Steps of a thread that announce a state.
LEMMA TypeAnnounce ==
  ASSUME TypeOK, NEW t \in Thread,
         \/ Connect(t) \/ BeginDisconnect \/ Disconnect(t) \/ Killed(t)
         \/ KillUnheard(t) \/ KillFailed(t)
  PROVE TypeOK'
<1>0. {"Connecting", "Disconnecting", "Disconnected", "Error"} \subseteq ConnectionState
  BY DEF ConnectionState
<1> USE Constants, EmitType DEF TypeOK, Goto, Pc, Waiting, Holding, Icon, mgrVars,
        pmVars, monVars, vpnVars, thrVars
<1>1. CASE Connect(t)
  BY <1>0, <1>1 DEF Connect, SetState
<1>2. CASE BeginDisconnect
  BY <1>0, <1>2 DEF BeginDisconnect, SetState
<1>3. CASE Disconnect(t)
  BY <1>0, <1>3 DEF Disconnect, SetState
<1>4. CASE Killed(t)
  BY <1>0, <1>4 DEF Killed, SetState
<1>5. CASE KillFailed(t)
  BY <1>0, <1>5 DEF KillFailed, SetState
<1>6. CASE KillUnheard(t)
  BY <1>0, <1>6 DEF KillUnheard, SetState
<1> QED
  BY <1>1, <1>2, <1>3, <1>4, <1>5, <1>6

\* The two ways a spawn ends, and the first half of a kill.
LEMMA TypeSpawn ==
  ASSUME TypeOK, SpawnInv, NEW t \in Thread, Spawned(t) \/ SpawnError(t)
  PROVE TypeOK'
<1> DEFINE a == attempts + 1
<1>1. /\ a \in Session /\ a \in 0 .. MaxAttempts /\ attempts' = a /\ attempts \in Nat
      /\ <<"log", a>> \in File
  BY NewSession DEF Spawned, SpawnError, TypeOK, File
<1>2. files' \in SUBSET File /\ runtime' \in SUBSET File
  BY <1>1, FilesType DEF Spawned, SpawnError
<1> HIDE DEF a
<1>3. pc' \in [Thread -> Pc]
  BY ZenonT(40) DEF Spawned, SpawnError, TypeOK, Goto, Pc, Holding, Icon
<1>4. CASE Spawned(t)
  <2>1. pid' = a /\ cur' = a /\ a \in 0 .. a
    BY <1>1, <1>4 DEF Spawned, a
  <2> QED
    BY <1>1, <1>2, <1>3, <1>4, <2>1 DEF Spawned, TypeOK, evVars, a
<1>5. CASE SpawnError(t)
  <2>1. SetState("Error") /\ "Error" \in ConnectionState
    BY <1>5 DEF SpawnError, ConnectionState
  <2>2. /\ state' \in ConnectionState /\ shown' \in ConnectionState
        /\ syncs' \in [ConnectionState \X (1 .. Tries) -> Nat]
    BY <2>1, EmitType DEF SetState
  <2>3. proc' \in [Session -> {"none", "alive", "dead"}]
    BY <1>1, <1>5 DEF SpawnError, TypeOK, a
  <2>4. cur' \in 0 .. a /\ pid' \in 0 .. a
    BY <1>1, <1>5 DEF SpawnError, TypeOK, a
  <2> QED
    BY <1>1, <1>2, <1>3, <1>5, <2>2, <2>3, <2>4 DEF SpawnError, TypeOK, monVars
<1> QED
  BY <1>4, <1>5

LEMMA TypeKill ==
  ASSUME TypeOK, NEW t \in Thread, KillVpn(t) PROVE TypeOK'
<1>1. stop' \in [Session -> BOOLEAN]
  BY DEF KillVpn
<1>2. pid \in Session \cup {0} /\ 0 \in 0 .. attempts
  BY Constants DEF TypeOK, Session
<1> QED
  BY <1>1, <1>2 DEF KillVpn, TypeOK, Goto, Pc, Holding, mgrVars, monVars, vpnVars,
                    evVars

\* The listener threads.
LEMMA TypeSync == ASSUME TypeOK, Sync PROVE TypeOK'
<1>1. PICK st \in ConnectionState, n \in 1 .. Tries :
        SyncApply(st, n) \/ SyncRetry(st, n)
  BY DEF Sync
<1>2. /\ syncs \in [ConnectionState \X (1 .. Tries) -> Nat]
      /\ <<st, n>> \in ConnectionState \X (1 .. Tries) /\ syncs[<<st, n>>] > 0
      /\ n # 1 => <<st, n - 1>> \in ConnectionState \X (1 .. Tries)
  BY <1>1, Constants DEF SyncApply, SyncRetry, TypeOK
<1>3. syncs' \in [ConnectionState \X (1 .. Tries) -> Nat]
  <2>1. CASE SyncApply(st, n)
    BY <1>2, <2>1 DEF SyncApply
  <2>2. CASE SyncRetry(st, n) /\ n = 1
    BY <1>2, <2>2 DEF SyncRetry
  <2>3. CASE SyncRetry(st, n) /\ n # 1
    BY <1>2, <2>3 DEF SyncRetry
  <2> QED
    BY <1>1, <2>1, <2>2, <2>3
<1> QED
  BY <1>1, <1>3 DEF SyncApply, SyncRetry, TypeOK, mgrVars, thrVars, pmVars, monVars,
                    vpnVars
\* The monitors and the VPN processes.
LEMMA TypeMonitor ==
  ASSUME TypeOK, NEW s \in Session, MonitorStep(s) \/ BandwidthStop(s)
  PROVE TypeOK'
<1>0. {"Connected", "WaitingSaml", "Disconnected"} \subseteq ConnectionState
  BY DEF ConnectionState
<1> USE DEF TypeOK, SetMon, mgrVars, thrVars, pmVars, vpnVars
<1>1. CASE MonitorOpen(s)
  BY <1>1 DEF MonitorOpen, evVars
<1>2. CASE MonitorRead(s)
  BY <1>2 DEF MonitorRead, evVars
<1>3. CASE MonitorLine(s)
  BY <1>0, <1>3, EmitType DEF MonitorLine
<1>4. CASE MonitorStop(s)
  BY <1>4 DEF MonitorStop, evVars
<1>5. CASE BandwidthStop(s)
  BY <1>5 DEF BandwidthStop, evVars
<1> QED
  BY <1>1, <1>2, <1>3, <1>4, <1>5 DEF MonitorStep

LEMMA TypeVpn ==
  ASSUME TypeOK, NEW s \in Session, VpnPrints(s) \/ VpnExits(s)
  PROVE TypeOK'
<1>0. {"up", "saml", "down"} \subseteq Line
  BY DEF Line
<1>1. log' \in [Session -> Seq(Line)]
  <2>1. \A l \in Line : Append(log[s], l) \in Seq(Line)
    BY DEF TypeOK
  <2>2. \/ log' = log
        \/ \E l \in Line : log' = [log EXCEPT ![s] = Append(log[s], l)]
    BY <1>0 DEF VpnPrints, VpnExits
  <2> QED
    BY <2>1, <2>2 DEF TypeOK
<1> QED
  BY <1>1 DEF VpnPrints, VpnExits, TypeOK, mgrVars, thrVars, pmVars, monVars, evVars

LEMMA TypeStep ==
  ASSUME TypeOK, SpawnInv, Next PROVE TypeOK'
<1>1. CASE WindowCall
  <2>1. quitter' \in Workers \cup {None}
    BY <1>1 DEF WindowCall, TypeOK
  <2> QED
    BY <1>1, <2>1, Constants, TypeCalls DEF WindowCall
<1>2. ASSUME NEW w \in Workers, TrayCall(w) PROVE TypeOK'
  <2>1. quitter' \in Workers \cup {None} /\ w \in Thread
    BY <1>2, Constants DEF TrayCall, TypeOK
  <2> QED
    BY <1>2, <2>1, TypeCalls DEF TrayCall
<1>3. ASSUME NEW t \in Thread, ThreadStep(t) PROVE TypeOK'
  BY <1>3, TypeQuiet, TypeAnnounce, TypeSpawn, TypeKill DEF ThreadStep
<1>4. CASE Query \/ BeginDisconnect
  BY <1>4, Constants, TypeQuiet, TypeAnnounce
<1>5. CASE Terminated
  BY <1>5 DEF Terminated, vars, TypeOK, mgrVars, thrVars, pmVars, monVars, vpnVars,
              evVars
<1> QED
  BY <1>1, <1>2, <1>3, <1>4, <1>5, TypeSync, TypeMonitor, TypeVpn DEF Next

-----------------------------------------------------------------------------
(* Mutual exclusion *)

\* A thread moves on, takes the mutex or gives it back.
LockMove(t) ==
  \E l \in Pc :
    /\ Goto(t, l)
    /\ \/ mutex' = mutex /\ (pc[t] \in Holding <=> l \in Holding)
       \/ mutex = None /\ mutex' = t /\ l \in Holding
       \/ mutex' = None /\ pc[t] \in Holding /\ l \notin Holding

\* The command of the window starts a task for the second half of a disconnect.
StartTask ==
  \E w \in Workers :
    /\ pc[w] = "idle" /\ pc[Main] = "lockBegin" /\ mutex' = mutex
    /\ pc' = [pc EXCEPT ![Main] = "idle", ![w] = "lockFinish"]

LEMMA LockSteps ==
  ASSUME TypeOK, Next
  PROVE UNCHANGED <<pc, mutex>> \/ StartTask \/ \E t \in Thread : LockMove(t)
<1> USE DEF Pc, Waiting, Holding, Icon
<1>1. ASSUME NEW t \in Thread, ThreadStep(t) \/ Query
      PROVE UNCHANGED <<pc, mutex>> \/ \E u \in Thread : LockMove(u)
  <2> USE DEF LockMove
  <2>1. CASE ConnectRejected(t) \/ Connect(t) \/ ConnectIcon(t) \/ NoSecret(t)
    BY <2>1 DEF ConnectRejected, Connect, ConnectIcon, NoSecret, mgrVars
  <2>2. CASE Spawned(t) \/ SpawnError(t)
    BY <2>2 DEF Spawned, SpawnError
  <2>3. CASE FinishDisconnect(t) \/ Disconnect(t) \/ DisconnectIcon(t)
    BY <2>3 DEF FinishDisconnect, Disconnect, DisconnectIcon, mgrVars
  <2>4. CASE KillVpn(t) \/ Killed(t) \/ KillUnheard(t) \/ KillFailed(t)
    BY <2>4 DEF KillVpn, Killed, KillUnheard, KillFailed, mgrVars
  <2>5. CASE Unlock(t)
    BY <2>5 DEF Unlock
  <2>6. CASE QuitCheck(t)
    BY <2>6 DEF QuitCheck, mgrVars
  <2>7. CASE Exit(t)
    BY <2>7 DEF Exit, mgrVars, thrVars
  <2>8. CASE Query
    BY <2>8, Constants DEF Query, mgrVars
  <2> QED
    BY <1>1, <2>1, <2>2, <2>3, <2>4, <2>5, <2>6, <2>7, <2>8 DEF ThreadStep
<1>2. CASE WindowCall
  BY <1>2, Constants DEF WindowCall, Call, mgrVars, LockMove
<1>3. ASSUME NEW w \in Workers, TrayCall(w)
      PROVE LockMove(w)
  BY <1>3 DEF TrayCall, Call, mgrVars, LockMove
<1>4. CASE BeginDisconnect
  BY <1>4 DEF BeginDisconnect, StartTask
<1>5. CASE Sync \/ Terminated
  BY <1>5 DEF Sync, SyncApply, SyncRetry, Terminated, vars, mgrVars, thrVars
<1>6. ASSUME NEW s \in Session, MonitorStep(s) \/ BandwidthStop(s)
      PROVE UNCHANGED <<pc, mutex>>
  BY <1>6 DEF MonitorStep, MonitorOpen, MonitorRead, MonitorLine, MonitorStop,
              BandwidthStop, mgrVars, thrVars
<1>7. ASSUME NEW s \in Session, VpnPrints(s) \/ VpnExits(s)
      PROVE UNCHANGED <<pc, mutex>>
  BY <1>7 DEF VpnPrints, VpnExits, mgrVars, thrVars
<1> HIDE DEF Pc, Waiting, Holding, Icon
<1> QED
  BY <1>1, <1>2, <1>3, <1>4, <1>5, <1>6, <1>7, Constants DEF Next

LEMMA HolderStep ==
  ASSUME TypeOK, OneHolder, Next PROVE OneHolder'
<1>0. pc \in [Thread -> Pc] /\ Main \in Thread /\ None \notin Thread
      /\ Workers \subseteq Thread
  BY Constants DEF TypeOK
<1>1. "idle" \notin Holding /\ "lockFinish" \notin Holding
      /\ "lockBegin" \notin Holding
  BY DEF Holding, Icon
<1> QED
  BY <1>0, <1>1, LockSteps DEF OneHolder, Goto, LockMove, StartTask
-----------------------------------------------------------------------------
(* The bookkeeping of the sessions *)

\* The steps that read or change it.
BookStep(t) == \/ Connect(t) \/ ConnectIcon(t) \/ Spawned(t) \/ SpawnError(t)
               \/ KillVpn(t) \/ Killed(t) \/ KillUnheard(t)

\* Where a thread relies on it.
Relying == {"iconConnecting", "spawn", "killing"}

\* All other steps leave it alone, start no monitor anew and let no thread rely
\* on it that did not before.
OffTheBooks ==
  /\ UNCHANGED <<attempts, cur, pid, stop, logPath, runtime, files>>
  /\ \A t \in Thread : pc'[t] \in Relying => pc'[t] = pc[t]
  /\ \A s \in Session : mon[s] # "none" => mon'[s] # "none"

LEMMA OtherSteps ==
  ASSUME TypeOK, Next, \A t \in Thread : ~BookStep(t) PROVE OffTheBooks
<1>0. /\ pc \in [Thread -> Pc] /\ Main \in Thread /\ Workers \subseteq Thread
      /\ mon \in [Session -> {"none", "opening", "reading", "line", "ended"}]
  BY Constants DEF TypeOK
<1> USE <1>0 DEF OffTheBooks, Relying, pmVars
<1>1. ASSUME NEW t \in Thread, ThreadStep(t) PROVE OffTheBooks
  <2> USE DEF Goto, monVars
  <2>1. CASE ConnectRejected(t) \/ NoSecret(t)
    BY <2>1 DEF ConnectRejected, NoSecret
  <2>2. CASE FinishDisconnect(t) \/ Disconnect(t) \/ DisconnectIcon(t)
    BY <2>2 DEF FinishDisconnect, Disconnect, DisconnectIcon
  <2>3. CASE KillFailed(t) \/ Unlock(t)
    BY <2>3 DEF KillFailed, Unlock
  <2>4. CASE QuitCheck(t) \/ Exit(t)
    BY <2>4 DEF QuitCheck, Exit, thrVars
  <2> QED
    BY <1>1, <2>1, <2>2, <2>3, <2>4 DEF ThreadStep, BookStep
<1>2. CASE WindowCall
  BY <1>2 DEF WindowCall, Call, Goto, monVars
<1>3. ASSUME NEW w \in Workers, TrayCall(w) PROVE OffTheBooks
  BY <1>3 DEF TrayCall, Call, Goto, monVars
<1>4. CASE Query \/ BeginDisconnect
  BY <1>4 DEF Query, BeginDisconnect, Goto, monVars
<1>5. CASE Sync \/ Terminated
  BY <1>5 DEF Sync, SyncApply, SyncRetry, Terminated, vars, thrVars, monVars
<1>6. ASSUME NEW s \in Session, MonitorStep(s) \/ BandwidthStop(s)
      PROVE OffTheBooks
  BY <1>6 DEF MonitorStep, MonitorOpen, MonitorRead, MonitorLine, MonitorStop,
              BandwidthStop, SetMon, thrVars
<1>7. ASSUME NEW s \in Session, VpnPrints(s) \/ VpnExits(s) PROVE OffTheBooks
  BY <1>7 DEF VpnPrints, VpnExits, thrVars, monVars
<1> QED
  BY <1>1, <1>2, <1>3, <1>4, <1>5, <1>6, <1>7 DEF Next

\* While a thread is inside its lock section no other one is in its own.
LEMMA Alone ==
  ASSUME OneHolder, NEW t \in Thread, NEW u \in Thread,
         pc[t] \in Holding, pc[u] \in Holding
  PROVE t = u
BY DEF OneHolder

LEMMA SpawnStep ==
  ASSUME IInv, NEW t \in Thread, Spawned(t) \/ SpawnError(t)
  PROVE SpawnInv' /\ KillInv' /\ FreshInv' /\ TrackedIsWatched' /\ ConfsTracked'
<1> DEFINE a == attempts + 1
<1>1. /\ pc \in [Thread -> Pc] /\ attempts \in Nat /\ a \in Session /\ attempts' = a
      /\ pc[t] = "spawn" /\ stop' = stop
      /\ \A u \in Thread : pc'[u] \in Relying => u # t /\ pc'[u] = pc[u]
  BY NewSession DEF IInv, TypeOK, Spawned, SpawnError, Goto, Relying
<1>2. \A u \in Thread : pc'[u] \notin Relying
  BY <1>1, Alone DEF IInv, Relying, Holding, Icon
<1>3. SpawnInv' /\ KillInv'
  BY <1>2 DEF SpawnInv, KillInv, Relying
<1>4. FreshInv'
  BY <1>1, Constants DEF FreshInv, IInv
<1>5. TrackedIsWatched'
  <2>1. CASE Spawned(t)
    <3>1. pid' = a /\ cur' = a /\ logPath' = {<<"log", a>>} /\ ~stop'[a]
      BY <1>1, <2>1 DEF Spawned, FreshInv, IInv
    <3>2. mon'[a] # "none"
      BY <1>1, <2>1 DEF Spawned, TypeOK, IInv
    <3> QED
      BY <3>1, <3>2 DEF TrackedIsWatched
  <2>2. CASE SpawnError(t)
    BY <2>2 DEF SpawnError, TrackedIsWatched, IInv, monVars
  <2> QED
    BY <2>1, <2>2
<1>6. ConfsTracked'
  <2>1. PICK b \in BOOLEAN : PrepareFiles(a, b)
    BY DEF Spawned, SpawnError
  <2> QED
    BY <2>1 DEF PrepareFiles, ConfsTracked, IInv
<1> QED
  BY <1>3, <1>4, <1>5, <1>6

LEMMA KillStep ==
  ASSUME IInv, NEW t \in Thread,
         KillVpn(t) \/ Killed(t) \/ KillUnheard(t)
  PROVE SpawnInv' /\ KillInv' /\ FreshInv' /\ TrackedIsWatched' /\ ConfsTracked'
<1>1. CASE KillVpn(t)
  <2>1. pc \in [Thread -> Pc] /\ attempts \in Nat /\ cur \in 0 .. attempts
        /\ \A s \in Session : s \in Nat
    BY Constants DEF IInv, TypeOK
  <2>2. SpawnInv' /\ KillInv'
    BY <1>1, <2>1 DEF KillVpn, Goto, SpawnInv, KillInv, IInv
  <2>3. FreshInv'
    <3>1. ASSUME NEW s \in Session, s > attempts
          PROVE ~stop[s] /\ s # cur
      BY <2>1, <3>1 DEF FreshInv, IInv
    <3>2. ASSUME NEW s \in Session, ~stop[s], s # cur
          PROVE ~stop'[s]
      BY <1>1, <3>2, Zenon DEF KillVpn
    <3>3. attempts' = attempts
      BY <1>1 DEF KillVpn
    <3> QED
      BY <3>1, <3>2, <3>3 DEF FreshInv
  <2> QED
    BY <1>1, <2>2, <2>3 DEF KillVpn, TrackedIsWatched, ConfsTracked, IInv
<1>2. CASE Killed(t) \/ KillUnheard(t)
  <2>1. pc \in [Thread -> Pc] /\ pid = 0 /\ pid' = 0
    BY <1>2 DEF IInv, TypeOK, KillInv, Killed, KillUnheard
  <2>2. SpawnInv' /\ KillInv'
    BY <1>2, <2>1 DEF Killed, KillUnheard, Goto, SpawnInv, KillInv, IInv
  <2>3. FreshInv' /\ TrackedIsWatched'
    BY <1>2, <2>1 DEF Killed, KillUnheard, FreshInv, TrackedIsWatched, IInv
  <2>4. ConfsTracked'
    BY <1>2 DEF Killed, KillUnheard, ConfsTracked, IInv
  <2> QED
    BY <2>2, <2>3, <2>4
<1> QED
  BY <1>1, <1>2

LEMMA ConnectStep ==
  ASSUME IInv, NEW t \in Thread, Connect(t) \/ ConnectIcon(t)
  PROVE SpawnInv' /\ KillInv' /\ FreshInv' /\ TrackedIsWatched' /\ ConfsTracked'
<1>1. pc \in [Thread -> Pc]
  BY DEF IInv, TypeOK
<1>2. /\ UNCHANGED <<attempts, cur, pid, stop, logPath, runtime, files, mon>>
      /\ FreshInv /\ TrackedIsWatched /\ ConfsTracked
  BY DEF Connect, ConnectIcon, pmVars, monVars, IInv
<1>3. SpawnInv' /\ KillInv'
  BY <1>1, <1>2 DEF Connect, ConnectIcon, Goto, SpawnInv, KillInv, IInv
<1>4. FreshInv' /\ TrackedIsWatched' /\ ConfsTracked'
  BY <1>2 DEF FreshInv, TrackedIsWatched, ConfsTracked
<1> QED
  BY <1>3, <1>4

LEMMA OffTheBooksStep ==
  ASSUME IInv, OffTheBooks
  PROVE SpawnInv' /\ KillInv' /\ FreshInv' /\ TrackedIsWatched' /\ ConfsTracked'
<1>1. SpawnInv' /\ KillInv'
  BY DEF OffTheBooks, Relying, SpawnInv, KillInv, IInv
<1>2. FreshInv' /\ ConfsTracked'
  BY DEF OffTheBooks, FreshInv, ConfsTracked, IInv
<1>3. TrackedIsWatched'
  <2>1. pid # 0 => pid \in Session
    BY Constants DEF IInv, TypeOK, Session
  <2> QED
    BY <2>1 DEF OffTheBooks, TrackedIsWatched, IInv
<1> QED
  BY <1>1, <1>2, <1>3

-----------------------------------------------------------------------------
(* The theorems *)

LEMMA InvInit == Init => IInv
<1> SUFFICES ASSUME Init PROVE IInv
  OBVIOUS
<1>1. OneHolder
  BY Constants DEF Init, OneHolder, Holding, Icon
<1>2. SpawnInv /\ KillInv /\ FreshInv
  BY DEF Init, SpawnInv, KillInv, FreshInv
<1>3. TrackedIsWatched /\ ConfsTracked
  BY DEF Init, TrackedIsWatched, ConfsTracked
<1> QED
  BY <1>1, <1>2, <1>3, TypeInit DEF IInv

LEMMA InvStep == IInv /\ [Next]_vars => IInv'
<1> SUFFICES ASSUME IInv, [Next]_vars PROVE IInv'
  OBVIOUS
<1>1. CASE Next
  <2>1. TypeOK' /\ OneHolder'
    BY <1>1, TypeStep, HolderStep DEF IInv
  <2>2. CASE \E t \in Thread : BookStep(t)
    BY <2>1, <2>2, SpawnStep, KillStep, ConnectStep DEF BookStep, IInv
  <2>3. CASE \A t \in Thread : ~BookStep(t)
    <3>1. OffTheBooks
      BY <1>1, <2>3, OtherSteps DEF IInv
    <3> QED
      BY <2>1, <3>1, OffTheBooksStep DEF IInv
  <2> QED
    BY <2>2, <2>3
<1>2. CASE UNCHANGED vars
  <2>2. TypeOK'
    BY <1>2 DEF IInv, TypeOK, vars, mgrVars, thrVars, pmVars, monVars, vpnVars, evVars
  <2>3. OneHolder'
    BY <1>2 DEF IInv, OneHolder, vars, mgrVars, thrVars
  <2>4. OffTheBooks
    BY <1>2 DEF OffTheBooks, vars, thrVars, pmVars, monVars
  <2> QED
    BY <2>2, <2>3, <2>4, OffTheBooksStep DEF IInv
<1> QED
  BY <1>1, <1>2

\* The inductive invariant of the connection core.
THEOREM Invariant == Spec => []IInv
BY InvInit, InvStep, PTL DEF Spec

\* Every variable keeps its type, whatever the bounds.
THEOREM TypeCorrect == Spec => []TypeOK
<1>1. IInv => TypeOK
  BY DEF IInv
<1> QED
  BY <1>1, Invariant, PTL

\* However many threads of window and tray there are, the lock sections of
\* VpnManager exclude each other, and nobody keeps the mutex outside of one.
THEOREM MutualExclusion == Spec => []OneHolder
<1>1. IInv => OneHolder
  BY DEF IInv
<1> QED
  BY <1>1, Invariant, PTL

\* The pid the manager would kill, the stop flag, the monitor and the log file
\* always belong to one session.
THEOREM TrackedSessionIsWatched == Spec => []TrackedIsWatched
<1>1. IInv => TrackedIsWatched
  BY DEF IInv
<1> QED
  BY <1>1, Invariant, PTL

\* No failure makes the manager forget an OpenSSL configuration it wrote.
THEOREM ConfigurationsAreTracked == Spec => []ConfsTracked
<1>1. IInv => ConfsTracked
  BY DEF IInv
<1> QED
  BY <1>1, Invariant, PTL
-----------------------------------------------------------------------------
(* What the window shows *)

\* The steps that start or end a session, or fail to.
SessionStep(t) == BookStep(t) \/ NoSecret(t) \/ KillFailed(t)

LEMMA OtherEvents ==
  ASSUME TypeOK, Next, \A t \in Thread : ~SessionStep(t)
  PROVE /\ pid' = pid /\ (shown' = "Connecting" => shown = "Connecting")
        /\ running' => running
        /\ \A t \in Thread :
             /\ pc[t] \in Holding \ {"iconEnd"} => pc'[t] \in Holding
             /\ pc'[t] = "iconEnd" => pc[t] = "iconEnd"
<1> DEFINE Same == /\ pid' = pid /\ (shown' = "Connecting" => shown = "Connecting")
                   /\ running' => running
                   /\ \A t \in Thread :
                        /\ pc[t] \in Holding \ {"iconEnd"} => pc'[t] \in Holding
                        /\ pc'[t] = "iconEnd" => pc[t] = "iconEnd"
<1>0. pc \in [Thread -> Pc] /\ Main \in Thread /\ Workers \subseteq Thread
  BY Constants DEF TypeOK
<1>1. ASSUME NEW t \in Thread, ThreadStep(t) PROVE Same
  <2> USE <1>0 DEF Goto, pmVars, evVars, SetState, Emit, Holding, Icon
  <2>1. CASE ConnectRejected(t)
    BY <2>1 DEF ConnectRejected
  <2>2. CASE FinishDisconnect(t)
    BY <2>2 DEF FinishDisconnect
  <2>3. CASE Disconnect(t)
    BY <2>3 DEF Disconnect
  <2>4. CASE DisconnectIcon(t)
    BY <2>4 DEF DisconnectIcon
  <2>5. CASE Unlock(t)
    BY <2>5 DEF Unlock
  <2>6. CASE QuitCheck(t)
    BY <2>6 DEF QuitCheck
  <2>7. CASE Exit(t)
    BY <2>7 DEF Exit, thrVars
  <2> QED
    BY <1>1, <2>1, <2>2, <2>3, <2>4, <2>5, <2>6, <2>7 DEF ThreadStep, SessionStep,
                                                          BookStep
<1>2. CASE WindowCall
  BY <1>0, <1>2 DEF WindowCall, Call, Goto, pmVars, evVars, Holding, Icon
<1>3. ASSUME NEW w \in Workers, TrayCall(w) PROVE Same
  BY <1>0, <1>3 DEF TrayCall, Call, Goto, pmVars, evVars, Holding, Icon
<1>4. CASE Query \/ BeginDisconnect
  BY <1>0, <1>4 DEF Query, BeginDisconnect, SetState, Emit, Goto, pmVars, evVars, Holding,
                    Icon
<1>5. CASE Sync
  BY <1>5 DEF Sync, SyncApply, SyncRetry, thrVars, pmVars
<1>8. CASE Terminated
  BY <1>8 DEF Terminated, vars, thrVars, pmVars, evVars
<1>6. ASSUME NEW s \in Session, MonitorStep(s) \/ BandwidthStop(s) PROVE Same
  BY <1>6 DEF MonitorStep, MonitorOpen, MonitorRead, MonitorLine, MonitorStop,
              BandwidthStop, Emit, thrVars, pmVars, evVars, Holding, Icon
<1>7. ASSUME NEW s \in Session, VpnPrints(s) \/ VpnExits(s) PROVE Same
  BY <1>7 DEF VpnPrints, VpnExits, thrVars, pmVars, evVars, Holding, Icon
<1> QED
  BY <1>1, <1>2, <1>3, <1>4, <1>5, <1>6, <1>7, <1>8 DEF Next

\* Who leaves the mutex has announced something other than Connecting.
LEMMA ResultStep ==
  ASSUME IInv, ResultInv, Next PROVE ResultInv'
<1>0. pc \in [Thread -> Pc] /\ None \notin Thread
  BY Constants DEF IInv, TypeOK
<1>1. ASSUME NEW t \in Thread, Connect(t) PROVE ResultInv'
  <2>1. \A u \in Thread : pc[u] \notin Holding
    BY <1>0, <1>1 DEF Connect, IInv, OneHolder
  <2> QED
    BY <1>0, <1>1, <2>1 DEF Connect, Goto, ResultInv, Holding, Icon
<1>2. ASSUME NEW t \in Thread, ConnectIcon(t) \/ Spawned(t) \/ NoSecret(t)
      PROVE ResultInv'
  BY <1>0, <1>2 DEF ConnectIcon, Spawned, NoSecret, Goto, ResultInv, evVars
<1>3. ASSUME NEW t \in Thread,
             SpawnError(t) \/ Killed(t) \/ KillUnheard(t) \/ KillFailed(t)
      PROVE ResultInv'
  BY <1>3 DEF SpawnError, Killed, KillUnheard, KillFailed, SetState, Emit, ResultInv
<1>4. ASSUME NEW t \in Thread, KillVpn(t) PROVE ResultInv'
  BY <1>0, <1>4 DEF KillVpn, Goto, ResultInv, evVars
<1>5. CASE \A t \in Thread : ~SessionStep(t)
  BY <1>5, OtherEvents DEF ResultInv, IInv
<1> QED
  BY <1>1, <1>2, <1>3, <1>4, <1>5 DEF SessionStep, BookStep

LEMMA StrandStep ==
  ASSUME IInv, ResultInv, Next, ~Stranded, Stranded'
  PROVE \E t \in Thread : NoSecret(t)
<1>0. /\ pc \in [Thread -> Pc] /\ None \notin Thread /\ mutex \in Thread \cup {None}
      /\ shown' = "Connecting" /\ pid' = 0 /\ mutex' = None /\ running'
  BY Constants DEF IInv, TypeOK, Stranded
<1>1. ASSUME NEW t \in Thread, Connect(t) \/ ConnectIcon(t) PROVE FALSE
  BY <1>0, <1>1 DEF Connect, ConnectIcon, Stranded, mgrVars, pmVars, evVars
<1>2. ASSUME NEW t \in Thread, Spawned(t) PROVE FALSE
  <2>1. attempts + 1 \in Session /\ pid' = attempts + 1
    BY <1>2, NewSession DEF Spawned, IInv
  <2> QED
    BY <1>0, <2>1, Constants
<1>3. ASSUME NEW t \in Thread,
             SpawnError(t) \/ Killed(t) \/ KillUnheard(t) \/ KillFailed(t)
      PROVE FALSE
  BY <1>0, <1>3 DEF SpawnError, Killed, KillUnheard, KillFailed, SetState, Emit
<1>4. ASSUME NEW t \in Thread, KillVpn(t) PROVE FALSE
  <2>1. mutex = t /\ mutex' = mutex
    BY <1>4 DEF KillVpn, mgrVars, IInv, OneHolder, Holding
  <2> QED
    BY <1>0, <2>1
<1>5. CASE \A t \in Thread : ~SessionStep(t)
  <2>1. pid = 0 /\ shown = "Connecting" /\ running
    BY <1>0, <1>5, OtherEvents DEF IInv
  <2>2. \A t \in Thread : pc'[t] \notin Holding
    BY <1>0, HolderStep DEF IInv, OneHolder
  <2>3. \A t \in Thread : pc[t] \notin Holding
    BY <1>5, <2>1, <2>2, OtherEvents DEF IInv, ResultInv
  <2>4. mutex = None
    BY <1>0, <2>3 DEF IInv, OneHolder
  <2> QED
    BY <2>1, <2>4 DEF Stranded
<1> QED
  BY <1>1, <1>2, <1>3, <1>4, <1>5 DEF SessionStep, BookStep

\* Whatever fails, the window is left in Connecting with nothing behind it only by
\* the early returns of connect for want of a PIN or a certificate.
THEOREM OnlySecretsStrand == Spec => StrandedBySecret
<1>1. Init => ResultInv
  BY DEF Init, ResultInv
<1>2. IInv /\ ResultInv /\ [Next]_vars => ResultInv'
  <2>1. ResultInv /\ UNCHANGED vars => ResultInv'
    BY DEF ResultInv, vars, thrVars, evVars
  <2> QED
    BY <2>1, ResultStep
<1>3. IInv /\ ResultInv /\ [Next]_vars
      => [~Stranded /\ Stranded' => \E t \in Thread : NoSecret(t)]_vars
  BY StrandStep
<1> QED
  BY <1>1, <1>2, <1>3, Invariant, PTL DEF Spec, StrandedBySecret
-----------------------------------------------------------------------------
(* Lost processes *)

\* The steps that touch a process or what is known of it.
LEMMA ProcessSteps ==
  ASSUME TypeOK, Next, \A t \in Thread : ~(BookStep(t) \/ KillFailed(t))
  PROVE /\ UNCHANGED <<pid, victim>>
        /\ \A s \in Session : proc'[s] = "alive" => proc[s] = "alive"
        /\ \A t \in Thread : pc[t] = "killing" => pc'[t] = "killing"
<1> DEFINE Same == /\ UNCHANGED <<pid, victim>>
                   /\ \A s \in Session : proc'[s] = "alive" => proc[s] = "alive"
                   /\ \A t \in Thread : pc[t] = "killing" => pc'[t] = "killing"
<1>0. /\ pc \in [Thread -> Pc] /\ Main \in Thread /\ Workers \subseteq Thread
      /\ proc \in [Session -> {"none", "alive", "dead"}]
  BY Constants DEF TypeOK
<1>1. ASSUME NEW t \in Thread, ThreadStep(t) PROVE Same
  <2> USE <1>0 DEF Goto, pmVars, vpnVars
  <2>1. CASE ConnectRejected(t) \/ NoSecret(t)
    BY <2>1 DEF ConnectRejected, NoSecret
  <2>2. CASE FinishDisconnect(t) \/ Disconnect(t) \/ DisconnectIcon(t)
    BY <2>2 DEF FinishDisconnect, Disconnect, DisconnectIcon
  <2>3. CASE Unlock(t) \/ QuitCheck(t)
    BY <2>3 DEF Unlock, QuitCheck
  <2>4. CASE Exit(t)
    BY <2>4 DEF Exit, thrVars
  <2> QED
    BY <1>1, <2>1, <2>2, <2>3, <2>4 DEF ThreadStep, BookStep
<1>2. CASE WindowCall
  BY <1>0, <1>2 DEF WindowCall, Call, Goto, pmVars, vpnVars
<1>3. ASSUME NEW w \in Workers, TrayCall(w) PROVE Same
  BY <1>0, <1>3 DEF TrayCall, Call, Goto, pmVars, vpnVars
<1>4. CASE Query \/ BeginDisconnect
  BY <1>0, <1>4 DEF Query, BeginDisconnect, Goto, pmVars, vpnVars
<1>5. CASE Sync \/ Terminated
  BY <1>5 DEF Sync, SyncApply, SyncRetry, Terminated, vars, thrVars, pmVars, vpnVars
<1>6. ASSUME NEW s \in Session, MonitorStep(s) \/ BandwidthStop(s) PROVE Same
  BY <1>6 DEF MonitorStep, MonitorOpen, MonitorRead, MonitorLine, MonitorStop,
              BandwidthStop, thrVars, pmVars, vpnVars
<1>7. ASSUME NEW s \in Session, VpnPrints(s) \/ VpnExits(s) PROVE Same
  BY <1>0, <1>7 DEF VpnPrints, VpnExits, thrVars, pmVars
<1> QED
  BY <1>1, <1>2, <1>3, <1>4, <1>5, <1>6, <1>7 DEF Next

LEMMA VictimStep ==
  ASSUME IInv, VictimInv, Next PROVE VictimInv'
<1>0. pc \in [Thread -> Pc] /\ victim \in [Thread -> Session \cup {0}]
  BY DEF IInv, TypeOK
<1>1. ASSUME NEW t \in Thread, Connect(t) \/ ConnectIcon(t)
      PROVE VictimInv'
  BY <1>0, <1>1 DEF Connect, ConnectIcon, Goto, VictimInv
<1>2. ASSUME NEW t \in Thread, Spawned(t) \/ SpawnError(t) PROVE VictimInv'
  BY <1>0, <1>2 DEF Spawned, SpawnError, Goto, VictimInv
<1>3. ASSUME NEW t \in Thread,
             KillVpn(t) \/ Killed(t) \/ KillUnheard(t) \/ KillFailed(t)
      PROVE VictimInv'
  BY <1>0, <1>3 DEF KillVpn, Killed, KillUnheard, KillFailed, Goto, VictimInv
<1>4. CASE \A t \in Thread : ~(BookStep(t) \/ KillFailed(t))
  BY <1>4, ProcessSteps DEF VictimInv, IInv
<1> QED
  BY <1>1, <1>2, <1>3, <1>4 DEF BookStep

LEMMA LossStep ==
  ASSUME IInv, VictimInv, Next, NEW s \in Session,
         Tracked(s) \/ proc[s] = "none", ~Tracked(s)', proc'[s] = "alive"
  PROVE \/ shown' = "Error" \/ s < cur'
        \/ \E t \in Thread : victim[t] = s /\ KillUnheard(t)
<1>0. /\ victim \in [Thread -> Session \cup {0}] /\ s \in Nat /\ s # 0
      /\ proc \in [Session -> {"none", "alive", "dead"}]
  BY Constants DEF IInv, TypeOK
<1>1. pid' # s /\ \A u \in Thread : victim'[u] # s
  BY DEF Tracked
<1>2. ASSUME NEW t \in Thread, Connect(t) \/ ConnectIcon(t) PROVE FALSE
  BY <1>1, <1>2 DEF Connect, ConnectIcon, Tracked, pmVars, vpnVars
<1>3. ASSUME NEW t \in Thread, Spawned(t) PROVE s < cur'
  <2>1. /\ attempts + 1 \in Session /\ attempts \in Nat /\ pid \in 0 .. attempts
        /\ pid' = attempts + 1 /\ cur' = attempts + 1 /\ victim' = victim
        /\ proc' = [proc EXCEPT ![attempts + 1] = "alive"]
    BY <1>3, NewSession DEF Spawned, IInv, TypeOK
  <2>2. proc[s] = "alive"
    BY <1>0, <1>1, <2>1
  <2>3. pid = s
    BY <1>1, <2>1, <2>2 DEF Tracked
  <2> QED
    BY <2>1, <2>3
<1>4. ASSUME NEW t \in Thread, SpawnError(t) \/ KillFailed(t) PROVE shown' = "Error"
  BY <1>4 DEF SpawnError, KillFailed, SetState, Emit
<1>5. ASSUME NEW t \in Thread, KillVpn(t) PROVE FALSE
  <2>1. victim[t] = 0
    BY <1>5 DEF KillVpn, VictimInv
  <2>2. victim' = [victim EXCEPT ![t] = pid] /\ proc' = proc
    BY <1>5 DEF KillVpn, vpnVars
  <2> QED
    BY <1>0, <1>1, <2>1, <2>2 DEF Tracked
<1>6. ASSUME NEW t \in Thread, Killed(t) PROVE FALSE
  <2>1. /\ victim' = [victim EXCEPT ![t] = 0] /\ pid' = pid
        /\ s # victim[t] /\ proc'[s] = proc[s]
    BY <1>0, <1>6 DEF Killed
  <2> QED
    BY <1>0, <1>1, <2>1 DEF Tracked
<1>7. ASSUME NEW t \in Thread, KillUnheard(t) PROVE victim[t] = s
  <2>1. /\ victim' = [victim EXCEPT ![t] = 0] /\ pid' = pid
        /\ proc'[s] = proc[s]
    BY <1>7 DEF KillUnheard, vpnVars
  <2> QED
    BY <1>0, <1>1, <2>1 DEF Tracked
<1>8. CASE \A t \in Thread : ~(BookStep(t) \/ KillFailed(t))
  BY <1>1, <1>8, ProcessSteps DEF Tracked, IInv
<1> QED
  BY <1>2, <1>3, <1>4, <1>5, <1>6, <1>7, <1>8 DEF BookStep

\* Whatever fails, a running openfortivpn drops out of the manager's books only
\* in a step that shows Error, behind a later session, or in the step that ignores
\* the result of its own last kill.
THEOREM NoSilentLoss == Spec => LossIsReported
<1>1. Init => VictimInv
  BY DEF Init, VictimInv
<1>2. IInv /\ VictimInv /\ [Next]_vars => VictimInv'
  <2>1. VictimInv /\ UNCHANGED vars => VictimInv'
    BY DEF VictimInv, vars, thrVars
  <2> QED
    BY <2>1, VictimStep
<1>3. IInv /\ VictimInv /\ [Next]_vars
      => [\A s \in Session :
            /\ Tracked(s) \/ proc[s] = "none"
            /\ ~Tracked(s)' /\ proc'[s] = "alive"
            => \/ shown' = "Error" \/ s < cur'
               \/ \E t \in Thread : victim[t] = s /\ KillUnheard(t)]_vars
  BY LossStep
<1> QED
  BY <1>1, <1>2, <1>3, Invariant, PTL DEF Spec, LossIsReported

\* After the stop flag a monitor takes no further line.
THEOREM MonitorsObeyTheFlag == Spec => StopIsFinal
<1>1. ASSUME IInv, Next, NEW s \in Session, stop[s], mon[s] # "line"
      PROVE mon'[s] # "line"
  <2>0. mon \in [Session -> {"none", "opening", "reading", "line", "ended"}]
    BY <1>1 DEF IInv, TypeOK
  <2>1. ASSUME NEW r \in Session, MonitorStep(r) PROVE mon'[s] # "line"
    BY <1>1, <2>0, <2>1 DEF MonitorStep, MonitorOpen, MonitorRead, MonitorLine,
                            MonitorStop, SetMon
  <2>2. ASSUME NEW t \in Thread, ThreadStep(t) PROVE mon'[s] # "line"
    <3>1. CASE Spawned(t)
      BY <1>1, <2>0, <3>1 DEF Spawned
    <3>2. CASE ~Spawned(t)
      BY <1>1, <2>2, <3>2 DEF ThreadStep, ConnectRejected, Connect, ConnectIcon,
         NoSecret, SpawnError, FinishDisconnect, Disconnect, DisconnectIcon, KillVpn,
         Killed, KillUnheard, KillFailed, Unlock, QuitCheck, Exit, monVars
    <3> QED
      BY <3>1, <3>2
  <2>3. CASE WindowCall \/ Query \/ BeginDisconnect \/ Sync \/ Terminated
    BY <1>1, <2>3 DEF WindowCall, Call, Query, BeginDisconnect, Sync, SyncApply,
                      SyncRetry, Terminated, vars, monVars
  <2>4. ASSUME NEW w \in Workers, TrayCall(w) PROVE mon'[s] # "line"
    BY <1>1, <2>4 DEF TrayCall, Call, monVars
  <2>5. ASSUME NEW r \in Session, BandwidthStop(r) \/ VpnPrints(r) \/ VpnExits(r)
        PROVE mon'[s] # "line"
    BY <1>1, <2>5 DEF BandwidthStop, VpnPrints, VpnExits, monVars
  <2> QED
    BY <1>1, <2>1, <2>2, <2>3, <2>4, <2>5 DEF Next
<1>2. IInv /\ [Next]_vars
      => [\A s \in Session : stop[s] /\ mon[s] # "line" => mon'[s] # "line"]_vars
  BY <1>1
<1> QED
  BY <1>2, Invariant, PTL DEF Spec, StopIsFinal

-----------------------------------------------------------------------------
(* What the liveness properties rest on *)

\* The places from which a disconnect goes on to its result.
Ending == {"lockFinish", "iconDisconnecting", "kill", "killing"}

Resolving == \E t \in Thread : pc[t] \in Ending

\* A window that shows Disconnecting shows it for a thread on its way to the kill.
DisconnectingHasThread == shown = "Disconnecting" => Resolving

LEMMA EndingStep ==
  ASSUME TypeOK, Next
  PROVE  \/ shown' # "Disconnecting"
         \/ shown' = shown /\ \A t \in Thread : pc[t] \in Ending => pc'[t] \in Ending
         \/ Resolving'
<1> DEFINE Goal == \/ shown' # "Disconnecting"
                   \/ shown' = shown /\ \A t \in Thread : pc[t] \in Ending => pc'[t] \in Ending
                   \/ Resolving'
<1>0. pc \in [Thread -> Pc] /\ Main \in Thread /\ Workers \subseteq Thread
  BY Constants DEF TypeOK
<1>1. ASSUME NEW t \in Thread, ThreadStep(t) PROVE Goal
  <2> USE <1>0 DEF Goto, evVars, SetState, Emit, Ending
  <2>1. CASE ConnectRejected(t) \/ NoSecret(t)
    BY <2>1 DEF ConnectRejected, NoSecret
  <2>2. CASE Connect(t)
    BY <2>2 DEF Connect
  <2>3. CASE ConnectIcon(t) \/ Spawned(t)
    BY <2>3 DEF ConnectIcon, Spawned
  <2>4. CASE SpawnError(t)
    BY <2>4 DEF SpawnError
  <2>5. CASE FinishDisconnect(t) \/ Disconnect(t) \/ DisconnectIcon(t) \/ KillVpn(t)
    BY <2>5 DEF FinishDisconnect, Disconnect, DisconnectIcon, KillVpn, Resolving
  <2>6. CASE Killed(t) \/ KillUnheard(t) \/ KillFailed(t)
    BY <2>6 DEF Killed, KillUnheard, KillFailed
  <2>7. CASE Unlock(t) \/ QuitCheck(t)
    BY <2>7 DEF Unlock, QuitCheck
  <2>8. CASE Exit(t)
    BY <2>8 DEF Exit, thrVars
  <2> QED
    BY <1>1, <2>1, <2>2, <2>3, <2>4, <2>5, <2>6, <2>7, <2>8 DEF ThreadStep
<1>2. CASE WindowCall
  BY <1>0, <1>2 DEF WindowCall, Call, Goto, evVars, Ending
<1>3. ASSUME NEW w \in Workers, TrayCall(w) PROVE Goal
  BY <1>0, <1>3 DEF TrayCall, Call, Goto, evVars, Ending
<1>4. CASE Query
  BY <1>0, <1>4 DEF Query, Goto, evVars, Ending
<1>5. CASE BeginDisconnect
  <2>1. PICK w \in Workers : pc' = [pc EXCEPT ![Main] = "idle", ![w] = "lockFinish"]
    BY <1>5 DEF BeginDisconnect
  <2>2. pc'[w] = "lockFinish" /\ w \in Thread
    BY <1>0, <2>1
  <2> QED
    BY <2>2 DEF Resolving, Ending
<1>6. CASE Sync \/ Terminated
  BY <1>6 DEF Sync, SyncApply, SyncRetry, Terminated, vars, thrVars, evVars
<1>7. ASSUME NEW s \in Session, MonitorStep(s) \/ BandwidthStop(s) PROVE Goal
  BY <1>7 DEF MonitorStep, MonitorOpen, MonitorRead, MonitorLine, MonitorStop,
              BandwidthStop, Emit, thrVars, evVars
<1>8. ASSUME NEW s \in Session, VpnPrints(s) \/ VpnExits(s) PROVE Goal
  BY <1>8 DEF VpnPrints, VpnExits, thrVars, evVars
<1> QED
  BY <1>1, <1>2, <1>3, <1>4, <1>5, <1>6, <1>7, <1>8 DEF Next

\* Whatever announced Disconnecting, and whatever was announced in between, there is a
\* thread left that brings the result: no disconnect returns without an event.
THEOREM DisconnectsGoOn == Spec => []DisconnectingHasThread
<1>1. Init => DisconnectingHasThread
  BY DEF Init, DisconnectingHasThread
<1>2. IInv /\ DisconnectingHasThread /\ [Next]_vars => DisconnectingHasThread'
  <2>1. DisconnectingHasThread /\ UNCHANGED vars => DisconnectingHasThread'
    BY DEF DisconnectingHasThread, Resolving, vars, thrVars, evVars
  <2>2. IInv /\ DisconnectingHasThread /\ Next => DisconnectingHasThread'
    BY EndingStep DEF IInv, DisconnectingHasThread, Resolving
  <2> QED
    BY <2>1, <2>2
<1> QED
  BY <1>1, <1>2, Invariant, PTL DEF Spec

\* A raised flag, and a bandwidth monitor, belong to a session that has a monitor.
FlagInv ==
  /\ \A s \in Session : stop[s] \/ bw[s] \/ s = cur => mon[s] # "none"
  /\ cur # 0 => cur \in Session

FlagsHaveMonitor == \A s \in Session : stop[s] \/ bw[s] => mon[s] # "none"

\* What a step does to flags and monitors.
LEMMA FlagSteps ==
  ASSUME TypeOK, FlagInv, Next
  PROVE  \/ UNCHANGED <<cur, stop>> /\ \A s \in Session :
              (mon[s] # "none" => mon'[s] # "none") /\ (bw'[s] => bw[s] \/ mon[s] # "none")
         \/ \E t \in Thread : Spawned(t) \/ KillVpn(t)
<1> DEFINE Goal ==
      UNCHANGED <<cur, stop>> /\ \A s \in Session :
        (mon[s] # "none" => mon'[s] # "none") /\ (bw'[s] => bw[s] \/ mon[s] # "none")
<1>0. mon \in [Session -> {"none", "opening", "reading", "line", "ended"}] /\ bw \in [Session -> BOOLEAN]
  BY DEF TypeOK
<1>1. ASSUME NEW t \in Thread, ThreadStep(t), ~Spawned(t), ~KillVpn(t) PROVE Goal
  BY <1>1 DEF ThreadStep, ConnectRejected, Connect, ConnectIcon, NoSecret, SpawnError,
              FinishDisconnect, Disconnect, DisconnectIcon, Killed, KillUnheard, KillFailed,
              Unlock, QuitCheck, Exit, pmVars, monVars
<1>2. CASE WindowCall \/ Query \/ BeginDisconnect \/ Sync \/ Terminated
  BY <1>2 DEF WindowCall, Call, Query, BeginDisconnect, Sync, SyncApply, SyncRetry,
              Terminated, vars, pmVars, monVars
<1>3. ASSUME NEW w \in Workers, TrayCall(w) PROVE Goal
  BY <1>3 DEF TrayCall, Call, pmVars, monVars
<1>4. ASSUME NEW s \in Session, MonitorStep(s) \/ BandwidthStop(s) PROVE Goal
  BY <1>0, <1>4 DEF MonitorStep, MonitorOpen, MonitorRead, MonitorLine, MonitorStop,
                    BandwidthStop, SetMon, pmVars
<1>5. ASSUME NEW s \in Session, VpnPrints(s) \/ VpnExits(s) PROVE Goal
  BY <1>5 DEF VpnPrints, VpnExits, pmVars, monVars
<1> QED
  BY <1>1, <1>2, <1>3, <1>4, <1>5 DEF Next, ThreadStep

LEMMA FlagStep ==
  ASSUME IInv, FlagInv, Next PROVE FlagInv'
<1>0. /\ mon \in [Session -> {"none", "opening", "reading", "line", "ended"}]
      /\ stop \in [Session -> BOOLEAN]
  BY DEF IInv, TypeOK
<1>1. ASSUME NEW t \in Thread, Spawned(t) PROVE FlagInv'
  <2>1. /\ attempts + 1 \in Session /\ cur' = attempts + 1 /\ UNCHANGED <<stop, bw>>
        /\ mon' = [mon EXCEPT ![attempts + 1] = "opening"]
    BY <1>1, NewSession DEF Spawned, IInv
  <2> QED
    BY <1>0, <2>1 DEF FlagInv
<1>2. ASSUME NEW t \in Thread, KillVpn(t) PROVE FlagInv'
  <2>1. UNCHANGED <<cur, mon, bw>>
    BY <1>2 DEF KillVpn, monVars
  <2>2. \A s \in Session : stop'[s] => stop[s] \/ s = cur
    BY <1>2, Zenon DEF KillVpn
  <2> QED
    BY <2>1, <2>2 DEF FlagInv
<1> QED
  BY <1>1, <1>2, FlagSteps DEF FlagInv, IInv

\* A stop flag is never raised for a session without a monitor, so that its end can be
\* waited for, and no bandwidth monitor runs without the log monitor that started it.
THEOREM StoppedSessionsHaveMonitors == Spec => []FlagsHaveMonitor
<1>1. Init => FlagInv
  BY Constants DEF Init, FlagInv, Session
<1>2. IInv /\ FlagInv /\ [Next]_vars => FlagInv'
  <2>1. FlagInv /\ UNCHANGED vars => FlagInv'
    BY DEF FlagInv, vars, pmVars, monVars
  <2> QED
    BY <2>1, FlagStep
<1>3. FlagInv => FlagsHaveMonitor
  BY DEF FlagInv, FlagsHaveMonitor
<1> QED
  BY <1>1, <1>2, <1>3, Invariant, PTL DEF Spec

\* A holder of the mutex that updates the icon is served at once, or the main thread
\* waits for the mutex in one of the commands of the window.
WindowCommand == {"lockConnect", "lockBegin", "lockQuery"}
ServedOrDeadlock ==
  \A t \in Thread :
    pc[t] \in Icon => MainServes(t) \/ (mutex = t /\ pc[Main] \in WindowCommand)

LEMMA MainStep ==
  ASSUME TypeOK, MainInv, Next PROVE MainInv'
<1>0. /\ pc \in [Thread -> Pc] /\ Main \in Thread /\ Main \notin Workers
      /\ Workers \subseteq Thread /\ quitter # Main
  BY Constants, ConstantsAssumption DEF TypeOK
<1> USE <1>0 DEF Goto, MainInv
<1>1. ASSUME NEW t \in Thread, ThreadStep(t) PROVE MainInv'
  <2>1. CASE ConnectRejected(t) \/ Connect(t) \/ ConnectIcon(t) \/ NoSecret(t)
    BY <2>1 DEF ConnectRejected, Connect, ConnectIcon, NoSecret
  <2>2. CASE Spawned(t) \/ SpawnError(t) \/ KillVpn(t)
    BY <2>2 DEF Spawned, SpawnError, KillVpn
  <2>3. CASE FinishDisconnect(t) \/ Disconnect(t) \/ DisconnectIcon(t)
    BY <2>3 DEF FinishDisconnect, Disconnect, DisconnectIcon
  <2>4. CASE Killed(t) \/ KillUnheard(t) \/ KillFailed(t)
    BY <2>4 DEF Killed, KillUnheard, KillFailed
  <2>5. CASE Unlock(t) \/ QuitCheck(t)
    BY <2>5 DEF Unlock, QuitCheck
  <2>6. CASE Exit(t)
    BY <2>6 DEF Exit, thrVars
  <2> QED
    BY <1>1, <2>1, <2>2, <2>3, <2>4, <2>5, <2>6 DEF ThreadStep
<1>2. CASE WindowCall \/ Query
  BY <1>2 DEF WindowCall, Call, Query
<1>3. ASSUME NEW w \in Workers, TrayCall(w) PROVE MainInv'
  BY <1>3 DEF TrayCall, Call
<1>4. CASE BeginDisconnect
  <2>1. PICK w \in Workers : pc' = [pc EXCEPT ![Main] = "idle", ![w] = "lockFinish"]
    BY <1>4 DEF BeginDisconnect
  <2> QED
    BY <2>1
<1>5. CASE Sync \/ Terminated
  BY <1>5 DEF Sync, SyncApply, SyncRetry, Terminated, vars, thrVars
<1>6. ASSUME NEW s \in Session,
             MonitorStep(s) \/ BandwidthStop(s) \/ VpnPrints(s) \/ VpnExits(s)
      PROVE MainInv'
  BY <1>6 DEF MonitorStep, MonitorOpen, MonitorRead, MonitorLine, MonitorStop,
              BandwidthStop, VpnPrints, VpnExits, thrVars
<1> QED
  BY <1>1, <1>2, <1>3, <1>4, <1>5, <1>6 DEF Next

\* The only wait under the mutex for another thread that is not served at once is the
\* one for a main thread inside a command of the window that waits for that mutex.
THEOREM IconServedOrDeadlock == Spec => []ServedOrDeadlock
<1>1. Init => MainInv
  BY Constants DEF Init, MainInv
<1>2. TypeOK /\ MainInv /\ [Next]_vars => MainInv'
  <2>1. MainInv /\ UNCHANGED vars => MainInv'
    BY DEF MainInv, vars, thrVars
  <2> QED
    BY <2>1, MainStep
<1>3. IInv /\ MainInv => ServedOrDeadlock
  <2> SUFFICES ASSUME IInv, MainInv, NEW t \in Thread, pc[t] \in Icon, t # Main,
                      pc[Main] # "idle"
               PROVE mutex = t /\ pc[Main] \in WindowCommand
    BY DEF ServedOrDeadlock, MainServes, EventLoopIdle
  <2>1. mutex = t
    BY DEF IInv, OneHolder, Holding
  <2>2. pc[Main] \in Pc /\ pc[Main] \notin Holding
    BY <2>1, Constants DEF IInv, TypeOK, OneHolder
  <2> QED
    BY <2>1, <2>2 DEF MainInv, Pc, Waiting, WindowCommand
<1>4. IInv => TypeOK
  BY DEF IInv
<1> QED
  BY <1>1, <1>2, <1>3, <1>4, Invariant, PTL DEF Spec
=============================================================================
