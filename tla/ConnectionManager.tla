------------------------- MODULE ConnectionManager -------------------------
(***************************************************************************)
(* The connection core of the desktop application: VpnManager behind its   *)
(* mutex, the ProcessManager it owns, the threads that take the mutex (the *)
(* main thread with the synchronous commands of the window, one thread per *)
(* tray menu event, one task per window disconnect), the listener threads  *)
(* that copy "connection-status-changed" events back into the manager, the *)
(* log monitor of every VPN session and the VPN process it watches.        *)
(*                                                                         *)
(* Sources: src-tauri/src/{vpn_manager,process_manager,commands,tray}.rs   *)
(***************************************************************************)
EXTENDS Naturals, Sequences, FiniteSets

CONSTANTS
  Main,         \* the main thread: event loop, synchronous commands, tray API
  Workers,      \* the threads and tasks a tray event or a disconnect starts
  None,         \* Rust's Option::None, and "the mutex is free"
  MaxAttempts,  \* bound: how often a connect gets as far as the spawn
  MaxCalls,     \* bound: commands of the window and events of the tray
  Tries,        \* attempts of a listener thread at the mutex (10 in the code)
  Callers,      \* which front ends are used: a subset of {"window", "tray"}
  Faults,       \* which failures can happen, see FaultKinds
  Prints        \* the lines openfortivpn can print: a subset of Line

Thread == {Main} \cup Workers
Session == 1 .. MaxAttempts

FaultKinds == {"noProfile",    \* the profile is gone or cannot be read
               "noSecret",     \* token PIN or certificate URI missing
               "spawnFails",   \* nothing was started
               "spawnLost",    \* started, but the helper's reply timed out
               "killFails",    \* error or timeout from the helper or pkexec
               "killUnheard"}  \* the result of the last kill is ignored

\* The lines that make the log monitor emit a status event: the SAML URL,
\* "Tunnel is up and running" and "Tunnel is down".
Line == {"saml", "up", "down"}

ASSUME ConstantsAssumption ==
  /\ Main \notin Workers
  /\ None \notin Thread
  /\ MaxAttempts \in Nat /\ MaxCalls \in Nat
  /\ Tries \in Nat \ {0}
  /\ Faults \subseteq FaultKinds
  /\ Prints \subseteq Line

ConnectionState == {"Disconnected", "Connecting", "WaitingSaml", "Connected",
                    "Disconnecting", "Error"}
File == {"log", "conf"} \X Session     \* temporary files, by spawn attempt

VARIABLES
  state,     \* VpnManager.state
  mutex,     \* the thread that holds Mutex<VpnManager>, or None
  pc,        \* what every thread is doing
  victim,    \* the pid a thread is killing (taken out of ProcessManager.pid)
  quitter,   \* the thread that runs the tray's "quit", or None
  calls,     \* user calls so far (bounded by MaxCalls)
  attempts,  \* spawn attempts so far (bounded by MaxAttempts)
  cur,       \* session whose flag is ProcessManager.stop_flag (0: the first)
  pid,       \* ProcessManager.pid: a session, or 0 for None
  stop,      \* the stop flag of every session
  logPath,   \* ProcessManager.log_file_path: a set with at most one file
  runtime,   \* ProcessManager.runtime_paths
  files,     \* temporary files on disk
  mon,       \* the log monitor task of every session
  pos,       \* lines of its log file the monitor has read
  bw,        \* is the bandwidth monitor of the session running?
  proc,      \* the openfortivpn process of every session
  log,       \* the lines it has written
  syncs,     \* listener threads: payload, tries left |-> how many
  shown,     \* the last status event emitted: what the window shows
  running    \* the application has not exited

mgrVars == <<state, mutex>>
thrVars == <<pc, victim, quitter, calls>>
pmVars  == <<attempts, cur, pid, stop, logPath, runtime, files>>
monVars == <<mon, pos, bw>>
vpnVars == <<proc, log>>
evVars  == <<syncs, shown>>
vars == <<mgrVars, thrVars, pmVars, monVars, vpnVars, evVars, running>>

Waiting == {"lockConnect", "lockBegin", "lockQuery", "lockFinish",
            "lockDisconnect", "lockQuit"}
Icon == {"iconConnecting", "iconDisconnecting", "iconEnd"}
Holding == Icon \cup {"spawn", "kill", "killing"}
Pc == {"idle", "exiting"} \cup Waiting \cup Holding

TypeOK ==
  /\ state \in ConnectionState
  /\ mutex \in Thread \cup {None}
  /\ pc \in [Thread -> Pc]
  /\ victim \in [Thread -> Session \cup {0}]
  /\ quitter \in Workers \cup {None}
  /\ calls \in 0 .. MaxCalls
  /\ attempts \in 0 .. MaxAttempts
  /\ cur \in 0 .. attempts
  /\ pid \in 0 .. attempts
  /\ stop \in [Session -> BOOLEAN]
  /\ logPath \in SUBSET File
  /\ runtime \in SUBSET File
  /\ files \in SUBSET File
  /\ mon \in [Session -> {"none", "opening", "reading", "line", "ended"}]
  /\ pos \in [Session -> Nat]
  /\ bw \in [Session -> BOOLEAN]
  /\ proc \in [Session -> {"none", "alive", "dead"}]
  /\ log \in [Session -> Seq(Line)]
  /\ syncs \in [ConnectionState \X (1 .. Tries) -> Nat]
  /\ shown \in ConnectionState
  /\ running \in BOOLEAN

Init ==
  /\ state = "Disconnected" /\ mutex = None
  /\ pc = [t \in Thread |-> "idle"]
  /\ victim = [t \in Thread |-> 0]
  /\ quitter = None /\ calls = 0
  /\ attempts = 0 /\ cur = 0 /\ pid = 0
  /\ stop = [s \in Session |-> FALSE]
  /\ logPath = {} /\ runtime = {} /\ files = {}
  /\ mon = [s \in Session |-> "none"]
  /\ pos = [s \in Session |-> 0]
  /\ bw = [s \in Session |-> FALSE]
  /\ proc = [s \in Session |-> "none"]
  /\ log = [s \in Session |-> <<>>]
  /\ syncs = [x \in ConnectionState \X (1 .. Tries) |-> 0]
  /\ shown = "Disconnected" /\ running = TRUE

Goto(t, l) == pc' = [pc EXCEPT ![t] = l]

\* app_handle.emit: the window shows the payload, and the listener that
\* setup_tray registered starts a thread for it.
Emit(st) ==
  /\ shown' = st
  /\ syncs' = [syncs EXCEPT ![<<st, Tries>>] = @ + 1]

SetState(st) == state' = st /\ Emit(st)

\* update_tray_icon runs on the main thread: the main thread calls it inline,
\* any other thread waits until the event loop picks the request up.
EventLoopIdle == pc[Main] = "idle"
MainServes(t) == t = Main \/ EventLoopIdle

-----------------------------------------------------------------------------
(* Calls of the user.  The window's commands are synchronous and run on the *)
(* main thread; a tray event gets a thread of its own.                      *)

Call(t, l) ==
  /\ running /\ pc[t] = "idle" /\ calls < MaxCalls
  /\ calls' = calls + 1
  /\ Goto(t, l)
  /\ UNCHANGED <<mgrVars, victim, pmVars, monVars, vpnVars, evVars, running>>

WindowCall ==
  /\ "window" \in Callers
  /\ \E l \in {"lockConnect", "lockBegin", "lockQuery"} : Call(Main, l)
  /\ UNCHANGED quitter

\* The menu is a snapshot of an earlier state, made again by listener threads
\* that nothing orders: an item may be chosen in any state.
TrayCall(t) ==
  /\ "tray" \in Callers
  /\ \/ Call(t, "lockConnect") /\ UNCHANGED quitter
     \/ Call(t, "lockDisconnect") /\ UNCHANGED quitter
     \/ Call(t, "lockQuit") /\ quitter = None /\ quitter' = t

\* get_status, get_profiles, save_profile, delete_profile, the tray's profile
\* items: they wait for the mutex on the main thread and leave the state alone.
Query ==
  /\ running /\ pc[Main] = "lockQuery" /\ mutex = None
  /\ Goto(Main, "idle")
  /\ UNCHANGED <<mgrVars, victim, quitter, calls, pmVars, monVars, vpnVars,
                 evVars, running>>

-----------------------------------------------------------------------------
(* VpnManager::connect *)

CanConnect == state \in {"Disconnected", "Error"}

\* The early returns before anything changes.
ConnectRejected(t) ==
  /\ running /\ pc[t] = "lockConnect" /\ mutex = None
  /\ ~CanConnect \/ "noProfile" \in Faults
  /\ Goto(t, "idle")
  /\ UNCHANGED <<mgrVars, victim, quitter, calls, pmVars, monVars, vpnVars,
                 evVars, running>>

Connect(t) ==
  /\ running /\ pc[t] = "lockConnect" /\ mutex = None
  /\ CanConnect /\ attempts < MaxAttempts
  /\ mutex' = t
  /\ SetState("Connecting")
  /\ Goto(t, "iconConnecting")
  /\ UNCHANGED <<victim, quitter, calls, pmVars, monVars, vpnVars, running>>

ConnectIcon(t) ==
  /\ running /\ pc[t] = "iconConnecting" /\ MainServes(t)
  /\ Goto(t, "spawn")
  /\ UNCHANGED <<mgrVars, victim, quitter, calls, pmVars, monVars, vpnVars,
                 evVars, running>>

\* The early returns of the CertificateToken branch: the state stays Connecting,
\* and no event follows.
NoSecret(t) ==
  /\ running /\ pc[t] = "spawn" /\ "noSecret" \in Faults
  /\ mutex' = None
  /\ Goto(t, "idle")
  /\ UNCHANGED <<state, victim, quitter, calls, pmVars, monVars, vpnVars,
                 evVars, running>>

\* What spawn_vpn does before it asks for the process: the log file, and for a
\* PKCS#11 provider an OpenSSL configuration recorded in runtime_paths.
PrepareFiles(a, withConf) ==
  LET conf == IF withConf THEN {<<"conf", a>>} ELSE {}
  IN /\ files' = files \cup {<<"log", a>>} \cup conf
     /\ runtime' = runtime \cup conf

Spawned(t) ==
  LET a == attempts + 1
  IN /\ running /\ pc[t] = "spawn"
     /\ attempts' = a
     /\ \E withConf \in BOOLEAN : PrepareFiles(a, withConf)
     /\ proc' = [proc EXCEPT ![a] = "alive"]
     /\ pid' = a /\ cur' = a
     /\ logPath' = {<<"log", a>>}
     /\ mon' = [mon EXCEPT ![a] = "opening"]
     /\ mutex' = None
     /\ Goto(t, "idle")
     /\ UNCHANGED <<state, victim, quitter, calls, stop, pos, bw, log, evVars,
                    running>>

\* Mutant of SpawnError: the error is returned and no event emitted.
SpawnErrorSilent(t) ==
  LET a == attempts + 1
  IN /\ running /\ pc[t] = "spawn"
     /\ attempts' = a
     /\ \E withConf \in BOOLEAN : PrepareFiles(a, withConf)
     /\ \/ "spawnFails" \in Faults /\ UNCHANGED proc
        \/ "spawnLost" \in Faults /\ proc' = [proc EXCEPT ![a] = "alive"]
     /\ Goto(t, "iconEnd")
     /\ UNCHANGED <<mgrVars, victim, quitter, calls, cur, pid, stop, logPath,
                    monVars, log, evVars, running>>

\* spawn_vpn returned an error; after a lost reply the process runs all the same.
SpawnError(t) ==
  LET a == attempts + 1
  IN /\ running /\ pc[t] = "spawn"
     /\ attempts' = a
     /\ \E withConf \in BOOLEAN : PrepareFiles(a, withConf)
     /\ \/ "spawnFails" \in Faults /\ UNCHANGED proc
        \/ "spawnLost" \in Faults /\ proc' = [proc EXCEPT ![a] = "alive"]
     /\ SetState("Error")
     /\ Goto(t, "iconEnd")
     /\ UNCHANGED <<mutex, victim, quitter, calls, cur, pid, stop, logPath,
                    monVars, log, running>>

-----------------------------------------------------------------------------
(* Disconnecting *)

\* commands::disconnect: begin_disconnect under the mutex, then a background
\* task for the rest; the command returns at once.
BeginDisconnect ==
  /\ running /\ pc[Main] = "lockBegin" /\ mutex = None
  /\ SetState("Disconnecting")
  /\ \E w \in Workers :
       /\ pc[w] = "idle"
       /\ pc' = [pc EXCEPT ![Main] = "idle", ![w] = "lockFinish"]
  /\ UNCHANGED <<mutex, victim, quitter, calls, pmVars, monVars, vpnVars,
                 running>>

FinishDisconnect(t) ==
  /\ running /\ pc[t] = "lockFinish" /\ mutex = None
  /\ mutex' = t
  /\ Goto(t, "kill")
  /\ UNCHANGED <<state, victim, quitter, calls, pmVars, monVars, vpnVars,
                 evVars, running>>

\* VpnManager::disconnect, both halves under one lock: the tray and "quit".
Disconnect(t) ==
  /\ running /\ pc[t] = "lockDisconnect" /\ mutex = None
  /\ mutex' = t
  /\ SetState("Disconnecting")
  /\ Goto(t, "iconDisconnecting")
  /\ UNCHANGED <<victim, quitter, calls, pmVars, monVars, vpnVars, running>>

DisconnectIcon(t) ==
  /\ running /\ pc[t] = "iconDisconnecting" /\ MainServes(t)
  /\ Goto(t, "kill")
  /\ UNCHANGED <<mgrVars, victim, quitter, calls, pmVars, monVars, vpnVars,
                 evVars, running>>

\* Mutant of KillVpn: the pid is read instead of taken.
KillVpnKeepsPid(t) ==
  /\ running /\ pc[t] = "kill"
  /\ stop' = [s \in Session |-> stop[s] \/ s = cur]
  /\ victim' = [victim EXCEPT ![t] = pid]
  /\ Goto(t, "killing")
  /\ UNCHANGED <<mgrVars, quitter, calls, attempts, cur, pid, logPath, runtime,
                 files, monVars, vpnVars, evVars, running>>

\* kill_vpn up to the request to the helper: the flag is raised, the monitor
\* aborted and the pid taken out of the manager before anything can fail.
KillVpn(t) ==
  /\ running /\ pc[t] = "kill"
  /\ stop' = [s \in Session |-> stop[s] \/ s = cur]
  /\ victim' = [victim EXCEPT ![t] = pid]
  /\ pid' = 0
  /\ Goto(t, "killing")
  /\ UNCHANGED <<mgrVars, quitter, calls, attempts, cur, logPath, runtime,
                 files, monVars, vpnVars, evVars, running>>

\* The kill succeeded, or there was no pid and only the DNS was torn down.
Killed(t) ==
  /\ running /\ pc[t] = "killing"
  /\ proc' = [s \in Session |-> IF s = victim[t] THEN "dead" ELSE proc[s]]
  /\ victim' = [victim EXCEPT ![t] = 0]
  /\ files' = files \ (logPath \cup runtime)
  /\ logPath' = {} /\ runtime' = {}
  /\ SetState("Disconnected")
  /\ Goto(t, "iconEnd")
  /\ UNCHANGED <<mutex, quitter, calls, attempts, cur, pid, stop, monVars, log,
                 running>>

\* Without a helper, on Linux: the process took SIGINT but went on, and nobody
\* looks at the result of the SIGKILL; on macOS an error of the script is no
\* error of the kill.
KillUnheard(t) ==
  /\ running /\ pc[t] = "killing"
  /\ victim[t] # 0 /\ "killUnheard" \in Faults
  /\ victim' = [victim EXCEPT ![t] = 0]
  /\ files' = files \ (logPath \cup runtime)
  /\ logPath' = {} /\ runtime' = {}
  /\ SetState("Disconnected")
  /\ Goto(t, "iconEnd")
  /\ UNCHANGED <<mutex, quitter, calls, attempts, cur, pid, stop, monVars,
                 vpnVars, running>>

\* Mutants of KillFailed: runtime_paths is drained before the result is known;
\* the error is returned and no event emitted.
KillFailedForgets(t) ==
  /\ running /\ pc[t] = "killing"
  /\ victim[t] # 0 /\ "killFails" \in Faults
  /\ victim' = [victim EXCEPT ![t] = 0]
  /\ runtime' = {}
  /\ SetState("Error")
  /\ Goto(t, "iconEnd")
  /\ UNCHANGED <<mutex, quitter, calls, attempts, cur, pid, stop, logPath, files,
                 monVars, vpnVars, running>>
KillFailedSilent(t) ==
  /\ running /\ pc[t] = "killing"
  /\ victim[t] # 0 /\ "killFails" \in Faults
  /\ victim' = [victim EXCEPT ![t] = 0]
  /\ Goto(t, "iconEnd")
  /\ UNCHANGED <<mgrVars, quitter, calls, pmVars, monVars, vpnVars, evVars,
                 running>>

\* kill_vpn_privileged returned an error.  After a timeout the helper may have
\* killed the process nevertheless; the temporary files stay recorded.
KillFailed(t) ==
  /\ running /\ pc[t] = "killing"
  /\ victim[t] # 0 /\ "killFails" \in Faults
  /\ \/ UNCHANGED proc
     \/ proc' = [proc EXCEPT ![victim[t]] = "dead"]
  /\ victim' = [victim EXCEPT ![t] = 0]
  /\ SetState("Error")
  /\ Goto(t, "iconEnd")
  /\ UNCHANGED <<mutex, quitter, calls, pmVars, monVars, log, running>>

\* The last update_tray_icon of a call that holds the mutex, then the unlock.
Unlock(t) ==
  /\ running /\ pc[t] = "iconEnd" /\ MainServes(t)
  /\ mutex' = None
  /\ Goto(t, IF quitter = t THEN "exiting" ELSE "idle")
  /\ UNCHANGED <<state, victim, quitter, calls, pmVars, monVars, vpnVars, evVars,
                 running>>

\* Mutant of QuitCheck: the guard of the first section lives on into the second.
QuitCheckKeepsLock(t) ==
  /\ running /\ pc[t] = "lockQuit" /\ mutex = None
  /\ mutex' = IF state = "Disconnected" THEN None ELSE t
  /\ Goto(t, IF state = "Disconnected" THEN "exiting" ELSE "lockDisconnect")
  /\ UNCHANGED <<state, victim, quitter, calls, pmVars, monVars, vpnVars,
                 evVars, running>>

\* The tray's "quit" looks at the state in one lock section, disconnects in a
\* second one and exits outside of both.
QuitCheck(t) ==
  /\ running /\ pc[t] = "lockQuit" /\ mutex = None
  /\ Goto(t, IF state = "Disconnected" THEN "exiting" ELSE "lockDisconnect")
  /\ UNCHANGED <<mgrVars, victim, quitter, calls, pmVars, monVars, vpnVars,
                 evVars, running>>

Exit(t) ==
  /\ running /\ pc[t] = "exiting" /\ MainServes(t)
  /\ running' = FALSE
  /\ UNCHANGED <<mgrVars, thrVars, pmVars, monVars, vpnVars, evVars>>

-----------------------------------------------------------------------------
(* The listener threads of setup_tray *)

SyncApply(st, n) ==
  /\ running /\ syncs[<<st, n>>] > 0 /\ mutex = None
  /\ syncs' = [syncs EXCEPT ![<<st, n>>] = @ - 1]
  /\ state' = st
  /\ UNCHANGED <<mutex, thrVars, pmVars, monVars, vpnVars, shown, running>>

\* try_lock fails: sleep and try again, or give the payload up.
SyncRetry(st, n) ==
  /\ running /\ syncs[<<st, n>>] > 0 /\ mutex # None
  /\ syncs' = IF n = 1 THEN [syncs EXCEPT ![<<st, 1>>] = @ - 1]
                       ELSE [syncs EXCEPT ![<<st, n>>] = @ - 1,
                                          ![<<st, n - 1>>] = @ + 1]
  /\ UNCHANGED <<mgrVars, thrVars, pmVars, monVars, vpnVars, shown, running>>

Sync == \E st \in ConnectionState, n \in 1 .. Tries :
          SyncApply(st, n) \/ SyncRetry(st, n)

-----------------------------------------------------------------------------
(* start_log_monitor and start_bandwidth_monitor *)

SetMon(s, l) == mon' = [mon EXCEPT ![s] = l]

MonitorOpen(s) ==
  /\ running /\ mon[s] = "opening" /\ ~stop[s]
  /\ SetMon(s, IF <<"log", s>> \in files THEN "reading" ELSE "ended")
  /\ UNCHANGED <<mgrVars, thrVars, pmVars, pos, bw, vpnVars, evVars, running>>

\* One turn of the loop: the flag is tested, then a line is read.
MonitorRead(s) ==
  /\ running /\ mon[s] = "reading" /\ ~stop[s]
  /\ pos[s] < Len(log[s])
  /\ pos' = [pos EXCEPT ![s] = @ + 1]
  /\ SetMon(s, "line")
  /\ UNCHANGED <<mgrVars, thrVars, pmVars, bw, vpnVars, evVars, running>>

\* The line is classified and answered.  There is no await in between, so an
\* abort does not reach it, and the DNS setup of "up" can take seconds.
MonitorLine(s) ==
  /\ running /\ mon[s] = "line" /\ EventLoopIdle
  /\ \/ /\ log[s][pos[s]] = "up"
        /\ Emit("Connected")
        /\ bw' = [bw EXCEPT ![s] = TRUE]
        /\ SetMon(s, "reading")
     \/ /\ log[s][pos[s]] = "saml"
        /\ Emit("WaitingSaml")
        /\ SetMon(s, "reading")
        /\ UNCHANGED bw
     \/ /\ log[s][pos[s]] = "down"
        /\ Emit("Disconnected")
        /\ SetMon(s, "ended")
        /\ UNCHANGED bw
  /\ UNCHANGED <<mgrVars, thrVars, pmVars, pos, vpnVars, running>>

\* Mutant of MonitorStop: only a monitor that has not begun to read stops.
MonitorStopEarly(s) ==
  /\ running /\ mon[s] = "opening" /\ stop[s]
  /\ SetMon(s, "ended")
  /\ UNCHANGED <<mgrVars, thrVars, pmVars, pos, bw, vpnVars, evVars, running>>

\* The flag ends the loop, and abort ends the task at its next await.
MonitorStop(s) ==
  /\ running /\ mon[s] \in {"opening", "reading"} /\ stop[s]
  /\ SetMon(s, "ended")
  /\ UNCHANGED <<mgrVars, thrVars, pmVars, pos, bw, vpnVars, evVars, running>>

BandwidthStop(s) ==
  /\ running /\ bw[s] /\ stop[s]
  /\ bw' = [bw EXCEPT ![s] = FALSE]
  /\ UNCHANGED <<mgrVars, thrVars, pmVars, mon, pos, vpnVars, evVars, running>>

-----------------------------------------------------------------------------
(* The openfortivpn process of a session *)

Said(s) == {log[s][i] : i \in DOMAIN log[s]}

\* Lines that no monitor will read are left out.
Watched(s) == running /\ mon[s] \notin {"none", "ended"}

VpnPrints(s) ==
  /\ proc[s] = "alive" /\ Watched(s)
  /\ \/ /\ "saml" \in Prints /\ Said(s) = {}
        /\ log' = [log EXCEPT ![s] = Append(@, "saml")]
     \/ /\ "up" \in Prints /\ "up" \notin Said(s)
        /\ log' = [log EXCEPT ![s] = Append(@, "up")]
  /\ UNCHANGED <<mgrVars, thrVars, pmVars, monVars, proc, evVars, running>>

VpnExits(s) ==
  /\ proc[s] = "alive" /\ running
  /\ proc' = [proc EXCEPT ![s] = "dead"]
  /\ IF "down" \in Prints /\ "up" \in Said(s) /\ Watched(s)
       THEN log' = [log EXCEPT ![s] = Append(@, "down")]
       ELSE UNCHANGED log
  /\ UNCHANGED <<mgrVars, thrVars, pmVars, monVars, evVars, running>>

-----------------------------------------------------------------------------

ThreadStep(t) ==
  \/ ConnectRejected(t) \/ Connect(t) \/ ConnectIcon(t) \/ NoSecret(t)
  \/ Spawned(t) \/ SpawnError(t)
  \/ FinishDisconnect(t) \/ Disconnect(t) \/ DisconnectIcon(t)
  \/ KillVpn(t) \/ Killed(t) \/ KillUnheard(t) \/ KillFailed(t) \/ Unlock(t)
  \/ QuitCheck(t) \/ Exit(t)

MonitorStep(s) ==
  MonitorOpen(s) \/ MonitorRead(s) \/ MonitorLine(s) \/ MonitorStop(s)

\* All calls are spent, or the application is gone.
Terminated ==
  /\ ~running \/ (calls = MaxCalls /\ \A t \in Thread : pc[t] = "idle")
  /\ UNCHANGED vars

Next ==
  \/ WindowCall \/ Query \/ BeginDisconnect
  \/ \E w \in Workers : TrayCall(w)
  \/ \E t \in Thread : ThreadStep(t)
  \/ Sync
  \/ \E s \in Session : MonitorStep(s) \/ BandwidthStop(s)
  \/ \E s \in Session : VpnPrints(s) \/ VpnExits(s)
  \/ Terminated

\* Threads and tasks run when they can; nobody has to press a button, and
\* openfortivpn has to neither print anything nor exit.
Fairness ==
  /\ WF_vars(Query) /\ WF_vars(BeginDisconnect)
  /\ \A t \in Thread : WF_vars(ThreadStep(t))
  /\ WF_vars(Sync)
  /\ \A s \in Session : WF_vars(MonitorStep(s)) /\ WF_vars(BandwidthStop(s))

Spec == Init /\ [][Next]_vars
FairSpec == Spec /\ Fairness

-----------------------------------------------------------------------------
(* Properties *)

\* Mutex<VpnManager> excludes: the threads inside connect, kill_vpn or a
\* set_state of theirs are exactly the one the mutex names.
OneHolder == \A t \in Thread : pc[t] \in Holding <=> mutex = t

\* The pid the manager would kill is the last session it spawned, that session
\* has a monitor, and nobody has raised its stop flag: spawn_vpn installs the
\* three together and kill_vpn removes them together, under one lock.
TrackedIsWatched ==
  pid # 0 => /\ pid = cur /\ ~stop[pid]
             /\ mon[pid] # "none" /\ logPath = {<<"log", pid>>}

\* Every OpenSSL configuration spawn_vpn left in /tmp is recorded in
\* runtime_paths, whatever failed after it was written: a later successful
\* disconnect removes it.
ConfsTracked == {f \in files : f[1] = "conf"} \subseteq runtime

\* Once a stop flag is up the monitor of that session takes no further line:
\* at most the event of the line it was busy with is still to come.
StopIsFinal ==
  [][\A s \in Session : stop[s] /\ mon[s] # "line" => mon'[s] # "line"]_vars

\* The window shows Connecting, but no session is tracked and no call is at work.
Stranded == shown = "Connecting" /\ pid = 0 /\ mutex = None /\ running

\* A connect that gives up says so, unless it gives up for want of a PIN or a
\* certificate: those early returns alone leave the window in Connecting.
StrandedBySecret ==
  [][~Stranded /\ Stranded' => \E t \in Thread : NoSecret(t)]_vars

Tracked(s) == pid = s \/ \E t \in Thread : victim[t] = s

\* A running openfortivpn is lost, neither the manager's nor about to be killed,
\* only in a step that shows Error (a kill or a spawn whose call failed), that
\* puts a later session in its place, or that ignores the result of its own
\* last kill.  No other step loses it silently.
LossIsReported ==
  [][\A s \in Session :
       /\ Tracked(s) \/ proc[s] = "none"
       /\ ~Tracked(s)' /\ proc'[s] = "alive"
       => \/ shown' = "Error" \/ s < cur'
          \/ \E t \in Thread : victim[t] = s /\ KillUnheard(t)]_vars

\* A thread that updates the icon under the mutex waits for the main thread, and
\* the main thread, in a command of the window, for that mutex.
IconDeadlock ==
  \E t \in Thread \ {Main} :
    mutex = t /\ pc[t] \in Icon /\ pc[Main] \in Waiting

\* Every command and every tray event comes to an end, or the application is in
\* the deadlock between the mutex and the icon: nothing else holds a call up.
EveryCallReturns ==
  \A t \in Thread :
    pc[t] # "idle" ~> pc[t] = "idle" \/ ~running \/ IconDeadlock

\* A window that shows Disconnecting shows a result later on, with the same
\* exception.
DisconnectingResolves ==
  shown = "Disconnecting"
    ~> shown # "Disconnecting" \/ ~running \/ IconDeadlock

\* The monitor and the bandwidth monitor of a session end after its stop flag
\* is raised, also when the monitor was inside a line at that moment.
MonitorsStop ==
  \A s \in Session :
    stop[s] ~> (mon[s] = "ended" /\ ~bw[s]) \/ ~running \/ IconDeadlock

-----------------------------------------------------------------------------
(* The inductive invariant behind TypeOK, OneHolder, TrackedIsWatched and   *)
(* ConfsTracked                                                             *)

\* A connect that got past its first checks has a session number to use.
SpawnInv ==
  \A t \in Thread :
    pc[t] \in {"iconConnecting", "spawn"} => attempts < MaxAttempts

\* A thread that waits for the answer to a kill has taken the pid.
KillInv == \A t \in Thread : pc[t] = "killing" => pid = 0

\* The stop flag of a session that has not been spawned is not raised.
FreshInv == \A s \in Session : s > attempts => ~stop[s]

IInv == /\ TypeOK /\ OneHolder /\ SpawnInv /\ KillInv /\ FreshInv
        /\ TrackedIsWatched /\ ConfsTracked

\* Who is about to leave the mutex has announced a result.
ResultInv == \A t \in Thread : pc[t] = "iconEnd" => shown # "Connecting"

\* The main thread runs the commands of the window, never those of the tray.
MainInv == pc[Main] \notin {"lockDisconnect", "lockFinish", "lockQuit", "exiting"}

\* Only a thread that waits for the answer to a kill has a victim.
VictimInv == \A t \in Thread : victim[t] # 0 => pc[t] = "killing"

-----------------------------------------------------------------------------
(* What comments of the code say and the code does not do *)

\* tray.rs: the listener "bridges that gap" between the emitted events and
\* VpnManager.state.  Once the calls are over, the two should agree.
ManagerFollowsEvents == <>[](state = shown \/ ~running)
=============================================================================
