------------------------------- MODULE Helper -------------------------------
(***************************************************************************)
(* The privileged helper on Linux (helper/src), its client in the app      *)
(* (helper_client.rs) and the calls ProcessManager and the log monitors    *)
(* make.  The helper runs a thread per request, whoever still waits for    *)
(* it; the client waits five seconds.  The handlers run one command after  *)
(* the other, and each may meet a system that has changed: processes,      *)
(* interfaces and name servers are outside the sources.                    *)
(*                                                                         *)
(* A helper that is told to stop closes its connections at once, but its   *)
(* process goes on until its handlers have come to their end, while a new  *)
(* helper may already run.  One helper at a time is on its way out: this   *)
(* is a bound.                                                             *)
(*                                                                         *)
(* A session is the number of a spawn request and stands for its pid.      *)
(***************************************************************************)
EXTENDS Integers, FiniteSets

CONSTANTS MaxSessions, MaxKills,  \* bounds: spawn requests, disconnects
          Faults

ASSUME HelperAssumption ==
  /\ MaxSessions \in Nat /\ MaxKills \in Nat
  /\ Faults \subseteq {"timeout", "helperStops", "helperDies", "spawnFails", "overlap",
                       "refused"}

Session == 1 .. MaxSessions
Unit == 0 .. MaxSessions - 1   \* numbers of the ppp interfaces
Calls == ({"spawn", "kill", "setup"} \X Session) \cup ({"teardown"} \X (1 .. MaxKills))

Idle == <<"idle", 0>>

VARIABLES
  helper,    \* a helper listens
  step,      \* step[c]: the place of the handler of a call
  cut,       \* calls whose handler was left to a helper that was told to stop
  name,      \* name[s]: the interface the setup-dns of a session has chosen
  proc,      \* the process with the pid of a session
  old,       \* sessions that a helper on its way out has started
  orphans,   \* sessions whose helper has ended
  printed,   \* sessions with "Tunnel is up and running" in their log
  unit,      \* the interface of a session's pppd, -1 without one
  dns,       \* whose name servers are on that interface, 0 for nobody's
  manager,   \* what ProcessManager does: nothing, a call it waits for, a signal by pkexec
  pid, flag, \* its pid and the session of its stop_flag, 0 for none
  last, kills,  \* number of spawns and of disconnects
  stop,      \* sessions whose stop flag is raised
  monitor,   \* log monitors
  stray,     \* history: sessions another was started beside, or whose call failed
  late,      \* history: calls whose client hears no answer any more
  ended,     \* history: sessions kill_vpn has reported as ended
  spared,    \* history: sessions whose SIGKILL the user refused
  hit,       \* history: calls and the tunnels of others they took down
  astray     \* history: sessions whose pid was another program's when it got a signal

books == <<pid, flag, last, kills, stop>>
history == <<stray, late, ended, spared>>
system == <<proc, orphans, old, cut, printed, unit, dns>>
vars == <<helper, step, name, system, manager, books, monitor, history, hit, astray>>

Answers == {"ok", "failed", "lost"}
Alive == {"starting", "up", "stopping"}

TypeOK ==
  /\ helper \in BOOLEAN
  /\ step \in [Calls -> {"none", "sent", "int", "probe", "kill", "killall", "down",
                         "revert", "dns", "domain"} \cup Answers]
  /\ name \in [Session -> Unit]
  /\ proc \in [Session -> Alive \cup {"none", "zombie", "gone", "reused"}]
  /\ orphans \subseteq Session /\ old \subseteq Session /\ cut \subseteq Calls
  /\ printed \subseteq Session
  /\ unit \in [Session -> Unit \cup {-1}] /\ dns \in [Session -> {0} \cup Session]
  /\ manager \in {Idle} \cup Calls \cup ({"pkexec INT", "pkexec KILL"} \X Session)
  /\ pid \in {0} \cup Session /\ flag \in {0} \cup Session
  /\ last \in 0 .. MaxSessions /\ kills \in 0 .. MaxKills
  /\ stop \subseteq Session
  /\ monitor \in [Session -> {"none", "reading", "line", "asking", "done"}]
  /\ stray \subseteq Session /\ late \subseteq Calls
  /\ ended \subseteq Session /\ spared \subseteq Session
  /\ hit \subseteq Calls \X Session /\ astray \subseteq Session

Init ==
  /\ helper = FALSE /\ step = [c \in Calls |-> "none"]
  /\ name = [s \in Session |-> 0]
  /\ proc = [s \in Session |-> "none"] /\ orphans = {} /\ old = {} /\ cut = {} /\ printed = {}
  /\ unit = [s \in Session |-> -1] /\ dns = [s \in Session |-> 0]
  /\ manager = Idle /\ pid = 0 /\ flag = 0 /\ last = 0 /\ kills = 0 /\ stop = {}
  /\ monitor = [s \in Session |-> "none"]
  /\ stray = {} /\ late = {} /\ ended = {} /\ spared = {} /\ hit = {} /\ astray = {}

-----------------------------------------------------------------------------
(* The system: openfortivpn, pppd, the numbers of interfaces and processes *)

\* Mutant of Exited: the helper waits for its children.
ExitedReaped(s) == "gone"

\* The helper does not wait for its children: they keep their pid until it ends.
Exited(s) == IF s \in orphans THEN "gone" ELSE "zombie"

HasTunnel(s) == unit[s] # -1

\* pppd takes the lowest free number.
TunnelUp(s) ==
  /\ proc[s] = "starting"
  /\ proc' = [proc EXCEPT ![s] = "up"] /\ printed' = printed \cup {s}
  /\ \E n \in Unit : /\ \A t \in Session : unit[t] # n
                     /\ \A m \in 0 .. n - 1 : \E t \in Session : unit[t] = m
                     /\ unit' = [unit EXCEPT ![s] = n]
  /\ UNCHANGED <<helper, step, name, orphans, old, cut, dns, manager, books, monitor, history,
                 hit, astray>>

\* The process ends, for whatever reason, and pppd with it.
VpnExits(s) ==
  /\ proc[s] \in Alive
  /\ proc' = [proc EXCEPT ![s] = Exited(s)]
  /\ unit' = [unit EXCEPT ![s] = -1] /\ dns' = [dns EXCEPT ![s] = 0]
  /\ UNCHANGED <<helper, step, name, printed, orphans, old, cut, manager, books, monitor,
                 history, hit, astray>>

\* pppd hangs up; its interface goes and takes the name servers with it.
PppdExits(s) ==
  /\ HasTunnel(s)
  /\ unit' = [unit EXCEPT ![s] = -1] /\ dns' = [dns EXCEPT ![s] = 0]
  /\ UNCHANGED <<helper, step, name, printed, proc, orphans, old, cut, manager, books,
                 monitor, history, hit, astray>>

\* The pid of a process that was waited for goes to another program.
PidReused(s) ==
  /\ proc[s] = "gone"
  /\ proc' = [proc EXCEPT ![s] = "reused"]
  /\ UNCHANGED <<helper, step, name, printed, orphans, old, cut, unit, dns, manager, books,
                 monitor, history, hit, astray>>

Running(c) == step[c] \notin {"none"} \cup Answers

\* Nobody is the parent of some sessions any more: init waits for them.
Orphaned(S) ==
  /\ orphans' = orphans \cup S
  /\ proc' = [s \in Session |-> IF s \in S /\ proc[s] = "zombie" THEN "gone" ELSE proc[s]]

\* The helper is killed: its handlers end where they are.
HelperDies ==
  /\ helper /\ "helperDies" \in Faults
  /\ helper' = FALSE
  /\ step' = [c \in Calls |-> IF Running(c) /\ c \notin cut THEN "lost" ELSE step[c]]
  /\ Orphaned(1 .. last \ old)
  /\ UNCHANGED <<name, old, cut, printed, unit, dns, manager, books, monitor, history, hit,
                 astray>>

\* SIGTERM: the connections close, and only a request that has not got a thread yet is
\* dropped.  The other handlers go on.
HelperStops ==
  /\ helper /\ "helperStops" \in Faults
  /\ old = {} /\ \A c \in cut : ~Running(c)
  /\ helper' = FALSE
  /\ \E dropped \in SUBSET {c \in Calls : step[c] = "sent"} :
       step' = [c \in Calls |-> IF c \in dropped THEN "lost" ELSE step[c]]
  /\ cut' = cut \cup {c \in Calls : Running(c)}
  /\ late' = late \cup {c \in Calls : Running(c)}
  /\ old' = 1 .. last \ orphans
  /\ UNCHANGED <<name, proc, orphans, printed, unit, dns, manager, books, monitor, stray,
                 ended, spared, hit, astray>>

\* The runtime is gone when the last handler is done.
OldHelperEnds ==
  /\ old # {} /\ \A c \in cut : ~Running(c)
  /\ Orphaned(old) /\ old' = {}
  /\ UNCHANGED <<helper, step, name, cut, printed, unit, dns, manager, books, monitor,
                 history, hit, astray>>

-----------------------------------------------------------------------------
(* The handlers *)

At(c, place) == step[c] = place /\ (helper \/ c \in cut)
Go(c, place) == step' = [step EXCEPT ![c] = place]

handled == <<helper, orphans, old, cut, printed, manager, books, monitor, history>>

\* handle_spawn_vpn
HandleSpawn(s) ==
  /\ At(<<"spawn", s>>, "sent")
  /\ \/ Go(<<"spawn", s>>, "ok") /\ proc' = [proc EXCEPT ![s] = "starting"]
     \/ /\ "spawnFails" \in Faults
        /\ Go(<<"spawn", s>>, "failed") /\ UNCHANGED proc
  /\ UNCHANGED <<handled, name, unit, dns, hit, astray>>

\* is_openfortivpn_pid: ps shows a zombie with its name.
Check(s) ==
  /\ At(<<"kill", s>>, "sent")
  /\ Go(<<"kill", s>>, IF proc[s] \in Alive \cup {"zombie"} THEN "int" ELSE "failed")
  /\ UNCHANGED <<handled, name, proc, unit, dns, hit, astray>>

\* A signal to the pid of s.
Signal(s, new) ==
  /\ proc' = IF proc[s] \in Alive THEN [proc EXCEPT ![s] = new] ELSE proc
  /\ astray' = IF proc[s] = "reused" THEN astray \cup {s} ELSE astray

\* kill -INT
Interrupt(s) ==
  /\ At(<<"kill", s>>, "int") /\ Go(<<"kill", s>>, "probe")
  /\ Signal(s, "stopping")
  /\ UNCHANGED <<handled, name, unit, dns, hit>>

\* kill -0, two seconds later: a zombie still counts.
Probe(s) ==
  /\ At(<<"kill", s>>, "probe")
  /\ Go(<<"kill", s>>, IF proc[s] \in Alive \cup {"zombie", "reused"} THEN "kill"
                       ELSE "killall")
  /\ UNCHANGED <<handled, name, proc, unit, dns, hit, astray>>

\* Mutant of Kill: the process gets another SIGINT.
KillSoftly(s) ==
  /\ At(<<"kill", s>>, "kill") /\ Go(<<"kill", s>>, "killall")
  /\ Signal(s, "stopping")
  /\ UNCHANGED <<handled, name, unit, dns, hit>>

\* kill -9; pppd is not its to end.
Kill(s) ==
  /\ At(<<"kill", s>>, "kill") /\ Go(<<"kill", s>>, "killall")
  /\ Signal(s, Exited(s))
  /\ UNCHANGED <<handled, name, unit, dns, hit>>

\* Tunnels in use that are not those of the call.
Others(c) == {t \in Session : proc[t] = "up" /\ HasTunnel(t) /\ c # <<"kill", t>>}

\* killall pppd
KillallPppd(s) ==
  /\ At(<<"kill", s>>, "killall") /\ Go(<<"kill", s>>, "down")
  /\ hit' = hit \cup ({<<"kill", s>>} \X Others(<<"kill", s>>))
  /\ unit' = [t \in Session |-> -1] /\ dns' = [t \in Session |-> 0]
  /\ UNCHANGED <<handled, name, proc, astray>>

\* A second later: ifconfig ppp0 down, ifconfig ppp1 down.
InterfacesDown(s) ==
  /\ At(<<"kill", s>>, "down") /\ Go(<<"kill", s>>, "revert")
  /\ hit' = hit \cup ({<<"kill", s>>} \X {t \in Others(<<"kill", s>>) : unit[t] < 2})
  /\ UNCHANGED <<handled, name, proc, unit, dns, astray>>

\* resolvectl revert for each interface that is there, at the end of a kill-vpn and
\* in a teardown-dns.
Revert(c) ==
  /\ \/ c[1] = "kill" /\ At(c, "revert")
     \/ c[1] = "teardown" /\ At(c, "sent")
  /\ Go(c, "ok")
  /\ hit' = hit \cup ({c} \X {t \in Others(c) : dns[t] # 0})
  /\ dns' = [t \in Session |-> 0]
  /\ UNCHANGED <<handled, name, proc, unit, astray>>

\* vpn_dns_interface: ppp0, or any other.
ChooseInterface(s) ==
  /\ At(<<"setup", s>>, "sent")
  /\ \/ \E t \in Session :
          /\ HasTunnel(t) /\ (unit[t] = 0 \/ \A u \in Session : unit[u] # 0)
          /\ name' = [name EXCEPT ![s] = unit[t]]
          /\ Go(<<"setup", s>>, "dns")
     \/ /\ \A t \in Session : ~HasTunnel(t)
        /\ Go(<<"setup", s>>, "failed") /\ UNCHANGED name
  /\ UNCHANGED <<handled, proc, unit, dns, hit, astray>>

\* resolvectl dns: the interface of this name may be another session's by now.
SetServers(s) ==
  /\ At(<<"setup", s>>, "dns")
  /\ \/ \E t \in Session : /\ unit[t] = name[s]
                           /\ dns' = [dns EXCEPT ![t] = s]
                           /\ Go(<<"setup", s>>, "domain") /\ UNCHANGED name
     \/ /\ \A t \in Session : unit[t] # name[s]
        /\ Go(<<"setup", s>>, "failed") /\ UNCHANGED dns
        /\ name' = [name EXCEPT ![s] = 0]
  /\ UNCHANGED <<handled, proc, unit, hit, astray>>

\* resolvectl domain and default-route
SetDomains(s) ==
  /\ At(<<"setup", s>>, "domain")
  /\ Go(<<"setup", s>>, IF \E t \in Session : unit[t] = name[s] THEN "ok" ELSE "failed")
  /\ name' = [name EXCEPT ![s] = 0]
  /\ UNCHANGED <<handled, proc, unit, dns, hit, astray>>

-----------------------------------------------------------------------------
(* ProcessManager, under the mutex of VpnManager *)

called == <<name, system, hit, astray>>

\* What the client reads: an answer, or the end of a connection that was closed.
Answered(c) == step[c] \in Answers \/ c \in cut
Succeeds(c) == step[c] = "ok" /\ c \notin cut

\* spawn_vpn: a helper is started if none answers.  connect has looked at its state,
\* not at the pid.
Spawn ==
  /\ manager = Idle /\ last < MaxSessions
  /\ pid = 0 \/ "overlap" \in Faults
  /\ last' = last + 1 /\ manager' = <<"spawn", last'>>
  /\ helper' = TRUE /\ Go(<<"spawn", last'>>, "sent")
  /\ stray' = stray \cup ({pid} \ {0})
  /\ UNCHANGED <<called, pid, flag, kills, stop, monitor, late, ended, spared>>

Spawned(s) ==
  /\ manager = <<"spawn", s>> /\ manager' = Idle
  /\ Answered(<<"spawn", s>>)
  /\ IF Succeeds(<<"spawn", s>>)
     THEN /\ pid' = s /\ flag' = s /\ monitor' = [monitor EXCEPT ![s] = "reading"]
          /\ UNCHANGED stray
     ELSE stray' = stray \cup {s} /\ UNCHANGED <<pid, flag, monitor>>
  /\ UNCHANGED <<helper, step, called, last, kills, stop, late, ended, spared>>

\* Mutant of Raised: the flag stays down.
NotRaised == stop

\* stop_flag.store(true)
Raised == stop \cup ({flag} \ {0})

\* resolvectl run by the app, if the user may.
RevertDirectly(c) ==
  \/ /\ hit' = hit \cup ({c} \X {t \in Others(c) : dns[t] # 0})
     /\ dns' = [t \in Session |-> 0]
  \/ UNCHANGED <<hit, dns>>

\* kill_vpn: the flag is raised and the pid taken before anything else.
KillVpn ==
  /\ manager = Idle /\ kills < MaxKills
  /\ kills' = kills + 1 /\ stop' = Raised /\ pid' = 0
  /\ \E c \in Calls :
       /\ c = IF pid # 0 THEN <<"kill", pid>> ELSE <<"teardown", kills'>>
       /\ \/ helper /\ manager' = c /\ Go(c, "sent") /\ UNCHANGED <<hit, dns>>
          \/ /\ ~helper /\ pid # 0 /\ manager' = <<"pkexec INT", pid>>
             /\ UNCHANGED <<step, hit, dns>>
          \/ ~helper /\ pid = 0 /\ RevertDirectly(c) /\ UNCHANGED <<manager, step>>
  /\ UNCHANGED <<helper, name, proc, orphans, old, cut, printed, unit, flag, last, monitor,
                 history, astray>>

\* Mutant of Killed: the answer is not waited for.
KilledAtOnce(s) ==
  /\ manager = <<"kill", s>> /\ manager' = Idle
  /\ IF step[<<"kill", s>>] = "failed"
     THEN stray' = stray \cup {s} /\ UNCHANGED ended
     ELSE ended' = ended \cup {s} /\ UNCHANGED stray
  /\ UNCHANGED <<helper, step, called, books, monitor, late, spared>>

Killed(s) ==
  /\ manager = <<"kill", s>> /\ manager' = Idle
  /\ Answered(<<"kill", s>>)
  /\ IF Succeeds(<<"kill", s>>)
     THEN ended' = ended \cup {s} /\ UNCHANGED stray
     ELSE stray' = stray \cup {s} /\ UNCHANGED ended
  /\ UNCHANGED <<helper, step, called, books, monitor, late, spared>>

\* Whatever teardown-dns answers, kill_vpn reports success.
TornDown(n) ==
  /\ manager = <<"teardown", n>> /\ manager' = Idle
  /\ Answered(<<"teardown", n>>)
  /\ UNCHANGED <<helper, step, called, books, monitor, history>>

\* No answer within five seconds: an error like any other, but the handler goes on.
TimeOut(c) ==
  /\ manager = c /\ manager' = Idle /\ "timeout" \in Faults
  /\ late' = late \cup {c}
  /\ stray' = IF c[1] = "teardown" THEN stray ELSE stray \cup {c[2]}
  /\ UNCHANGED <<helper, step, called, books, monitor, ended, spared>>

\* Without a helper, pkexec kill -INT: of whatever has the pid, if anything has.
PkexecInterrupt(s) ==
  /\ manager = <<"pkexec INT", s>>
  /\ \/ /\ proc[s] # "gone"
        /\ manager' = <<"pkexec KILL", s>> /\ Signal(s, "stopping") /\ UNCHANGED stray
     \/ /\ proc[s] = "gone" \/ "refused" \in Faults
        /\ manager' = Idle /\ stray' = stray \cup {s} /\ UNCHANGED <<proc, astray>>
  /\ UNCHANGED <<helper, step, name, orphans, old, cut, printed, unit, dns, books, monitor,
                 late, ended, spared, hit>>

\* Two seconds later pkexec kill -KILL, whose result is not looked at.
PkexecKill(s) ==
  /\ manager = <<"pkexec KILL", s>> /\ manager' = Idle
  /\ ended' = ended \cup {s}
  /\ \/ Signal(s, Exited(s)) /\ UNCHANGED <<stray, spared>>
     \/ /\ "refused" \in Faults
        /\ stray' = stray \cup {s} /\ spared' = spared \cup {s}
        /\ UNCHANGED <<proc, astray>>
  /\ UNCHANGED <<helper, step, name, orphans, old, cut, printed, unit, dns, books, monitor,
                 late, hit>>

-----------------------------------------------------------------------------
(* The log monitors *)

\* A monitor looks at its flag, then reads that the tunnel is up.
ReadLine(s) ==
  /\ monitor[s] = "reading" /\ s \notin stop /\ s \in printed
  /\ monitor' = [monitor EXCEPT ![s] = "line"]
  /\ UNCHANGED <<helper, step, called, manager, books, history>>

\* dns_manager::setup_dns; without a helper the app runs resolvectl itself.
SetupDns(s) ==
  /\ monitor[s] = "line"
  /\ \/ /\ helper /\ Go(<<"setup", s>>, "sent")
        /\ monitor' = [monitor EXCEPT ![s] = "asking"] /\ UNCHANGED dns
     \/ /\ ~helper /\ monitor' = [monitor EXCEPT ![s] = "done"] /\ UNCHANGED step
        /\ \/ \E t \in Session :
                /\ HasTunnel(t) /\ (unit[t] = 0 \/ \A u \in Session : unit[u] # 0)
                /\ dns' = [dns EXCEPT ![t] = s]
           \/ UNCHANGED dns
  /\ UNCHANGED <<helper, name, proc, orphans, old, cut, printed, unit, manager, books, history,
                 hit, astray>>

\* The answer, or five seconds without one.
SetupEnds(s) ==
  /\ monitor[s] = "asking"
  /\ Answered(<<"setup", s>>) \/ "timeout" \in Faults
  /\ monitor' = [monitor EXCEPT ![s] = "done"]
  /\ UNCHANGED <<helper, step, called, manager, books, history>>

-----------------------------------------------------------------------------
Handlers ==
  \/ \E s \in Session :
       \/ HandleSpawn(s)
       \/ Check(s) \/ Interrupt(s) \/ Probe(s) \/ Kill(s)
       \/ KillallPppd(s) \/ InterfacesDown(s)
       \/ ChooseInterface(s) \/ SetServers(s) \/ SetDomains(s)
  \/ \E c \in Calls : Revert(c)

App ==
  \/ Spawn \/ KillVpn
  \/ \E s \in Session :
       \/ Spawned(s) \/ Killed(s) \/ PkexecInterrupt(s) \/ PkexecKill(s)
       \/ ReadLine(s) \/ SetupDns(s) \/ SetupEnds(s)
  \/ \E n \in 1 .. MaxKills : TornDown(n)
  \/ \E c \in Calls : TimeOut(c)

System ==
  \/ \E s \in Session : TunnelUp(s) \/ VpnExits(s) \/ PppdExits(s) \/ PidReused(s)
  \/ HelperDies \/ HelperStops \/ OldHelperEnds

Next == Handlers \/ App \/ System

Spec == Init /\ [][Next]_vars

-----------------------------------------------------------------------------
\* After kill_vpn has reported success the process of the session has ended, however
\* openfortivpn takes SIGINT; but for a SIGKILL by pkexec the user refuses, which
\* kill_vpn ignores.
KillEnds == \A s \in ended : proc[s] \notin Alive \/ s \in spared

\* killall pppd, ifconfig down and the revert of every ppp interface leave the tunnels
\* of other sessions alone: a clean-up meets one only if its own caller hears no answer
\* any more (after five seconds, or because the helper was told to stop and the handler
\* goes on without it), or if the manager has lost the other session already.
OthersKeepTunnel ==
  [][\A c \in Calls, t \in Session :
       <<c, t>> \in hit' \ hit => c \in late \/ t \in stray]_vars

\* A tunnel has the name servers of its own session.  Those of another get there only
\* by a monitor that was stopped in the middle of the line, or when the manager has
\* lost one of the two.
DnsIsOwn ==
  \A t \in Session : proc[t] = "up" /\ dns[t] \notin {0, t} =>
    dns[t] \in stop \/ {t, dns[t]} \cap stray # {}

\* A signal hits a process that is no openfortivpn only if the helper that started the
\* session has ended: a living one keeps the pids of its children from being used again.
SignalsHitVpn == astray \subseteq orphans
=============================================================================
