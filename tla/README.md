# Verification of openfortivpn-connect

openfortivpn-connect is a desktop client (Tauri: a Rust back end, a React
window and a tray menu) that starts a bundled `openfortivpn` (C) as root,
usually through a privileged helper daemon, reads its log, and shows what state
the VPN is in. This directory holds TLA+ models of the core of all three
programs, the TLC configurations that check them, and machine-checked proofs.

    tlc -workers 2 -config MCHelper.cfg MCHelper      # a run
    tlapm HelperProofs.tla                            # a proof module

`PROJECT.json` lists the runs, the source lines every definition stands for, the
mutants that show each property can fail, the hazards, the findings and the
theorems.

## 1. Inventory

Paths are below `src/`; `A` is `src-tauri/src`, `O` is
`src-tauri/openfortivpn/src`, `H` is `src-tauri/helper/src`.

| Component | State | Operations | Interacts with | What is hard | What must hold | Module |
|---|---|---|---|---|---|---|
| **Connection manager** `A/vpn_manager.rs` | `state`, `active_profile_id`, the `ProcessManager`, in one `Mutex<VpnManager>` | `connect`, `begin_disconnect`, `finish_disconnect`, `disconnect`, `sync_state_from_payload` | commands, tray, status events, the icon | a disconnect in two halves, returns after an announcement, events that come back through threads | what is shown has a session behind it; every call ends | `ConnectionManager` |
| **Process manager** `A/process_manager.rs` | `pid`, `stop_flag`, monitor task, `log_file_path`, `runtime_paths` | `spawn_vpn`, `kill_vpn`, log and bandwidth monitor | helper or `pkexec`, temporary files, events | a failed or timed-out call leaves half of the work; a monitor ends only between lines | pid, flag, monitor and files belong to one session; files are removed | `ConnectionManager`, `Helper` |
| **Commands and tray** `A/commands.rs`, `A/tray.rs`, `A/lib.rs` | the menu, the selected profile | synchronous commands, a thread per menu event and per status event | the manager's mutex; the main thread's icon | the main thread waits for a mutex whose holder waits for it | no deadlock; the manager follows the events | `ConnectionManager` |
| **Privileged helper** `H/*`, `A/helper_client.rs` | child processes, a socket, name servers | `ping`, `spawn-vpn`, `kill-vpn`, `setup-dns`, `teardown-dns` | one thread per request; the client waits 5 s | handlers overlap; answers come too late; nobody waits for the children | a kill ends its process; clean-ups and DNS reach only their own session; only an openfortivpn is signalled | `Helper` |
| **DNS manager** `A/dns_manager.rs` | list of name servers | parse, apply, restore | log monitor, helper | the interface is looked up by name | a tunnel has its own name servers | `Helper` |
| **Tunnel life cycle** `O/tunnel.c`, `O/main.c` | the tunnel, pppd's pid, exit status | `main`, `run_tunnel`, `ssl_connect`, `pppd_run`, `pppd_terminate`, the loop of `--persistent` | gateway, pppd, signals | clean-up after each failing step; second attempts; signals between runs | what a step set up is taken down; sessions are logged out | `Client` |
| **Authentication and SAML** `O/http.c`, `O/http_server.c`, `O/xml.c` | cookie, one-time password, buffer, a listening socket | log in, second factor, receive an answer, receive the SAML id | gateway, browser | a request sent twice; answers in pieces; sizes in `uint32_t` | nothing goes to an unverified gateway; an answer is whole and belongs to its request | `Client`, `Http` |
| **I/O loop** `O/io.c`, end of `run_tunnel` | two packet pools, three semaphores, five threads, `tunnel->state` | `pool_push`, `pool_pop`, five threads, `sig_handler`, `io_loop` | pty of pppd, TLS socket, routes | cancellation at any point | order of packets, no lost wakeup, the loop ends, nothing outlives it | `TunnelIO` |
| **HDLC framing** `O/hdlc.c`, `pppd_read` | frame buffers | `hdlc_encode`, `hdlc_find_frame`, `hdlc_decode` | I/O loop | flags shared by two frames, reads of any length | packets come out as they went in; no buffer overruns | `Hdlc` |
| **Routes and name servers** `O/ipv4.c` | saved and added routes, three flags for resolv.conf | set, protect, restore | `on_ppp_if_up` (a thread), `on_ppp_if_down` | the table changes meanwhile; steps fail | the gateway stays outside its tunnel; what others own is restored | `Network` |
| **Configuration** `O/config.c`, `O/main.c` | `cli_cfg`, `cfg` | options, lines, merge | everything of openfortivpn | field by field, "unset" values, early ends | precedence of the sources | `Configuration` |
| **Input and logging** `O/userinput.c`, `O/log.c` | - | prompts, messages | - | - | - | not modelled |
| **Helper installation** `A/helper_installer.rs` | installed files | `install`, `uninstall` | service manager | I/O | - | not modelled |
| **Stores** `A/profile_store.rs`, `A/keychain.rs`, `A/settings_store.rs` | JSON files | load, save, delete | commands, partly outside the mutex | read-modify-write without a lock | no lost update | not modelled |
| **Front end** `src/App.tsx`, `src/hooks/*`, `src/components/*` | status, log, profiles, forms | commands, events | commands and events | an answer older than an event | the window shows the last state | one variable of `ConnectionManager` |

## 2. Modules

| Module | Models | With |
|---|---|---|
| `ConnectionManager` | the app: manager, processes, threads, listeners, monitors | `MCConnectionManager`, `ConnectionManagerProofs` |
| `Helper` | the helper's handlers, its clients in the app, processes, interfaces and name servers of the system | `MCHelper`, `HelperProofs` |
| `Client` | one openfortivpn process from `main` to its exit, and the gateway | `MCClient`, `ClientProofs` |
| `TunnelIO` | the threads of a running tunnel | `PacketChannel` (abstract), `MCTunnelIO`, `TunnelIOProofs` |
| `Network` | routes and resolv.conf | `MCNetwork`, `NetworkProofs` |
| `Http` | `http_receive` under `http_request` | `MCHttp`, `HttpProofs` |
| `Hdlc` | framing and the buffer of `pppd_read` | `MCHdlc`, `HdlcProofs` |
| `Configuration` | options, lines, merge | `MCConfiguration`, `ConfigurationProofs` |

The modules meet at interfaces the code has: `Client` sees of `TunnelIO` that
`io_loop` begins and ends, `Network` is what `on_ppp_if_up` and
`on_ppp_if_down` do inside `TunnelIO`'s `TunnelIsUp` and `InterfaceDown`, `Http`
refines the sending and receiving of `Client`, `Hdlc` the whole packets of
`TunnelIO`, and `Helper` the spawns and kills that in `ConnectionManager` only
succeed, fail or are lost. They are checked separately: their product is out of
TLC's reach.

### ConnectionManager

A *session* is the number of the spawn attempt. `state`, `pid`, `stop`, `logPath`
and `runtime` are the fields of the same names; `cur` says whose flag
`stop_flag` is. `mutex` is the holder of `Mutex<VpnManager>`; `pc` gives what
each thread does: the main thread runs the event loop and the synchronous
commands of the window (`get_status` stands for all that only read), a *worker*
is the thread of a tray event or the task `commands::disconnect` spawns. The
actions follow the lock sections: `Connect`, `ConnectIcon`, then `Spawned`,
`SpawnError` or `NoSecret`; `BeginDisconnect` and `FinishDisconnect` (window) or
`Disconnect` and `DisconnectIcon` (tray), then `KillVpn`, `Killed` or
`KillFailed`, `Unlock`. Steps inside a lock section are separate where somebody
can see or disturb what lies between: the icon, the request to the helper, the
listeners. Every event (`Emit`) sets what the window shows (`shown`) and starts
a listener thread, kept in `syncs` with the `try_lock` attempts left
(`SyncApply`, `SyncRetry`). A monitor opens its log, tests the flag and reads a
line, and answers it (`MonitorOpen`, `MonitorRead`, `MonitorLine`); only between
lines can it be stopped.

`KillUnheard` is the end of `kill_vpn` whose `pkexec -KILL` was refused: its
result is ignored, the call returns Ok, the process lives.

Abstractions: the contents of a profile; helper and `pkexec` as one service; the
section of the tray's connect that reads the selected profile; lines no monitor
reads. The tray's menu is a snapshot that listener threads make again in no order
(`A/tray.rs:86`), so that a tray call is possible in every state. A file that
`fs::write` has created but not filled (`A/process_manager.rs:376`) is not
modelled: it would be on disk and not in `runtime_paths`. "Tunnel is down" is in the model because the monitor
handles it. `Tries` is 10 in the code and 1 or 2 here: more attempts only give a
thread longer to be late.

### Helper

A session is the number of a spawn request and stands for its pid. `step[c]` is
the place of the handler of a call: `kill-vpn` goes through `Check` (ps),
`Interrupt`, `Probe` (kill -0), `Kill`, `KillallPppd`, `InterfacesDown` and
`Revert`, `setup-dns` through `ChooseInterface`, `SetServers` and `SetDomains`,
each one command, with those of other requests in between (`server.rs` gives
every request a blocking thread). `manager` is the call or the `pkexec` the
mutex holder waits for, `TimeOut` the five seconds of `send_request`, after
which the handler goes on. `proc`, `unit` and `dns` are the system: a process is
a `zombie` as long as its helper lives, since nobody waits for it, and its pid
can be reused only after that; pppd takes the lowest free interface number; name
servers go with the interface. `late`, `stray`, `spared`, `ended`, `hit` and
`astray` are history: calls whose client hears no answer any more, sessions the
manager has lost, processes whose SIGKILL was refused, sessions reported as ended,
tunnels a clean-up took down, pids that were somebody else's.

A helper ends in two ways. `HelperDies` is SIGKILL or a crash: handlers end where
they are. `HelperStops` is SIGTERM: `main` returns, the connections close at once,
so that clients see the end of the stream (`cut`), and the drop of the runtime
waits for the blocking handlers, which go on to `killall pppd`, `ifconfig down`
and the revert while a new helper may already serve the next session;
`OldHelperEnds` is the exit of the process, and `old` are the sessions it has
started. One helper at a time is on its way out: this is a bound.

Abstractions: Linux only, where `get_default_gateway` yields nothing, so that the
restoration of a gateway is not modelled; the app does not run as root;
arguments are valid. `pkexec` for the start of the helper succeeds, and no second
helper is started when a ping times out. That a refused second `pkexec`
(SIGKILL) counts as a success is in the model (`spared`). `overlap` (a spawn over
a tracked session) comes from the stale states `connection_sync` shows.

### Client

The program is sequential: `pc` is its place, `back` and `req` where
`ssl_connect` and `http_request` return to. `sock`, `ctx`, `ssl`, `verified` and
`fds` are the connection; `cookie` and `otp` the credentials; `open`, `granted`
and `answer` the gateway's side. Actions are grouped as in the code: main
(`Refuse`, `Start`, `RunEnds`, `WakeUp`, `StopSleeping`), the SAML server
(`SamlRequest`, `SamlTimeout`, `SamlEnds`), `ssl_connect` step by step with its
failures, a request (`Send`, `SendFails`, `SendWithoutHandle`, `ReceiveFails` and
one action per kind of answer), pppd (`PppdStarts`, `PppdFails`, `Switch`,
`PppdTerminate`) and the beginning and end of `io_loop`. `SendFails` takes the path
of a broken connection, which is tried again, or that of a request `http_send`
refuses to make (`ERR_HTTP_INVALID`, `ERR_HTTP_TOO_LONG`), which is not;
`BadCookie` is a cookie given with `--cookie` that has no `SVPNCOOKIE`, is empty or
too long. `Faults` are `fcntl` on the pty after the fork, memory for pppd's
arguments, for want of which the child itself returns through `err_tunnel`, and
`waitpid`. A signal can come at any
point: before the handler is installed it kills the process.

Abstractions: cookies and passwords are values; pages, XML and forms are the
outcome of their parsing; timing of the OTP delay is left out.

### TunnelIO

`pc` has one label per point of a worker at which it can be delayed, `hold` the
packet it carries, `queue`, `owner` and `wake` a pool's list, mutex and
condition, `pppdReady`, `ifConfig` and `stopIO` the semaphores. `pool_pop` is
`PopLock`, then `Pop` or `PopEmpty`, `CondWait`, `Return`: the decision to wait
and the wait are two steps. Cancellation is POSIX deferred cancellation: a
cancelled thread ends at a cancellation point (`Cancelled`), one inside
`pthread_cond_wait` takes the mutex first and ends with it (`CancelledInWait`), one
inside `printf` ends with the mutex of the log (`CancelledInLog`), which is robust
on Linux and lost on macOS (`logLost`). `Platform` also decides whether waiting for
a semaphore is a cancellation point: `sem_wait` is, the `semaphore_wait` of macOS is
not. The main thread creates the workers, waits for `sem_stop_io`, cancels and joins
in the code's order, and `InterfaceDown` follows; `CreateThreadFails` is the
early return of `io_loop`, with the workers created so far left behind.
`PppdReadDrops` is a failing `malloc` in `pppd_read`, after which the thread goes on
without the packet, `PtySelectFails` the packet `pppd_write` drops. `PacketChannel`
is the specification of both directions: in order, nothing twice, nothing left out
but what was recorded as lost; it may stop at any time.

Abstractions: a packet is the number in which it was read; signals after the
joins, where the semaphore is destroyed; what OpenSSL does when two threads use
one object; what `on_ppp_if_down` restores when its own calls fail, which `Network` has.

### Network

A network is a name with a mask length and the destinations in it; there are two
devices besides the tunnel's, since `ipv4_get_route` looks for "not ppp" until a
first match has overwritten that filter (`Candidates`). `table` is
the kernel's, `def`, `gtw`, `ppp`, `added` and `split` are the fields of
`struct ipv4_config`, `file` the lines of resolv.conf, `wasThere` the three
flags. Linux keeps several routes to one network and reports errors, macOS keeps
one and its failures are not seen. `InterfaceComesUp` (pppd may make a host route
to the gateway), `PppGone` (routes go with the interface) and `Renew` (DHCP) are
the environment; `Call` lets a call fail. Up is `DropWrongRoute`,
`ProtectTunnelRoute`, `AddGatewayRoute`, `AddSplitRoute` or the halves of
`SetDefaultRoute`, `AddNameservers`; down is `RestoreRoutes` and
`RemoveNameservers`. `ProtectFails` is a protection that does not come about, for
want of a default route or of memory; `SplitRoutes` go by the address the gateway
assigned, which may not be the interface's (`assigned`), and the search list may be
none, one domain, several, or the empty one of an empty attribute (`bareSearch`).
`Searched` models what `strtok_r` does to the buffer the
later searches read, `Without` is the loop that copies the file but for the lines
that were added. A table of macOS is assumed to have one route per network
(`OnePerNet` in `CasesAssumption`), which its kernel sees to.

Not modelled: the external resolvconf, the parsing of `/proc/net/route` and
`netstat`, the ioctls themselves, metrics, memory for the array of split routes
(`ipv4_add_split_vpn_route`).

### Hdlc, Http, Configuration

`Hdlc` has bytes: `Frame` is `hdlc_encode`, `IsFrame` and `NoFrame` are
`hdlc_find_frame`, `Decode` is `hdlc_decode`, and `Read`, `TakeFrame` and `Shift`
are the loop of `pppd_read` around them, `NoMemory` its two ways without a packet:
`malloc` fails and the frame is skipped (`Skipped` in `got`), or `realloc` fails and
the thread ends. The checksum is a parameter: each packet
has its two bytes, and a frame with other ones is invalid.

`Http` has sizes: a response is those of its header and body, the length it
declares, and where the end of a chunked body seems to be. A byte is the number
of its request and its position, so that two answers can be told apart. An answer
may say that the user is denied (`denial`, `ERR_HTTP_PERMISSION`), memory may be
missing (`ERR_HTTP_NO_MEM`), and a caller may want no response (`wanted`), which skips
the assertion at the end. Sizes are counted modulo `MaxUint + 1`.

`Configuration` sorts the options by the way they are kept (`Switches`, `Numbers`,
`Arrays`, `Strings`, and those of one source only); `Kept` says which values
`invalid_cfg` and the emptiness tests take for "not given", `Unheard` which words of
the command line are lost by that, `Meant` what was asked for. `HostArg` and
`ReadHost` are the host[:port] outside the options, which overrides the file after
the merge; `Check` is the end of `main`'s checks. `lost` are certificates
`add_trusted_cert` had no memory for. A failing `strdup` is not modelled.

## 3. Runs

| Run | Instance | Distinct states | Properties |
|---|---|---|---|
| `connection_safety` | 2 workers, window and tray, 3 calls, 2 spawns; every fault | 2.2 M | `TrackedIsWatched`, `ConfsTracked`, `StrandedBySecret`, `LossIsReported` |
| `connection_live` | 2 workers, window and tray, 2 calls, 2 spawns; missing profile or secret, failing spawn or kill | 0.16 M | `EveryCallReturns`, `DisconnectingResolves`, `MonitorsStop` |
| `helper` | 2 sessions, 1 disconnect, every fault | 1.6 M | `KillEnds`, `OthersKeepTunnel`, `DnsIsOwn`, `SignalsHitVpn` |
| `client` | 7 configurations, 2 runs, 2 sessions of the gateway, every fault | 0.51 M | `ConnectionWhole`, `SendsOnlyVerified`, `SessionsLoggedOut`, `PppdEnded`, `OtpOfFormsUsedOnce`, `SignalEndsProcess` |
| `tunnel_safety` | macOS; 2 packets each way, every fault | 3.8 M | `NoLostWakeup`, `PppdTalksFirst`, `RoutesLeftOnlyByCancel`, `LeftBehindHarmless`, `PtyToSslInOrder`, `SslToPtyInOrder` |
| `tunnel_live` | Linux; 1 packet each way, 1 poll, 1 signal, failing `pthread_create` | 0.35 M | `PacketsMove`, `StopEndsOrSticks` |
| `network` | all route configurations on 8 tables, all DNS configurations on 9 files; 1 failing call, 1 renewal | 0.13 M | `GatewayOutsideTunnel`, `HalfRoutesSurviveRenewal`, `RoutesRestored`, `ResolvRestored`, `ForeignRoutesKept` |
| `hdlc` | up to 3 of 5 packets of special bytes, buffer of 16, missing memory | 56 k | `TypeOK`, `PacketsInOrder`, `NothingLeft`, `EncoderFits` |
| `http` | 2 requests, 17 kinds of answer, 5-bit sizes, missing memory | 27 k | `TypeOK`, `AnswerIsWhole`, `LossesHaveReasons`, `EveryRequestEnds` |
| `configuration` | 2 arguments, 2 lines, an option of each kind with the values that matter | 0.91 M | `LastWordCounts`, `TrustFromOneSource` |
| `connection_sync`, `configuration_override` | as `configuration`; 1 call of the tray | - | findings, section 5 |

**What the properties say.**

- *The app.* `TrackedIsWatched`: pid, stop flag, monitor and log path belong to
  one session in every interleaving of spawns, kills and failures.
  `ConfsTracked`: an OpenSSL configuration in `/tmp` is recorded for removal
  whatever failed. `StrandedBySecret`: only the early returns for a missing PIN or
  certificate leave the window in Connecting with nothing behind it; a mutant of any
  other error path that forgets its Error is found. `LossIsReported`: a running
  openfortivpn drops out of the books only with an Error shown, behind a later spawn,
  or in the step that ignores a refused `pkexec -KILL`. `EveryCallReturns` and
  `DisconnectingResolves` hold unless main thread and mutex wait for each other over
  the icon (`IconDeadlock`, section 5).
- *The helper.* `KillEnds`: what `kill_vpn` reported as ended has ended, however
  openfortivpn takes SIGINT, unless the user refused `pkexec -KILL`.
  `OthersKeepTunnel`: `killall pppd`, `ifconfig down` and the revert of every ppp
  interface, which name no session, meet the tunnel of another only when their caller
  hears no answer any more (five seconds are over, or the helper was told to stop and
  the handler went on) or the manager has lost that session: the mutex of
  `VpnManager`, held over the call, is what protects it.
  `DnsIsOwn`: the name servers of another session reach a tunnel only through a
  monitor that was stopped in the middle of a line, or a lost session.
  `SignalsHitVpn`: a pid cannot be reused while the helper that started the process
  lives, because it never waits for its children. What looks like a leak protects the
  unguarded `kill -9` two seconds after the check.
- *The client.* `ConnectionWhole`: socket, context and handle are there together
  or not at all outside `ssl_connect`, and no socket leaks over reconnections.
  `SendsOnlyVerified`: the second attempt of `http_request` ignores the result of
  `ssl_connect`, and still nothing goes to an unverified gateway.
  `SessionsLoggedOut`: a session stays open only if its cookie never came or the
  log out could not be sent. `PppdEnded` names the two calls after whose failure a
  pppd is not waited for, `OtpOfFormsUsedOnce`: a password of a form is not sent again
  after its request. `SignalEndsProcess`: after a signal, in a tunnel or in a log in
  of a later run, the process ends or from then on waits for somebody else at one
  place (gateway, browser, pppd, a tunnel nobody ends); no loop of attempts or runs
  goes on.
- *The tunnel.* `NoLostWakeup`; each direction implements `PacketChannel`, where
  what is left out was recorded by a failing `malloc` or `select` and by nothing else;
  `PppdTalksFirst` is the order the semaphore is for; `RoutesLeftOnlyByCancel`:
  only a cancellation inside `on_ppp_if_up` leaves routes behind;
  `LeftBehindHarmless`: workers that outlive `io_loop` after a failed
  `pthread_create` touch no routes, because `if_config` is created last.
  `StopEndsOrSticks` names the three ways in which the join can hang.
- *Routes and resolv.conf.* `GatewayOutsideTunnel`: while the tunnel is up
  packets to the gateway stay outside it, whatever is pushed; without a default
  route before there is no protection, and only a pushed route may take them in.
  `HalfRoutesSurviveRenewal`: with the two half routes a renewal of the default
  route takes nothing out of the tunnel, unless the table had a route to a half of
  its own. `RoutesRestored`
  and `ResolvRestored` name the cases in which the system is not what it was;
  `ForeignRoutesKept` asks the same of every single step, with failures.
- *Pure parts.* `PacketsInOrder` (a frame without memory costs its own packet only),
  `NothingLeft`, `EncoderFits`; `AnswerIsWhole`; `LossesHaveReasons` gives each way an
  answer is lost (denied, too long, no memory, the assertion) the answers it is
  confined to; `LastWordCounts`, `TrustFromOneSource` compare the code with
  a definition over the whole history of inputs.

**Bounds.** Two workers are one thread inside a lock section and one about to
enter it or in the second half of another call; main thread and listeners come
on top. Three calls give connect, disconnect, connect in any overlap, two spawns
the displacement of a process. Two sessions and one kill of `Helper` are what
any of its properties relates (a clean-up and the session it meets); two `ppp` units
are those `ifconfig` names. Two
runs of `Client` give a reconnection and what it finds of the run before, two
grants a log in that was answered twice. Two packets are what a gap, a swap or a
duplicate needs; polls are left to `tunnel_live`, and
`MaxSignals = 0` in `tunnel_safety` because a signal and a failing read post the
same semaphore. `tunnel_safety` runs on macOS, which has every step of Linux but a
cancellation at a semaphore, and more; the proofs cover both. The tables of
`MCNetwork` have no default route, one, two on two devices, a
host route to the gateway, an attached network around it, a network the gateway
also pushes, and one half of the internet; the files put the tunnel's lines first,
later, and both.
Three packets do not fit into the 16 bytes of the buffer at once, so that
frames are cut and the rest is shifted. Five-bit sizes
let the buffer double twice and the last doubling overflow. Two arguments and two
lines are a first and a last word of each source. All but the
liveness properties are also proved for every size (section 4).

**Deadlock** is checked in `connection_sync`, where no command of the window
exists. It is off where the system may stop: `connection_safety` and
`connection_live` (the window's commands bring the deadlock over the icon, which the
liveness properties name as their only exception), the runs of `TunnelIO` (the join
may hang, section 5), and the programs that end or use up a bound: `client`,
`network`, `hdlc`, `http`, `configuration`, `helper`.

**Fairness.** Threads and tasks that can run do so in the end (weak fairness per
thread of `ConnectionManager` and `TunnelIO`): the operating system and the async
runtime schedule them, there are no priorities and no busy loop without sleep.
The helper or `pkexec` answers or times out. `Client` is one sequential program that
goes on by itself except where it waits for others without a time limit (`Waiting`:
the gateway, the proxy, the browser, the user, the token, `io_loop`, pppd): its
fairness is `WF_vars(Step /\ ~Waiting)`, and nothing is assumed of these. `Http` has
weak fairness on reading what has arrived and on noticing a closed connection.
Nothing is assumed of the user, pppd, the gateway or signals. `Helper`, `Network`,
`Hdlc` and `Configuration` are checked for safety only and state none.

## 4. Proofs

For every value of the constants; assumptions are the named ones in the modules
(`ConstantsAssumption`, `HelperAssumption`, `BoundsAssumption`, ...), which TLC
evaluates in the runs.

| Module | Theorems |
|---|---|
| `ConnectionManagerProofs` | `Invariant`, `TypeCorrect`, `MutualExclusion`, `TrackedSessionIsWatched`, `ConfigurationsAreTracked`, `OnlySecretsStrand`, `NoSilentLoss`, `MonitorsObeyTheFlag` (after the flag a monitor takes no line), `DisconnectsGoOn`, `StoppedSessionsHaveMonitors`, `IconServedOrDeadlock` |
| `HelperProofs` | `Invariant`, `TypeCorrect`, `KillIsFinal`, `SignalsStayOnCourse`, `ServersAreOwn`, `OthersSafe` |
| `ClientProofs` | `Invariant`, `TypeCorrect`, `Connection`, `Verified`, `Sessions`, `PppdReaped`, `OtpOnce`, `Success` (success means pppd has run), `SignalEndsRuns` (no further run after a signal) |
| `TunnelIOProofs` | `Invariant`, `TypeCorrect`, `WakeupNotLost`, `PtyToSslKeepsOrder`, `SslToPtyKeepsOrder`, `LossesNeedFaults` (without failing `malloc` and `select` both are FIFO), `PppdTalksBeforeItIsWrittenTo`, `ConfigurationWaits`, `RoutesAreRestoredOtherwise`, `LeftBehindTouchNoRoutes`, `WaysToStick` |
| `NetworkProofs` | `Invariant`, `TypeCorrect`, `GatewayRoute`, `HalfRoutes`, `TableRestored`, `FileRestored`, `OthersKeepRoutes` |
| `HttpProofs` | `Invariant`, `TypeCorrect`, `Answer`, `Failures`, `ReadsNeverWait`, `RoundsAreBounded` |
| `HdlcProofs` | `Decoded` (decoding what was encoded gives the packet back), `TypeCorrect`, `InOrder`, `AllTaken`, `EncoderSafe` |
| `ConfigurationProofs` | `Invariant`, `TypeCorrect`, `Merging`, `TokenHasEngine`, `Trust` |

Every invariant and every action property of the passing runs is stated by one
of these theorems. The type invariants of `ConnectionManager`, `TunnelIO`, `Client`,
`Helper`, `Network` and `Configuration` are proved and not repeated by their runs; the
invariants were checked with TLC before they were proved.

*The connection core.* `OneHolder` is what everything rests on: while a thread is
between two steps of a lock section no other one is, so that what it read still
holds. `SpawnInv` carries the bound of `attempts` from `Connect` to the spawn,
`KillInv` says that a thread waiting for a kill has taken the pid, `FreshInv`
that a new session starts with its flag down. The lemmas `LockSteps`,
`OtherSteps`, `OtherEvents` and `ProcessSteps` classify the steps once by what
they touch. `OnlySecretsStrand` is about steps: whoever leaves the mutex with
Connecting shown and no pid is a `NoSecret`, because every other way out has
announced a result before (`ResultInv`). `IconServedOrDeadlock` needs that the main
thread never runs the calls of the tray (`MainInv`): a thread at the icon that the
main thread does not serve holds the mutex the main thread waits for.

*The helper.* `DnsIsOwn` and `OthersKeepTunnel` are not inductive: they rest on
who knows of a session. `BooksInv` says that a handler that has not answered is
the one the manager waits for, or nobody hears its answer (handlers left behind by
a stopping helper, `cut`, are among these), and that whoever is
alive is in the books, being dealt with, or lost; so at a clean-up with a waiting
caller every other living session is lost. `MonitorInv` ties monitors to the flag
of the session in the books, `DnsInv` name servers to interfaces and interfaces
to processes. `CallInv` orders spawn and kill of a session, `KillInv` says that
from SIGKILL on the process has ended, `PidInv` that pids are free only after
their helper's end. `LeftAlone` is what an end of a helper leaves of every session
it did not start; `HelperDies` and `OldHelperEnds` both rest on it.

*The client.* `ConnFlags` fixes, for each place, which of socket, context and
handle exist, `SocketCount` ties them to the number of sockets. `SessionInv` says
that an open session is one whose cookie the client has, or is on its way, or was
missed, and that a log in begins without one: the log out at the end then closes
what is known. `PppdInv`, `SuccessInv`, `OtpInv` and `SignalInv` do the same for
pppd, the result, the password and the signal.

*The pools and the channels.* A writer about to wait with a non-empty pool would
break `NoLostWakeup`; the mutex it holds from the test to the wait excludes this
(`MutexInv`, `WaitInv`). `QueueInv` says that a pool holds packets in order and none that is lost,
`WriterInv` that what was written is older than what the writer carries and that
older than the pool, `FlowInv` that a packet that was neither lost nor written is with
one of the two as long as the writer lives. In the refinements `GotPacket` is `Send`,
`PppdReadDrops` is `SendLost`, `PtySelectFails` is `Lose`, `Write` is `Deliver`, every
other step stutters. `LossesNeedFaults` adds that `lost` stays empty without the two
faults.

*Start-up and shutdown.* `TalkInv` and `ConfigInv` say the same of a semaphore as
of the thread behind it; `RoutesInv` ties `tunnel->state` to what `if_config` has
done; `JoinInv` records the workers already joined, or that `if_config` was never
created. For `WaysToStick`, `OwnerInv` says who can hold the mutex of a pool: its
reader or writer inside the critical section, or a writer that was cancelled in the
wait. With `StopInv` (all workers are cancelled before the first is joined) the
places a worker can be in are gone through one by one.

*Routes.* `GatewayInv`: until a call fails, from the protection on there is a host
route to the gateway around the tunnel and none through it; having the
longest mask it is the best one for every packet to it. `UnprotectedInv` is the case
without a default route, `AssignedInv` says which routes by a foreign address there
can be. `ForeignInv`: until the restoration
everybody else's routes are in the table, so that a route that could be added had
not been there. `TableInv` (macOS has one route per network), `HalfInv` and
`RoutesInv` say for an undisturbed session what the table is at each place: the
one before, with the host route, the pushed routes so far, the halves or the
default route of the tunnel in place of the saved one. `RoutesRestored` is
what is left of that when the interface has gone and the saved routes are back.

*resolv.conf.* `DnsInv` relates the file to the one before: after
`AddNameservers` it is the old one behind those lines that the three searches did
not find, and `wasThere` says which; after the removal it has lost these and
the blank lines. That `Without` takes away no more is a matter of lemmas about it:
of the lines to remove only those matter that the file has (`WithoutSame`), it
distributes over concatenation (`WithoutJoined`), and removing one set after
another is removing their union (`WithoutTwice`).

*Frames.* `Decoded` is the algorithmic core: for every packet, with any
checksum, decoding the escaped body gives the packet back. `Queued` is the
invariant around it: the frames of the packets that were sent and not taken lie one
behind the other in the unread rest of the buffer followed by what is in the pty,
sharing flags or not, and a thread that is about to read does not have the
next one as a whole. Hence what `TakeFrame` finds is the next frame, and an empty
pty leaves nothing behind.

*Answers.* `WholeInv`: buffer and wire make up the response of the present
request, and the fields of the header are its; `SizeInv`: no size overflows.
`StopsInv`: as long as it reads, a byte of the response is missing.

*Options.* `CliInv` and `CfgInv` say that `cli_cfg` and `cfg` hold the last word
of what was read so far, as it is kept; `Merging` puts the two together.
`CertsInv` says that each list of certificates has exactly those of its source, in
their order, but for those in `lost`. `MergedInv` is the state after the merge and
after the host.

*Induction over data.* The induction theorems of the library take an operator as a
parameter, which the provers cannot instantiate. `HdlcProofs` and `NetworkProofs`
therefore prove induction for sets of numbers (`SetInduction`: a set with 0 that is
closed under the successor has every natural number, from the well-foundedness of
`<`), apply it to the set of lengths for which the statement holds, and unfold
recursive functions by `Iteration`. Both `Hdlc` and `Network` write their loops as
recursive functions over the length, not as `RECURSIVE` operators.

*Towards the liveness properties.* Fairness and ENABLED are out of the
prover's reach, but what each liveness property rests on is proved:
`DisconnectsGoOn` (a thread is on its way to every result that is awaited),
`StoppedSessionsHaveMonitors` and `MonitorsObeyTheFlag`, `WakeupNotLost`,
`WaysToStick`, `IconServedOrDeadlock`, `SignalEndsRuns`, `ReadsNeverWait` and
`RoundsAreBounded` (the variant of a request).

**Only model-checked**: the liveness properties themselves, `EveryCallReturns`,
`DisconnectingResolves`, `MonitorsStop`, `PacketsMove`, `StopEndsOrSticks`,
`SignalEndsProcess` and `EveryRequestEnds`.

## 5. Findings

- `connection_sync`: the listener threads of two status events are unordered, so
  that the manager can end in Disconnecting when the window shows Disconnected,
  and refuses every connect from then on.
- `configuration_override`: the man page says that the command line overrides the
  file. `--otp-prompt` never does, and is dropped without a file too, since
  `merge_config` does not copy it; an empty `--username`, `--realm`, `--otp` or
  `--sni`, `--saml-login=0` and the largest number of `--persistent` and
  `--otp-delay` do not, since they are the values by which `merge_config` knows that
  nothing was said.

Behaviour the models contain, spelt out as an exception in a property or left to
the model:

- The icon is updated under the mutex but on the main thread, which waits for the
  mutex in synchronous commands: a command of the window that comes while another
  thread holds the mutex for a disconnect can deadlock the application. The comment
  at `A/vpn_manager.rs:74` looks at the other direction only, that the update does not
  take the mutex. It is the exception `IconDeadlock` of the liveness properties, and
  `IconServedOrDeadlock` proves that it has no other form.
- An openfortivpn that ends by itself is not noticed: the monitor waits for the
  line "Tunnel is down", which this openfortivpn does not print, and nobody waits
  for the process.
- Returns of `connect` for a missing secret come after Connecting was announced
  and emit nothing (`StrandedBySecret`). After a failed kill the pid is forgotten; a
  refused `pkexec -KILL` is ignored and the process lost behind Disconnected
  (`LossIsReported`). A monitor in the middle of a line reports Connected after
  Disconnected was shown.
- A writer cancelled in `pthread_cond_wait` keeps its mutex; the reader blocks on
  it and the join waits for the reader. On macOS the join also waits for a worker at
  its semaphore, and a thread cancelled in `printf` keeps the mutex of the log
  (`StopEndsOrSticks`). A stop inside
  `on_ppp_if_up` leaves the routes. A failing `pthread_create` leaves workers
  behind that use a tunnel on a dead stack frame. A failing `select` on the pty, or
  `malloc` in `pppd_read`, drops a packet and the thread goes on.
- A request that failed is sent again: a log in can open two sessions of which
  only the second is logged out. A SAML id whose characters were refused is used
  when the tries are over. `VPN_GATEWAY` keeps the address of the first run. A signal
  in the log in of a later run does not end the tunnel that follows.
- An answer that fills the receive buffer to its last byte ends the program by an
  assertion, if somebody wants it; an answer without a length ends with its header.
- When a host route to the gateway existed before, Linux is left without the
  default route and macOS without the host route. Without a default route the gateway
  is not protected, and a route to it that it pushes leads into its own tunnel. Split
  routes by an address that is not the interface's stay on macOS.
- A line of resolv.conf after the
  first is not found by the second and third search and is taken away with the
  tunnel's. The line of several domains, or of an empty one, stays.
- A bad key or SAML port ends `load_config` with success, the rest unread.
- A late `kill-vpn` (the client has given up, or the helper was told to stop) takes
  down the tunnel of the next session, and a monitor that was stopped in the middle of
  a line can give its name servers to the next session's interface.

Hazards beyond those in `PROJECT.json`, which no model reaches: the log file of a
failed spawn stays (`A/process_manager.rs:68`), the tray's quit looks at the state
in one lock section and exits outside of any (`A/tray.rs:188`), a menu built while
the mutex is busy stays stale until the next event (`A/tray.rs:86`); the store of secrets is rewritten in place (`A/keychain.rs:128`); an older answer
of `get_status` may overwrite an event (`useVpnConnection.ts:58`); two threads use
one SSL object (`O/io.c:556`); resolv.conf is rewritten in place
(`O/ipv4.c:1264`); a configuration file that could be created but not written is not
recorded for removal (`A/process_manager.rs:376`).

## 6. Not modelled

- *Helper installation*: copies files and calls the service manager.
- *Stores*: JSON files read and written whole; the hazard of concurrent saves is
  listed, but the operations have no protocol a property could be about.
- *Front end and components of the window*: rendering and form state; what the
  window shows of the connection is `shown` in `ConnectionManager`.
- *Input and logging* of openfortivpn (`userinput.c`, `log.c`): prompts and text; the
  mutex of the log is in `TunnelIO`.
- *Memory* for strings (`strdup`) and for the array of split routes; the allocations
  whose failure leaves a program running in another state are in the models.
- *Parsing*: XML, forms, cookies, log lines, `/proc/net/route`; each is replaced
  by the outcomes its callers distinguish.
- *macOS and Windows branches* of the app and the helper (`osascript`, `scutil`,
  launchd); `Network` has both systems, since `ipv4.c` treats them in one code.
- *External programs*: pppd, resolvconf, OpenSSL and the kernel appear by their
  effects only.
