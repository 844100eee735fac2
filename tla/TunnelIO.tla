------------------------------ MODULE TunnelIO ------------------------------
(***************************************************************************)
(* The I/O loop of openfortivpn: four threads carry packets between the    *)
(* pty of pppd and the TLS socket through two pools, a fifth configures    *)
(* the interface once the negotiation is over, and the main thread creates *)
(* them, waits for a reason to stop, cancels and joins them.               *)
(*                                                                         *)
(* pthread cancellation is deferred: it takes effect at a cancellation     *)
(* point only.  pthread_cond_wait is one, and it takes the mutex again     *)
(* before the thread ends.  pthread_mutex_lock is none, and neither is the *)
(* semaphore_wait that stands for sem_wait on macOS.  printf is one, also  *)
(* under the mutex of the log, which is robust on Linux only.              *)
(*                                                                         *)
(* Sources: openfortivpn/src/io.c, io.h, do_log in log.c and the end of    *)
(* run_tunnel in tunnel.c.  Packets are the numbers in which they came.    *)
(***************************************************************************)
EXTENDS Integers, Sequences

CONSTANTS Platform,     \* "linux" or "macOS"
          MaxPackets,   \* bound: packets that come from each side
          MaxPolls,     \* polls of the interface before if_config gives up
          MaxSignals,   \* bound: SIGINT and SIGTERM received
          Faults        \* which system calls can fail, see FaultKinds

FaultKinds == {"createFails",   \* pthread_create
               "selectFails",   \* select on the pty, in pppd_write
               "mallocFails"}   \* malloc of a packet, in pppd_read

ASSUME BoundsAssumption ==
  /\ Platform \in {"linux", "macOS"}
  /\ MaxPackets \in Nat /\ MaxPolls \in Nat /\ MaxSignals \in Nat
  /\ Faults \subseteq FaultKinds

Chan == {"pty_to_ssl", "ssl_to_pty"}
Reader == [c \in Chan |-> IF c = "pty_to_ssl" THEN "pppd_read" ELSE "ssl_read"]
Writer == [c \in Chan |-> IF c = "pty_to_ssl" THEN "ssl_write" ELSE "pppd_write"]
Thread == {"pppd_read", "pppd_write", "ssl_read", "ssl_write", "if_config"}

\* Mutant of CreateOrder: if_config is created before the last worker.
IfConfigEarlier ==
  <<"pppd_read", "pppd_write", "ssl_read", "if_config", "ssl_write">>
CreateOrder ==
  <<"pppd_read", "pppd_write", "ssl_read", "ssl_write", "if_config">>
StopOrder ==
  <<"if_config", "ssl_write", "ssl_read", "pppd_write", "pppd_read">>

VARIABLES
  main, step,   \* the main thread: phase of io_loop, index into the orders
  pc,           \* the five workers
  hold,         \* the packet a worker has in its hands, or 0
  canceled,     \* workers with a pending pthread_cancel
  queue,        \* the pools: packets, first one first
  owner,        \* the pools: thread that holds the mutex, or "nobody"
  wake,         \* the pools: new_data was signalled to the waiting writer
  pppdReady, ifConfig, stopIO,   \* the semaphores
  talked,       \* pppd_read has received bytes (first_time is 0)
  negotiated,   \* the gateway has ended the IPCP negotiation
  state,        \* tunnel->state
  routes,       \* on_ppp_if_up has begun to change routes and name servers,
                \* and on_ppp_if_down was not called since
  polls,        \* polls of the interface so far
  signals,      \* signals so far
  in,           \* packets that came from the source of a channel
  out,          \* packets written to its sink
  lost,         \* history: packets given up by a thread that went on
  logLost       \* a thread ended with the mutex of the log, for good

mainVars == <<main, step, signals>>
poolVars == <<queue, owner, wake>>
semVars == <<pppdReady, ifConfig, stopIO>>
cfgVars == <<talked, negotiated, state, routes, polls>>
ioVars == <<in, out, lost, logLost>>
vars == <<mainVars, pc, hold, canceled, poolVars, semVars, cfgVars, ioVars>>

Ended == {"done", "cancelled"}
Pc == {"new", "read", "pushLock", "push", "waitReady", "popLock", "pop",
       "empty", "wait", "write", "waitConfig", "poll", "ifup"} \cup Ended

TypeOK ==
  /\ main \in {"create", "run", "cancel", "join", "returned", "done"}
  /\ step \in 1 .. 5
  /\ pc \in [Thread -> Pc]
  /\ hold \in [Thread -> Nat]
  /\ canceled \in SUBSET Thread
  /\ queue \in [Chan -> Seq(Nat)]
  /\ owner \in [Chan -> Thread \cup {"nobody"}]
  /\ wake \in [Chan -> BOOLEAN]
  /\ pppdReady \in Nat /\ ifConfig \in Nat /\ stopIO \in Nat
  /\ talked \in BOOLEAN /\ negotiated \in BOOLEAN /\ routes \in BOOLEAN
  /\ state \in {"CONNECTING", "UP", "DISCONNECTING"}
  /\ polls \in Nat /\ signals \in Nat
  /\ in \in [Chan -> Nat]
  /\ out \in [Chan -> Seq(Nat)]
  /\ lost \in [Chan -> SUBSET Nat]
  /\ logLost \in BOOLEAN

\* io_loop is entered with tunnel->state = STATE_CONNECTING.
Init ==
  /\ main = "create" /\ step = 1
  /\ pc = [t \in Thread |-> "new"]
  /\ hold = [t \in Thread |-> 0]
  /\ canceled = {}
  /\ queue = [c \in Chan |-> <<>>]
  /\ owner = [c \in Chan |-> "nobody"]
  /\ wake = [c \in Chan |-> FALSE]
  /\ pppdReady = 0 /\ ifConfig = 0 /\ stopIO = 0
  /\ talked = FALSE /\ negotiated = FALSE /\ routes = FALSE
  /\ state = "CONNECTING" /\ polls = 0 /\ signals = 0
  /\ in = [c \in Chan |-> 0]
  /\ out = [c \in Chan |-> <<>>]
  /\ lost = [c \in Chan |-> {}]
  /\ logLost = FALSE

Goto(t, l) == pc' = [pc EXCEPT ![t] = l]

\* The waits that are no cancellation points on macOS.
SemWait == {"waitReady", "waitConfig"}

\* Where the only way on leads through a cancellation point, a worker takes it
\* only while nobody cancelled it.
At(t, l) ==
  /\ pc[t] = l
  /\ t \in canceled => l \in SemWait /\ Platform = "macOS"

-----------------------------------------------------------------------------
(* pool_push and pool_pop *)

PushLock(c) ==
  /\ pc[Reader[c]] = "pushLock" /\ owner[c] = "nobody"
  /\ owner' = [owner EXCEPT ![c] = Reader[c]]
  /\ Goto(Reader[c], "push")
  /\ UNCHANGED <<mainVars, hold, canceled, queue, wake, semVars, cfgVars, ioVars>>

\* Mutant of Push: the signal is forgotten.
PushUnsignalled(c) ==
  /\ pc[Reader[c]] = "push"
  /\ queue' = [queue EXCEPT ![c] = Append(@, hold[Reader[c]])]
  /\ owner' = [owner EXCEPT ![c] = "nobody"]
  /\ hold' = [hold EXCEPT ![Reader[c]] = 0]
  /\ Goto(Reader[c], "read")
  /\ UNCHANGED <<mainVars, canceled, wake, semVars, cfgVars, ioVars>>

\* Mutant of Push: the packet is linked in at the wrong end of the list.
PushFront(c) ==
  /\ pc[Reader[c]] = "push"
  /\ queue' = [queue EXCEPT ![c] = <<hold[Reader[c]]>> \o @]
  /\ wake' = [wake EXCEPT ![c] = @ \/ pc[Writer[c]] = "wait"]
  /\ owner' = [owner EXCEPT ![c] = "nobody"]
  /\ hold' = [hold EXCEPT ![Reader[c]] = 0]
  /\ Goto(Reader[c], "read")
  /\ UNCHANGED <<mainVars, canceled, semVars, cfgVars, ioVars>>

Push(c) ==
  /\ pc[Reader[c]] = "push"
  /\ queue' = [queue EXCEPT ![c] = Append(@, hold[Reader[c]])]
  /\ wake' = [wake EXCEPT ![c] = @ \/ pc[Writer[c]] = "wait"]
  /\ owner' = [owner EXCEPT ![c] = "nobody"]
  /\ hold' = [hold EXCEPT ![Reader[c]] = 0]
  /\ Goto(Reader[c], "read")
  /\ UNCHANGED <<mainVars, canceled, semVars, cfgVars, ioVars>>

PopLock(c) ==
  /\ pc[Writer[c]] = "popLock" /\ owner[c] = "nobody"
  /\ owner' = [owner EXCEPT ![c] = Writer[c]]
  /\ Goto(Writer[c], "pop")
  /\ UNCHANGED <<mainVars, hold, canceled, queue, wake, semVars, cfgVars, ioVars>>

\* Mutant of Pop: the head of the list is not advanced.
PopKeeps(c) ==
  /\ pc[Writer[c]] = "pop" /\ queue[c] # <<>>
  /\ hold' = [hold EXCEPT ![Writer[c]] = Head(queue[c])]
  /\ owner' = [owner EXCEPT ![c] = "nobody"]
  /\ Goto(Writer[c], "write")
  /\ UNCHANGED <<mainVars, canceled, queue, wake, semVars, cfgVars, ioVars>>

\* The loop condition of pool_pop fails: the first packet is taken.
Pop(c) ==
  /\ pc[Writer[c]] = "pop" /\ queue[c] # <<>>
  /\ hold' = [hold EXCEPT ![Writer[c]] = Head(queue[c])]
  /\ queue' = [queue EXCEPT ![c] = Tail(@)]
  /\ owner' = [owner EXCEPT ![c] = "nobody"]
  /\ Goto(Writer[c], "write")
  /\ UNCHANGED <<mainVars, canceled, wake, semVars, cfgVars, ioVars>>

\* The pool is empty: the thread decides to wait, still with the mutex.
PopEmpty(c) ==
  /\ pc[Writer[c]] = "pop" /\ queue[c] = <<>>
  /\ Goto(Writer[c], "empty")
  /\ UNCHANGED <<mainVars, hold, canceled, poolVars, semVars, cfgVars, ioVars>>

\* pthread_cond_wait releases the mutex and waits, atomically.
CondWait(c) ==
  /\ pc[Writer[c]] = "empty"
  /\ owner' = [owner EXCEPT ![c] = "nobody"]
  /\ wake' = [wake EXCEPT ![c] = FALSE]
  /\ Goto(Writer[c], "wait")
  /\ UNCHANGED <<mainVars, hold, canceled, queue, semVars, cfgVars, ioVars>>

\* The return from pthread_cond_wait, with the mutex: signalled or spurious.
Return(c) ==
  /\ At(Writer[c], "wait") /\ owner[c] = "nobody"
  /\ owner' = [owner EXCEPT ![c] = Writer[c]]
  /\ wake' = [wake EXCEPT ![c] = FALSE]
  /\ Goto(Writer[c], "pop")
  /\ UNCHANGED <<mainVars, hold, canceled, queue, semVars, cfgVars, ioVars>>

Wakeup(c) == wake[c] /\ Return(c)
SpuriousWakeup(c) == ~wake[c] /\ Return(c)

-----------------------------------------------------------------------------
(* pppd_read and ssl_read *)

\* The first bytes from pppd: whoever wants to write to it may do so now.
PppdTalks ==
  /\ At("pppd_read", "read") /\ ~talked
  /\ talked' = TRUE
  /\ pppdReady' = pppdReady + 1
  /\ UNCHANGED <<mainVars, pc, hold, canceled, poolVars, ifConfig, stopIO,
                 negotiated, state, routes, polls, ioVars>>

\* A packet has been read completely; the push comes next.  Bytes received
\* earlier can make a packet, so a cancelled thread may get here once more.
GotPacket(c) ==
  /\ pc[Reader[c]] = "read" /\ in[c] < MaxPackets
  /\ in' = [in EXCEPT ![c] = @ + 1]
  /\ hold' = [hold EXCEPT ![Reader[c]] = in[c] + 1]
  /\ Goto(Reader[c], "pushLock")
  /\ UNCHANGED <<mainVars, canceled, poolVars, pppdReady, stopIO, talked, state,
                 routes, polls, out, lost, logLost>>

PppdRead ==
  /\ talked
  /\ GotPacket("pty_to_ssl")
  /\ UNCHANGED <<ifConfig, negotiated>>

\* The break after a failed malloc leaves the inner loop only: the frame that
\* was found is passed over, and the thread goes on with the next one.
PppdReadDrops ==
  /\ talked /\ "mallocFails" \in Faults
  /\ pc["pppd_read"] = "read" /\ in["pty_to_ssl"] < MaxPackets
  /\ in' = [in EXCEPT !["pty_to_ssl"] = @ + 1]
  /\ lost' = [lost EXCEPT !["pty_to_ssl"] = @ \cup {in["pty_to_ssl"] + 1}]
  /\ UNCHANGED <<mainVars, pc, hold, canceled, poolVars, semVars, cfgVars, out,
                 logLost>>

\* While the tunnel is not up, a packet that ends the negotiation releases
\* if_config; any packet is passed on.
SslRead ==
  /\ GotPacket("ssl_to_pty")
  /\ \/ UNCHANGED <<ifConfig, negotiated>>
     \/ /\ state = "CONNECTING"
        /\ negotiated' = TRUE
        /\ ifConfig' = ifConfig + 1

\* End of file, a read error, a bad frame or header: the thread ends.
ReadFails(c) ==
  /\ pc[Reader[c]] = "read"
  /\ stopIO' = stopIO + 1
  /\ Goto(Reader[c], "done")
  /\ UNCHANGED <<mainVars, hold, canceled, poolVars, pppdReady, ifConfig,
                 cfgVars, ioVars>>

-----------------------------------------------------------------------------
(* pppd_write and ssl_write *)

PppdReady ==
  /\ At("pppd_write", "waitReady") /\ pppdReady > 0
  /\ pppdReady' = pppdReady - 1
  /\ Goto("pppd_write", "popLock")
  /\ UNCHANGED <<mainVars, hold, canceled, poolVars, ifConfig, stopIO, cfgVars,
                 ioVars>>

Write(c) ==
  /\ At(Writer[c], "write")
  /\ out' = [out EXCEPT ![c] = Append(@, hold[Writer[c]])]
  /\ hold' = [hold EXCEPT ![Writer[c]] = 0]
  /\ Goto(Writer[c], "popLock")
  /\ UNCHANGED <<mainVars, canceled, poolVars, semVars, cfgVars, in, lost,
                 logLost>>

\* The packet is freed, and so lost.
WriteFails(c) ==
  /\ pc[Writer[c]] = "write"
  /\ hold' = [hold EXCEPT ![Writer[c]] = 0]
  /\ stopIO' = stopIO + 1
  /\ Goto(Writer[c], "done")
  /\ UNCHANGED <<mainVars, canceled, poolVars, pppdReady, ifConfig, cfgVars,
                 ioVars>>

\* The break after a failed select leaves the inner loop only: the packet is
\* freed as if it were written, and the thread goes on with the next one.
PtySelectFails ==
  /\ pc["pppd_write"] = "write" /\ "selectFails" \in Faults
  /\ lost' = [lost EXCEPT !["ssl_to_pty"] = @ \cup {hold["pppd_write"]}]
  /\ hold' = [hold EXCEPT !["pppd_write"] = 0]
  /\ Goto("pppd_write", "popLock")
  /\ UNCHANGED <<mainVars, canceled, poolVars, semVars, cfgVars, in, out, logLost>>

-----------------------------------------------------------------------------
(* if_config *)

IfConfigStarts ==
  /\ At("if_config", "waitConfig") /\ ifConfig > 0
  /\ ifConfig' = ifConfig - 1
  /\ Goto("if_config", "poll")
  /\ UNCHANGED <<mainVars, hold, canceled, poolVars, pppdReady, stopIO, cfgVars,
                 ioVars>>

\* ppp_interface_is_up: on_ppp_if_up begins to change routes and name servers.
InterfaceIsUp ==
  /\ pc["if_config"] = "poll"
  /\ routes' = TRUE
  /\ Goto("if_config", "ifup")
  /\ UNCHANGED <<mainVars, hold, canceled, poolVars, semVars, talked, negotiated,
                 state, polls, ioVars>>

NotReadyYet ==
  /\ At("if_config", "poll") /\ polls < MaxPolls
  /\ polls' = polls + 1
  /\ UNCHANGED <<mainVars, pc, hold, canceled, poolVars, semVars, talked,
                 negotiated, state, routes, ioVars>>

PollTimesOut ==
  /\ pc["if_config"] = "poll" /\ polls = MaxPolls
  /\ stopIO' = stopIO + 1
  /\ Goto("if_config", "done")
  /\ UNCHANGED <<mainVars, hold, canceled, poolVars, pppdReady, ifConfig,
                 cfgVars, ioVars>>

\* Mutant of TunnelIsUp: tunnel->state is not set.
TunnelIsUpUnrecorded ==
  /\ pc["if_config"] = "ifup"
  /\ Goto("if_config", "done")
  /\ UNCHANGED <<mainVars, hold, canceled, poolVars, semVars, cfgVars, ioVars>>

TunnelIsUp ==
  /\ pc["if_config"] = "ifup"
  /\ state' = "UP"
  /\ Goto("if_config", "done")
  /\ UNCHANGED <<mainVars, hold, canceled, poolVars, semVars, talked, negotiated,
                 routes, polls, ioVars>>

-----------------------------------------------------------------------------
(* Cancellation *)

CancelPoint == {"read", "write", "poll", "ifup"}
               \cup (IF Platform = "linux" THEN SemWait ELSE {})

\* A pending cancellation is acted upon; a packet in the thread's hands leaks.
Cancelled(t) ==
  /\ t \in canceled /\ pc[t] \in CancelPoint
  /\ Goto(t, "cancelled")
  /\ UNCHANGED <<mainVars, hold, canceled, poolVars, semVars, cfgVars, ioVars>>

\* Inside pthread_cond_wait the mutex is taken first, and nobody releases it.
CancelledInWait(c) ==
  /\ Writer[c] \in canceled /\ pc[Writer[c]] = "wait" /\ owner[c] = "nobody"
  /\ owner' = [owner EXCEPT ![c] = Writer[c]]
  /\ Goto(Writer[c], "cancelled")
  /\ UNCHANGED <<mainVars, hold, canceled, queue, wake, semVars, cfgVars, ioVars>>

\* Where a worker may be in do_log: its first line, or one between two other
\* cancellation points.
MayLog(t) ==
  \/ pc[t] \in {"read", "write", "waitConfig", "poll", "ifup"}
  \/ \E c \in Chan : t = Writer[c] /\ pc[t] = "popLock" /\ out[c] = <<>>

\* printf is a cancellation point and do_log calls it under the mutex of the
\* log.  On Linux the next one to lock it gets EOWNERDEAD and goes on.  On
\* macOS whoever logs from now on waits for good; where each one stops is not
\* followed.
CancelledInLog(t) ==
  /\ Platform = "macOS" /\ t \in canceled /\ ~logLost /\ MayLog(t)
  /\ logLost' = TRUE
  /\ Goto(t, "cancelled")
  /\ UNCHANGED <<mainVars, hold, canceled, poolVars, semVars, cfgVars, in, out,
                 lost>>

-----------------------------------------------------------------------------
(* io_loop and the end of run_tunnel, on the main thread *)

\* Mutants of StartPc: one of the two threads does not wait for its semaphore.
PppdWriteDoesNotWait(t) ==
  CASE t \in {"pppd_read", "ssl_read"} -> "read"
    [] t \in {"pppd_write", "ssl_write"} -> "popLock"
    [] t = "if_config" -> "waitConfig"
StartPc(t) == CASE t \in {"pppd_read", "ssl_read"} -> "read"
                [] t = "pppd_write" -> "waitReady"
                [] t = "ssl_write" -> "popLock"
                [] t = "if_config" -> "waitConfig"

\* The step after the last one of a phase begins the next phase.
Advance(phase) ==
  IF step = 5 THEN main' = phase /\ step' = 1
              ELSE step' = step + 1 /\ UNCHANGED main

CreateThread ==
  /\ main = "create"
  /\ LET t == CreateOrder[step] IN Goto(t, StartPc(t))
  /\ Advance("run")
  /\ UNCHANGED <<signals, hold, canceled, poolVars, semVars, cfgVars, ioVars>>

\* io_loop returns an error, which run_tunnel ignores; the threads that exist
\* go on, and on Linux the signals stay blocked.
CreateThreadFails ==
  /\ main = "create" /\ "createFails" \in Faults
  /\ main' = "returned" /\ UNCHANGED step
  /\ UNCHANGED <<signals, pc, hold, canceled, poolVars, semVars, cfgVars, ioVars>>

\* Signals are blocked until the threads exist, except on macOS; after that the
\* handler posts.
Signal ==
  /\ \/ main \in {"run", "cancel", "join"}
     \/ main = "create" /\ Platform = "macOS"
  /\ signals < MaxSignals
  /\ signals' = signals + 1
  /\ stopIO' = stopIO + 1
  /\ UNCHANGED <<main, step, pc, hold, canceled, poolVars, pppdReady, ifConfig,
                 cfgVars, ioVars>>

StopRequested ==
  /\ main = "run" /\ stopIO > 0
  /\ stopIO' = stopIO - 1
  /\ main' = "cancel" /\ UNCHANGED step
  /\ UNCHANGED <<signals, pc, hold, canceled, poolVars, pppdReady, ifConfig,
                 cfgVars, ioVars>>

\* Mutant of CancelThread: if_config is left out.
CancelAllButIfConfig ==
  /\ main = "cancel"
  /\ canceled' = canceled \cup ({StopOrder[step]} \ {"if_config"})
  /\ Advance("join")
  /\ UNCHANGED <<signals, pc, hold, poolVars, semVars, cfgVars, ioVars>>

CancelThread ==
  /\ main = "cancel"
  /\ canceled' = canceled \cup {StopOrder[step]}
  /\ Advance("join")
  /\ UNCHANGED <<signals, pc, hold, poolVars, semVars, cfgVars, ioVars>>

JoinThread ==
  /\ main = "join" /\ pc[StopOrder[step]] \in Ended
  /\ Advance("returned")
  /\ UNCHANGED <<signals, pc, hold, canceled, poolVars, semVars, cfgVars, ioVars>>

\* run_tunnel calls on_ppp_if_down if, and only if, the tunnel was up; what that
\* restores when its calls fail is a question for Network.
InterfaceDown ==
  /\ main = "returned"
  /\ main' = "done" /\ UNCHANGED step
  /\ routes' = (routes /\ state # "UP")
  /\ state' = "DISCONNECTING"
  /\ UNCHANGED <<signals, pc, hold, canceled, poolVars, semVars, talked,
                 negotiated, polls, ioVars>>

-----------------------------------------------------------------------------

MainStep == \/ CreateThread \/ CreateThreadFails \/ StopRequested
            \/ CancelThread \/ JoinThread \/ InterfaceDown

\* What the code does on its own, as far as nothing outside is needed.
PoolStep(c) == \/ PushLock(c) \/ Push(c)
               \/ PopLock(c) \/ Pop(c) \/ PopEmpty(c) \/ CondWait(c)
               \/ Wakeup(c)
WriteStep(c) == \/ Write(c) \/ WriteFails(c)
                \/ Writer[c] = "pppd_write" /\ PtySelectFails
IfConfigStep == \/ IfConfigStarts \/ InterfaceIsUp \/ NotReadyYet
                \/ PollTimesOut \/ TunnelIsUp
CancelStep == \/ \E t \in Thread : Cancelled(t) \/ CancelledInLog(t)
              \/ \E c \in Chan : CancelledInWait(c)

\* Packets, errors, signals and spurious wakeups come from outside.
Environment == \/ PppdTalks \/ PppdRead \/ PppdReadDrops \/ SslRead \/ Signal
               \/ \E c \in Chan : ReadFails(c) \/ SpuriousWakeup(c)

Terminated == main = "done" /\ UNCHANGED vars

Next == \/ MainStep \/ PppdReady \/ IfConfigStep \/ CancelStep \/ Environment
        \/ \E c \in Chan : PoolStep(c) \/ WriteStep(c)
        \/ Terminated

\* Threads are scheduled; a write to the pty or to TLS succeeds or fails.
Fairness ==
  /\ WF_vars(MainStep) /\ WF_vars(PppdReady) /\ WF_vars(IfConfigStep)
  /\ \A t \in Thread : WF_vars(Cancelled(t))
  /\ \A c \in Chan : /\ WF_vars(PushLock(c) \/ Push(c))
                     /\ WF_vars(PopLock(c) \/ Pop(c) \/ PopEmpty(c)
                                                         \/ CondWait(c))
                     /\ WF_vars(Wakeup(c)) /\ WF_vars(CancelledInWait(c))
                     /\ WF_vars(WriteStep(c))

Spec == Init /\ [][Next]_vars
FairSpec == Spec /\ Fairness

-----------------------------------------------------------------------------
(* Properties *)

\* What is written to TLS is what pppd sent: in order, nothing twice, and
\* nothing left out but the frames recorded as lost for want of memory,
\* whatever is cancelled and whichever read or write fails.
PtyToSsl == INSTANCE PacketChannel WITH sent <- in["pty_to_ssl"],
                                        lost <- lost["pty_to_ssl"],
                                        delivered <- out["pty_to_ssl"]
PtyToSslInOrder == PtyToSsl!Spec

\* What is written to pppd is what the gateway sent: in order, nothing twice,
\* and nothing left out but the packets recorded as lost by a failed select.
SslToPty == INSTANCE PacketChannel WITH sent <- in["ssl_to_pty"],
                                        lost <- lost["ssl_to_pty"],
                                        delivered <- out["ssl_to_pty"]
SslToPtyInOrder == SslToPty!Spec

\* A writer asleep in pool_pop over a pool that holds a packet has been
\* signalled: no interleaving of pool_push and pool_pop loses the wakeup.
NoLostWakeup ==
  \A c \in Chan : pc[Writer[c]] = "wait" /\ queue[c] # <<>> => wake[c]

\* pppd_write waits "for pppd to talk first, otherwise unpredictable".
PppdTalksFirst == out["ssl_to_pty"] # <<>> => talked

\* Routes and name servers change only after the end of the negotiation.
ConfiguredAfterNegotiation == routes => negotiated

\* The tunnel's routes outlive run_tunnel only if the cancellation caught
\* if_config between the change of the routes and state = STATE_UP.
RoutesLeftOnlyByCancel ==
  main = "done" /\ routes => pc["if_config"] = "cancelled"

\* Workers that io_loop leaves behind after a failed pthread_create never touch
\* routes or name servers, which nobody would restore.
LeftBehindHarmless ==
  main \in {"returned", "done"} /\ (\E t \in Thread : pc[t] \notin Ended)
    => ~routes

\* A packet in a pool is on its way: the writer takes it, or the loop stops.
PacketsMove ==
  \A c \in Chan : queue[c] # <<>> /\ talked
                  ~> queue[c] = <<>> \/ stopIO > 0 \/ main # "run"

\* A reader that wants the mutex of a pool whose writer ended inside
\* pthread_cond_wait, and so with the mutex.
StuckReader(c) ==
  pc[Reader[c]] = "pushLock" /\ owner[c] = Writer[c] /\ pc[Writer[c]] = "cancelled"

\* On macOS a worker that was cancelled before its semaphore was posted.
StuckAtSemaphore(t) ==
  Platform = "macOS" /\ t \in canceled /\ pc[t] \in SemWait

\* A post on sem_stop_io ends the loop, but for the three ways in which the join
\* may wait for good: a reader stuck behind the mutex of a pool, on macOS also
\* a worker at its semaphore and the mutex of the log.
StopEndsOrSticks ==
  stopIO > 0 ~> \/ main = "done"
                \/ \E c \in Chan : StuckReader(c)
                \/ \E t \in Thread : StuckAtSemaphore(t)
                \/ logLost

-----------------------------------------------------------------------------
(* The inductive invariant behind the channels and NoLostWakeup *)

InPush == {"pushLock", "push"}
InPop == {"pop", "empty"}

\* Packets that have come as far as the pool: all but the one in hand.
Pushed(c) == IF pc[Reader[c]] \in InPush THEN in[c] - 1 ELSE in[c]

\* The packets a thread may still hand on.
Kept(c) == 1 .. Pushed(c) \ lost[c]

\* The critical sections of pool_push and pool_pop exclude each other.
MutexInv(c) ==
  /\ pc[Reader[c]] = "push" => owner[c] = Reader[c]
  /\ pc[Writer[c]] \in InPop => owner[c] = Writer[c]

\* What the writer decided under the mutex is still true when it waits, and a
\* packet that came since has signalled.
WaitInv(c) ==
  /\ pc[Writer[c]] = "empty" => queue[c] = <<>>
  /\ pc[Writer[c]] = "wait" /\ queue[c] # <<>> => wake[c]

\* The reader has the last packet that came in its hands; the pool holds earlier
\* ones, in order.
QueueInv(c) ==
  /\ lost[c] \subseteq 1 .. in[c]
  /\ pc[Reader[c]] \in InPush
       => hold[Reader[c]] = in[c] /\ in[c] > 0 /\ in[c] \notin lost[c]
  /\ \A i \in DOMAIN queue[c] : queue[c][i] \in Kept(c)
  /\ \A i, j \in DOMAIN queue[c] : i < j => queue[c][i] < queue[c][j]

\* What was written is older than what the writer has in its hands, and that is
\* older than what is in the pool.
WriterInv(c) ==
  /\ \A i \in DOMAIN out[c] :
       /\ out[c][i] <= Pushed(c)
       /\ \A j \in DOMAIN queue[c] : out[c][i] < queue[c][j]
  /\ pc[Writer[c]] = "write" =>
       /\ hold[Writer[c]] \in Kept(c)
       /\ \A i \in DOMAIN out[c] : out[c][i] < hold[Writer[c]]
       /\ \A j \in DOMAIN queue[c] : hold[Writer[c]] < queue[c][j]

\* While the writer lives every packet that reached the pool is somewhere.
FlowInv(c) ==
  pc[Writer[c]] \notin Ended =>
    \A p \in Kept(c) : \/ \E i \in DOMAIN out[c] : out[c][i] = p
                       \/ pc[Writer[c]] = "write" /\ hold[Writer[c]] = p
                       \/ \E j \in DOMAIN queue[c] : queue[c][j] = p

\* A worker that is still to be created has not begun.
CreateInv ==
  main = "create" => \A i \in step .. 5 : pc[CreateOrder[i]] = "new"

ChanInv(c) == /\ MutexInv(c) /\ WaitInv(c) /\ QueueInv(c) /\ WriterInv(c)
              /\ FlowInv(c)

IInv == TypeOK /\ CreateInv /\ \A c \in Chan : ChanInv(c)

-----------------------------------------------------------------------------
(* The inductive invariant behind the orders of start-up and shutdown *)

\* The semaphore pppd_write waits for is posted once pppd has talked.
TalkInv ==
  \/ pppdReady > 0
  \/ pc["pppd_write"] \in {"popLock", "pop", "empty", "wait", "write"}
  \/ out["ssl_to_pty"] # <<>>
  => talked

\* The semaphore if_config waits for is posted once the negotiation is over.
ConfigInv == ifConfig > 0 \/ pc["if_config"] \in {"poll", "ifup"} \/ routes
             => negotiated

\* While run_tunnel has not looked at it, state tells what if_config has done:
\* routes without STATE_UP are those of a thread inside on_ppp_if_up.
RoutesInv ==
  main # "done" =>
    /\ state = "UP" => pc["if_config"] = "done"
    /\ routes => state = "UP" \/ pc["if_config"] \in {"ifup", "cancelled"}

\* Workers joined so far have ended.  When io_loop returns early, if_config was
\* never created: it is the last one in CreateOrder.
JoinInv ==
  /\ main = "join" => \A i \in 1 .. step - 1 : pc[StopOrder[i]] \in Ended
  /\ main \in {"returned", "done"} =>
       pc["if_config"] = "new" \/ \A t \in Thread : pc[t] \in Ended
=============================================================================
