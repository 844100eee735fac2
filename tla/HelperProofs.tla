---------------------------- MODULE HelperProofs ----------------------------
(***************************************************************************)
(* Machine-checked proofs about Helper, for any number of sessions and     *)
(* disconnects and any set of faults.                                      *)
(***************************************************************************)
EXTENDS Helper, TLAPS

-----------------------------------------------------------------------------
(* The inductive invariant *)

\* A session has a process only after its spawn was handled, and is killed only after
\* the manager has known it.
CallInv ==
  \A s \in Session :
    /\ step[<<"spawn", s>>] # "none" => s <= last
    /\ step[<<"spawn", s>>] \in {"none", "sent"} => proc[s] = "none"
    /\ \/ pid = s \/ step[<<"kill", s>>] # "none" \/ s \in ended
       \/ manager \in {<<"kill", s>>, <<"pkexec INT", s>>, <<"pkexec KILL", s>>}
       => step[<<"spawn", s>>] = "ok"

\* Once a kill-vpn has sent SIGKILL, or found the pid free, the process has ended.
KillInv ==
  \A s \in Session :
    /\ step[<<"kill", s>>] \in {"killall", "down", "revert", "ok"} => proc[s] \notin Alive
    /\ s \in ended => proc[s] \notin Alive \/ s \in spared

\* Pids are free only after a helper has ended.
PidInv ==
  /\ astray \subseteq orphans
  /\ \A s \in Session : proc[s] \in {"gone", "reused"} => s \in orphans

InFlight(c) == c[1] # "setup" /\ step[c] \notin {"none"} \cup Answers

\* What the manager is doing about a session.
Deals(s) ==
  manager[1] \in {"spawn", "kill", "pkexec INT", "pkexec KILL"} /\ manager[2] = s

\* The manager is about to see that the helper has closed the connection of a spawn.
LeftOver(s) == manager = <<"spawn", s>> /\ manager \in cut

\* A handler that has not answered is the one the manager waits for, or nobody hears its
\* answer; a spawn nobody hears of is lost, at the latest when the manager has seen the
\* end of the connection; whoever is alive is in the manager's books, or lost.
BooksInv ==
  /\ manager[1] \in {"kill", "teardown", "pkexec INT", "pkexec KILL"} => pid = 0
  /\ pid # 0 /\ manager[1] = "spawn" => pid \in stray
  /\ \A c \in Calls : InFlight(c) => manager = c \/ c \in late
  /\ cut \subseteq late
  /\ \A s \in Session : /\ <<"spawn", s>> \in late => s \in stray \/ LeftOver(s)
                        /\ proc[s] \in Alive => s \in stray \/ pid = s \/ Deals(s)

\* A monitor whose flag is not raised belongs to the session in the books.
MonitorInv ==
  /\ pid # 0 => pid = flag
  /\ \A s \in Session :
       /\ monitor[s] # "none" => s \in stop \/ s \in stray \/ pid = s
       /\ step[<<"setup", s>>] # "none" => monitor[s] # "none"

\* Name servers are on interfaces, interfaces belong to processes.
DnsInv ==
  /\ \A s \in Session : /\ unit[s] # -1 => proc[s] \notin {"none", "starting"}
                        /\ dns[s] # 0 => unit[s] # -1
  /\ DnsIsOwn

IInv == TypeOK /\ CallInv /\ KillInv /\ PidInv /\ BooksInv /\ MonitorInv /\ DnsInv

-----------------------------------------------------------------------------
(* The calls *)

\* The numbers behind the sets.
LEMMA Numbers ==
  /\ Session \subseteq Nat /\ 0 \notin Session
  /\ MaxSessions \in Nat /\ MaxKills \in Nat /\ Unit \subseteq Nat /\ -1 \notin Unit
  /\ \A n \in Nat : n < MaxSessions => n + 1 \in Session
BY HelperAssumption DEF Session, Unit

\* The kinds of calls.
LEMMA Kinds ==
  /\ \A s \in Session : /\ <<"spawn", s>> \in Calls
                        /\ <<"kill", s>> \in Calls /\ <<"setup", s>> \in Calls
  /\ \A n \in 1 .. MaxKills : <<"teardown", n>> \in Calls
  /\ \A c \in Calls : \/ \E s \in Session : c \in {<<"spawn", s>>, <<"kill", s>>, <<"setup", s>>}
                      \/ \E n \in 1 .. MaxKills : c = <<"teardown", n>>
BY DEF Calls

\* The keys of the calls of one kind differ from each other and from the others'.
LEMMA Distinct ==
  \A s, t \in Session :
    /\ <<"spawn", s>> # <<"kill", t>> /\ <<"spawn", s>> # <<"setup", t>>
    /\ <<"kill", s>> # <<"setup", t>>
    /\ <<"spawn", s>> = <<"spawn", t>> => s = t
    /\ <<"kill", s>> = <<"kill", t>> => s = t
    /\ \A n \in 1 .. MaxKills : /\ <<"teardown", n>> # <<"spawn", s>>
                               /\ <<"teardown", n>> # <<"kill", s>>
OBVIOUS

\* What the manager does by pkexec is no call.
LEMMA Signals ==
  \A s, t \in Session :
    /\ <<"pkexec INT", s>> \in {"pkexec INT", "pkexec KILL"} \X Session
    /\ <<"pkexec KILL", s>> \in {"pkexec INT", "pkexec KILL"} \X Session
    /\ <<"pkexec INT", s>> # <<"kill", t>> /\ <<"pkexec KILL", s>> # <<"kill", t>>
    /\ <<"pkexec INT", s>> # <<"pkexec KILL", t>>
    /\ \A n \in 1 .. MaxKills : /\ <<"pkexec INT", s>> # <<"teardown", n>>
                               /\ <<"pkexec KILL", s>> # <<"teardown", n>>
    /\ <<"pkexec INT", s>> = <<"pkexec INT", t>> => s = t
    /\ <<"pkexec KILL", s>> = <<"pkexec KILL", t>> => s = t
    /\ Idle # <<"kill", t>> /\ Idle # <<"pkexec INT", t>> /\ Idle # <<"pkexec KILL", t>>
BY DEF Idle

LEMMA NoCalls ==
  /\ Idle \notin Calls
  /\ \A s \in Session : <<"pkexec INT", s>> \notin Calls /\ <<"pkexec KILL", s>> \notin Calls
BY DEF Calls, Idle

LEMMA Parts ==
  /\ Idle[1] = "idle"
  /\ \A s \in Session :
       /\ <<"spawn", s>>[1] = "spawn" /\ <<"spawn", s>>[2] = s
       /\ <<"kill", s>>[1] = "kill" /\ <<"kill", s>>[2] = s
       /\ <<"pkexec INT", s>>[1] = "pkexec INT" /\ <<"pkexec INT", s>>[2] = s
       /\ <<"pkexec KILL", s>>[1] = "pkexec KILL" /\ <<"pkexec KILL", s>>[2] = s
       /\ <<"setup", s>>[1] = "setup"
BY DEF Idle

\* Name servers of a session whose flag is down, on the tunnel of another: the manager
\* has lost one of the two.
LEMMA NewServers ==
  ASSUME IInv, NEW s \in Session, s \in stop \/ s \in stray \/ pid = s, NEW t \in Session,
         HasTunnel(t), dns' = [dns EXCEPT ![t] = s], UNCHANGED <<proc, unit, stop, stray>>
  PROVE  DnsInv'
<1>1. proc[t] = "up" /\ t # s => s \in stop \/ {t, s} \cap stray # {}
  <2> SUFFICES ASSUME proc[t] = "up", t # s, pid = s, t \notin stray PROVE s \in stray
    OBVIOUS
  <2>1. Deals(t)
    BY DEF IInv, BooksInv, Alive
  <2>2. pid # 0
    BY Numbers
  <2>3. manager[1] = "spawn"
    BY <2>1, <2>2 DEF IInv, BooksInv, Deals
  <2> QED
    BY <2>2, <2>3 DEF IInv, BooksInv
<1>2. dns'[t] = s /\ \A u \in Session \ {t} : dns'[u] = dns[u]
  BY DEF IInv, TypeOK
<1> QED
  BY <1>1, <1>2 DEF IInv, DnsInv, DnsIsOwn, HasTunnel

\* A handler that goes on changes nothing in the books.
LEMMA SameBooks ==
  ASSUME IInv, \A d \in Calls : InFlight(d)' => InFlight(d),
         \A t \in Session : proc'[t] \in Alive => proc[t] \in Alive,
         UNCHANGED <<manager, pid, stray, late, cut>>
  PROVE  BooksInv'
BY DEF IInv, BooksInv, Deals, LeftOver

(* The system *)

LEMMA TunnelUpStep ==
  ASSUME IInv, NEW s \in Session, TunnelUp(s) PROVE IInv'
<1>0. TypeOK /\ CallInv /\ KillInv /\ PidInv /\ BooksInv /\ MonitorInv /\ DnsInv
  BY DEF IInv
<1>a. /\ proc[s] = "starting" /\ proc' = [proc EXCEPT ![s] = "up"]
      /\ printed' = printed \cup {s}
      /\ UNCHANGED <<helper, step, name, orphans, old, cut, dns, manager, books, monitor, history,
                      hit, astray>>
  BY DEF TunnelUp
<1>b. unit' \in [Session -> Unit \cup {-1}]
  <2>1. PICK n \in Unit : unit' = [unit EXCEPT ![s] = n]
    BY DEF TunnelUp
  <2> QED
    BY <1>0, <2>1 DEF TypeOK
<1>1. TypeOK'
  BY <1>0, <1>a, <1>b DEF TypeOK, books, history, Alive
<1>2. CallInv'
  BY <1>0, <1>a DEF CallInv, TypeOK, books, history
<1>3. KillInv'
  BY ZenonT(40), <1>0, <1>a, Kinds DEF KillInv, CallInv, TypeOK, books, history, Alive
<1>4. PidInv'
  BY <1>0, <1>a DEF PidInv, TypeOK, books, history
<1>5. BooksInv'
  BY <1>0, <1>a DEF BooksInv, InFlight, Deals, LeftOver, TypeOK, Alive, books, history
<1>6. MonitorInv'
  BY DEF IInv, MonitorInv, TunnelUp, books, history
<1>7. DnsInv'
  <2>1. /\ unit[s] = -1 /\ dns[s] = 0
        /\ \A t \in Session \ {s} : unit'[t] = unit[t] /\ proc'[t] = proc[t]
    <3>1. \E n \in Unit : unit' = [unit EXCEPT ![s] = n]
      BY DEF TunnelUp
    <3> QED
      BY <1>0, <1>a, <3>1 DEF DnsInv, TypeOK
  <2>2. proc'[s] = "up"
    BY <1>0, <1>a DEF TypeOK
  <2> QED
    BY <1>0, <1>a, <2>1, <2>2 DEF DnsInv, DnsIsOwn, books, history
<1> QED
  BY <1>1, <1>2, <1>3, <1>4, <1>5, <1>6, <1>7 DEF IInv

LEMMA VpnExitsStep ==
  ASSUME IInv, NEW s \in Session, VpnExits(s) PROVE IInv'
<1>1. TypeOK'
  BY DEF IInv, TypeOK, Answers, VpnExits, books, history, Exited, Alive
<1>2. CallInv'
  BY DEF IInv, CallInv, TypeOK, VpnExits, books, history, Exited, Alive
<1>3. KillInv'
  BY DEF IInv, KillInv, Alive, TypeOK, VpnExits, books, history, Exited
<1>4. PidInv'
  BY DEF IInv, PidInv, VpnExits, books, history, Exited, Alive
<1>5. BooksInv'
  BY DEF IInv, BooksInv, InFlight, Deals, LeftOver, Answers, Alive, TypeOK, VpnExits, books,
     history, Exited
<1>6. MonitorInv'
  BY DEF IInv, MonitorInv, VpnExits, books, history, Exited, Alive
<1>7. DnsInv'
  BY DEF IInv, DnsInv, DnsIsOwn, TypeOK, VpnExits, books, history, Exited, Alive
<1> QED
  BY <1>1, <1>2, <1>3, <1>4, <1>5, <1>6, <1>7 DEF IInv

LEMMA PppdExitsStep ==
  ASSUME IInv, NEW s \in Session, PppdExits(s) PROVE IInv'
<1>1. TypeOK'
  BY DEF IInv, TypeOK, Answers, PppdExits, books, history, HasTunnel
<1>2. CallInv'
  BY DEF IInv, CallInv, PppdExits, books, history, HasTunnel
<1>3. KillInv'
  BY DEF IInv, KillInv, Alive, PppdExits, books, history, HasTunnel
<1>4. PidInv'
  BY DEF IInv, PidInv, PppdExits, books, history, HasTunnel
<1>5. BooksInv'
  BY DEF IInv, BooksInv, InFlight, Deals, LeftOver, Answers, Alive, PppdExits, books, history,
     HasTunnel
<1>6. MonitorInv'
  BY DEF IInv, MonitorInv, PppdExits, books, history, HasTunnel
<1>7. DnsInv'
  BY DEF IInv, DnsInv, DnsIsOwn, TypeOK, PppdExits, books, history, HasTunnel
<1> QED
  BY <1>1, <1>2, <1>3, <1>4, <1>5, <1>6, <1>7 DEF IInv

LEMMA PidReusedStep ==
  ASSUME IInv, NEW s \in Session, PidReused(s) PROVE IInv'
<1>1. TypeOK'
  BY DEF IInv, TypeOK, Answers, PidReused, books, history
<1>2. CallInv'
  BY DEF IInv, CallInv, TypeOK, PidReused, books, history
<1>3. KillInv'
  BY DEF IInv, KillInv, Alive, TypeOK, PidReused, books, history
<1>4. PidInv'
  BY DEF IInv, PidInv, PidReused, books, history
<1>5. BooksInv'
  BY DEF IInv, BooksInv, InFlight, Deals, LeftOver, Answers, Alive, TypeOK, PidReused, books,
     history
<1>6. MonitorInv'
  BY DEF IInv, MonitorInv, PidReused, books, history
<1>7. DnsInv'
  BY DEF IInv, DnsInv, DnsIsOwn, PidReused, books, history
<1> QED
  BY <1>1, <1>2, <1>3, <1>4, <1>5, <1>6, <1>7 DEF IInv

\* Nobody is the parent of the sessions any more.
LEMMA OrphanedStep ==
  ASSUME IInv, NEW S \in SUBSET Session, Orphaned(S)
  PROVE  /\ orphans' \subseteq Session
         /\ proc' \in [Session -> Alive \cup {"none", "zombie", "gone", "reused"}]
         /\ UNCHANGED astray => PidInv'
         /\ \A t \in Session :
              proc'[t] = proc[t] \/ (proc[t] = "zombie" /\ proc'[t] = "gone")
<1>0. TypeOK /\ PidInv
  BY DEF IInv
<1>1. /\ orphans' = orphans \cup S
      /\ proc' = [t \in Session |-> IF t \in S /\ proc[t] = "zombie" THEN "gone" ELSE proc[t]]
  BY DEF Orphaned
<1>2. proc' \in [Session -> Alive \cup {"none", "zombie", "gone", "reused"}]
  BY <1>0, <1>1 DEF TypeOK
<1>3. ASSUME NEW t \in Session, proc'[t] \in {"gone", "reused"} PROVE t \in orphans'
  BY <1>0, <1>1, <1>3 DEF PidInv
<1>4. UNCHANGED astray => PidInv'
  BY <1>0, <1>1, <1>3 DEF PidInv
<1> QED
  BY <1>0, <1>1, <1>2, <1>4 DEF TypeOK

\* Calls that are lost and zombies that go take nothing from the invariant.
LEMMA LeftAlone ==
  ASSUME IInv, orphans' \subseteq Session, old' \subseteq Session, helper' \in BOOLEAN,
         proc' \in [Session -> Alive \cup {"none", "zombie", "gone", "reused"}],
         step' \in [Calls -> {"none", "sent", "int", "probe", "kill", "killall", "down",
                             "revert", "dns", "domain"} \cup Answers],
         PidInv',
         \A t \in Session : proc'[t] = proc[t] \/ (proc[t] = "zombie" /\ proc'[t] = "gone"),
         \A c \in Calls : step'[c] = step[c] \/ (Running(c) /\ step'[c] = "lost"),
         UNCHANGED <<name, cut, printed, unit, dns, manager, pid, flag, last, kills, stop,
                     monitor, stray, late, ended, spared, hit, astray>>
  PROVE  IInv'
<1>0. TypeOK /\ CallInv /\ KillInv /\ PidInv /\ BooksInv /\ MonitorInv /\ DnsInv
  BY DEF IInv
<1>1. TypeOK'
  BY <1>0 DEF TypeOK
<1>2. CallInv'
  BY <1>0, Kinds DEF CallInv, Running, Answers
<1>3. KillInv'
  BY <1>0, Kinds DEF KillInv, Alive
<1>4. BooksInv'
  <2>1. \A c \in Calls : InFlight(c)' => InFlight(c)
    BY DEF InFlight, Answers
  <2>2. \A t \in Session : proc'[t] \in Alive => proc[t] \in Alive
    BY DEF Alive
  <2> QED
    BY <1>0, <2>1, <2>2 DEF BooksInv, Deals, LeftOver
<1>5. MonitorInv'
  BY <1>0, Kinds DEF MonitorInv, Running
<1>6. DnsInv'
  BY <1>0 DEF DnsInv, DnsIsOwn
<1> QED
  BY <1>1, <1>2, <1>3, <1>4, <1>5, <1>6 DEF IInv

LEMMA HelperDiesStep ==
  ASSUME IInv, HelperDies PROVE IInv'
<1>0. TypeOK /\ CallInv /\ KillInv /\ PidInv /\ BooksInv /\ MonitorInv /\ DnsInv
  BY DEF IInv
<1>a. /\ helper' = FALSE
      /\ UNCHANGED <<name, old, cut, printed, unit, dns, manager, pid, flag, last,
                   kills, stop, monitor, stray, late, ended, spared, hit,
                   astray>>
  BY DEF HelperDies, books, history
<1>b. 1 .. last \ old \in SUBSET Session
  <2>1. last \in 0 .. MaxSessions /\ MaxSessions \in Nat
    BY <1>0, Numbers DEF TypeOK
  <2> QED
    BY <2>1 DEF Session
<1>c. /\ orphans' \subseteq Session
      /\ proc' \in [Session -> Alive \cup {"none", "zombie", "gone", "reused"}]
      /\ PidInv'
      /\ \A t \in Session :
           proc'[t] = proc[t] \/ (proc[t] = "zombie" /\ proc'[t] = "gone")
  BY <1>a, <1>b, OrphanedStep DEF HelperDies
<1>d. /\ \A c \in Calls : step'[c] = step[c] \/ (Running(c) /\ step'[c] = "lost")
      /\ step' \in [Calls -> {"none", "sent", "int", "probe", "kill", "killall", "down",
                             "revert", "dns", "domain"} \cup Answers]
  BY <1>0 DEF HelperDies, TypeOK, Answers
<1> QED
  BY <1>0, <1>a, <1>c, <1>d, LeftAlone DEF TypeOK

\* The connections close; the calls nobody hears of any more are the manager's, or were
\* given up before.
LEMMA HelperStopsStep ==
  ASSUME IInv, HelperStops PROVE IInv'
<1>0. TypeOK /\ CallInv /\ KillInv /\ PidInv /\ BooksInv /\ MonitorInv /\ DnsInv
  BY DEF IInv
<1>a. /\ helper' = FALSE /\ old' = 1 .. last \ orphans
      /\ cut' = cut \cup {c \in Calls : Running(c)}
      /\ late' = late \cup {c \in Calls : Running(c)}
      /\ UNCHANGED <<name, proc, orphans, printed, unit, dns, manager, pid, flag, last,
                   kills, stop, monitor, stray, ended, spared, hit, astray>>
  BY DEF HelperStops, books
<1>b. /\ \A c \in Calls : step'[c] = step[c] \/ (Running(c) /\ step'[c] = "lost")
      /\ step' \in [Calls -> {"none", "sent", "int", "probe", "kill", "killall", "down",
                             "revert", "dns", "domain"} \cup Answers]
  <2>1. PICK dropped \in SUBSET {c \in Calls : step[c] = "sent"} :
          step' = [c \in Calls |-> IF c \in dropped THEN "lost" ELSE step[c]]
    BY DEF HelperStops
  <2> QED
    BY <1>0, <2>1 DEF TypeOK, Answers, Running
<1>1. TypeOK'
  <2>1. old' \subseteq Session
    <3>1. last \in 0 .. MaxSessions /\ MaxSessions \in Nat
      BY <1>0, Numbers DEF TypeOK
    <3> QED
      BY <1>a, <3>1 DEF Session
  <2> QED
    BY <1>0, <1>a, <1>b, <2>1 DEF TypeOK
<1>2. CallInv'
  <2>1. \A t \in Session :
          /\ step[<<"spawn", t>>] \in {"none", "ok"} => step'[<<"spawn", t>>] = step[<<"spawn", t>>]
          /\ step'[<<"spawn", t>>] \in {"none", "sent"} => step'[<<"spawn", t>>] = step[<<"spawn", t>>]
          /\ step[<<"kill", t>>] = "none" => step'[<<"kill", t>>] = "none"
    BY <1>b, Kinds DEF Running, Answers
  <2> QED
    BY <1>0, <1>a, <2>1 DEF CallInv
<1>3. KillInv'
  BY <1>0, <1>a, <1>b, Kinds DEF KillInv
<1>4. PidInv'
  BY <1>0, <1>a DEF PidInv
<1>5. BooksInv'
  <2>1. \A c \in Calls : InFlight(c)' => InFlight(c)
    BY <1>b DEF InFlight, Answers
  <2>2. cut' \subseteq late'
    BY <1>0, <1>a DEF BooksInv
  <2>3. ASSUME NEW s \in Session, <<"spawn", s>> \in late' PROVE s \in stray \/ LeftOver(s)'
    <3>1. CASE <<"spawn", s>> \in late
      BY <1>0, <1>a, <3>1 DEF BooksInv, LeftOver
    <3>2. CASE <<"spawn", s>> \notin late
      <4>1. Running(<<"spawn", s>>) /\ <<"spawn", s>> \in Calls
        BY <1>a, <2>3, <3>2
      <4>2. manager = <<"spawn", s>>
        BY <1>0, <3>2, <4>1 DEF BooksInv, InFlight, Running
      <4> QED
        BY <1>a, <4>1, <4>2 DEF LeftOver
    <3> QED
      BY <3>1, <3>2
  <2>4. \A c \in Calls : InFlight(c)' => manager' = c \/ c \in late'
    BY <1>0, <1>a, <2>1 DEF BooksInv
  <2>5. \A s \in Session : proc'[s] \in Alive => s \in stray' \/ pid' = s \/ Deals(s)'
    BY <1>0, <1>a DEF BooksInv, Deals
  <2> QED
    BY <1>0, <1>a, <2>2, <2>3, <2>4, <2>5 DEF BooksInv
<1>6. MonitorInv'
  BY <1>0, <1>a, <1>b, Kinds DEF MonitorInv, Running
<1>7. DnsInv'
  BY <1>0, <1>a DEF DnsInv, DnsIsOwn
<1> QED
  BY <1>1, <1>2, <1>3, <1>4, <1>5, <1>6, <1>7 DEF IInv

LEMMA OldHelperEndsStep ==
  ASSUME IInv, OldHelperEnds PROVE IInv'
<1>0. TypeOK /\ CallInv /\ KillInv /\ PidInv /\ BooksInv /\ MonitorInv /\ DnsInv
  BY DEF IInv
<1>a. /\ old' = {}
      /\ UNCHANGED <<helper, step, name, cut, printed, unit, dns, manager, pid, flag, last,
                   kills, stop, monitor, stray, late, ended, spared, hit, astray>>
  BY DEF OldHelperEnds, books, history
<1>b. old \in SUBSET Session
  BY <1>0 DEF TypeOK
<1>c. /\ orphans' \subseteq Session
      /\ proc' \in [Session -> Alive \cup {"none", "zombie", "gone", "reused"}]
      /\ PidInv'
      /\ \A t \in Session :
           proc'[t] = proc[t] \/ (proc[t] = "zombie" /\ proc'[t] = "gone")
  BY <1>a, <1>b, OrphanedStep DEF OldHelperEnds
<1>d. old' \subseteq Session /\ helper' \in BOOLEAN
  BY <1>0, <1>a DEF TypeOK
<1> QED
  BY <1>0, <1>a, <1>c, <1>d, LeftAlone DEF TypeOK

-----------------------------------------------------------------------------
(* The handlers *)

LEMMA HandleSpawnStep ==
  ASSUME IInv, NEW s \in Session, HandleSpawn(s) PROVE IInv'
<1>0. TypeOK /\ CallInv /\ KillInv /\ PidInv /\ BooksInv /\ MonitorInv /\ DnsInv
  BY DEF IInv
<1>a. /\ step[<<"spawn", s>>] = "sent"
      /\ UNCHANGED <<helper, name, orphans, old, cut, printed, unit, dns, manager, pid,
                   flag, last, kills, stop, monitor, stray, late, ended,
                   spared, hit, astray>>
  BY DEF HandleSpawn, books, history, At, handled
<1>b. \/ /\ step' = [step EXCEPT ![<<"spawn", s>>] = "ok"]
         /\ proc' = [proc EXCEPT ![s] = "starting"]
      \/ /\ step' = [step EXCEPT ![<<"spawn", s>>] = "failed"]
         /\ proc' = proc
  BY DEF HandleSpawn, Go
<1>c. /\ \A t \in Session : step'[<<"kill", t>>] = step[<<"kill", t>>]
      /\ \A t \in Session \ {s} : /\ step'[<<"spawn", t>>] = step[<<"spawn", t>>]
                                  /\ proc'[t] = proc[t]
      /\ \/ step'[<<"spawn", s>>] = "ok" /\ proc'[s] = "starting"
         \/ step'[<<"spawn", s>>] = "failed" /\ proc'[s] = proc[s]
  BY ZenonT(40), <1>0, <1>b, Kinds, Distinct DEF TypeOK
<1>d. step[<<"kill", s>>] = "none" /\ s \notin ended
  BY <1>0, <1>a DEF CallInv
<1>1. TypeOK'
  <2>1. step' \in [Calls -> {"none", "sent", "int", "probe", "kill", "killall", "down",
                           "revert", "dns", "domain"} \cup Answers]
    BY <1>0, <1>b, Kinds DEF TypeOK, Answers
  <2>2. proc' \in [Session -> Alive \cup {"none", "zombie", "gone", "reused"}]
    BY <1>0, <1>b DEF TypeOK, Alive
  <2> QED
    BY <1>0, <1>a, <2>1, <2>2 DEF TypeOK
<1>2. CallInv'
  BY ZenonT(40), <1>0, <1>a, <1>c DEF CallInv
<1>3. KillInv'
  BY <1>0, <1>a, <1>c, <1>d DEF KillInv, CallInv, Alive
<1>4. PidInv'
  BY <1>0, <1>a, <1>c DEF PidInv
<1>5. BooksInv'
  <2>1. manager = <<"spawn", s>> \/ s \in stray
    BY <1>0, <1>a, Kinds DEF BooksInv, LeftOver, InFlight, Answers
  <2>2. \A d \in Calls : InFlight(d)' => InFlight(d)
    BY <1>0, <1>b DEF TypeOK, InFlight, Answers
  <2>3. ASSUME NEW t \in Session, proc'[t] \in Alive PROVE t \in stray \/ pid = t \/ Deals(t)
    <3>1. CASE t = s
      <4>1. CASE manager = <<"spawn", s>>
        BY <3>1, <4>1 DEF Deals
      <4> QED
        BY <2>1, <3>1, <4>1
    <3>2. CASE t # s
      BY <1>0, <1>c, <2>3, <3>2 DEF BooksInv
    <3> QED
      BY <3>1, <3>2
  <2> QED
    BY <1>0, <1>a, <2>2, <2>3 DEF BooksInv, Deals, LeftOver
<1>6. MonitorInv'
  <2>1. \A t \in Session : step'[<<"setup", t>>] = step[<<"setup", t>>]
    BY <1>0, <1>b, Kinds, Distinct DEF TypeOK
  <2> QED
    BY <1>0, <1>a, <2>1 DEF MonitorInv
<1>7. DnsInv'
  <2>1. proc[s] = "none"
    BY <1>0, <1>a DEF CallInv
  <2> QED
    BY <1>0, <1>a, <1>c, <2>1 DEF DnsInv, DnsIsOwn
<1> QED
  BY <1>1, <1>2, <1>3, <1>4, <1>5, <1>6, <1>7 DEF IInv

LEMMA CheckStep ==
  ASSUME IInv, NEW s \in Session, Check(s) PROVE IInv'
<1>1. TypeOK'
  BY Kinds DEF IInv, TypeOK, Answers, Check, At, Go, handled, books, history, Alive
<1>2. CallInv'
  BY ZenonT(40), Kinds DEF IInv, CallInv, TypeOK, Check, At, Go, handled, books, history, Alive
<1>3. KillInv'
  BY Kinds DEF IInv, KillInv, Alive, TypeOK, Check, At, Go, handled, books, history
<1>4. PidInv'
  BY Kinds DEF IInv, PidInv, Check, At, Go, handled, books, history, Alive
<1>5. BooksInv'
  <2>1. \A d \in Calls : InFlight(d)' => InFlight(d)
    BY Kinds DEF IInv, TypeOK, Check, At, Go, InFlight, Answers
  <2> QED
    BY <2>1, SameBooks DEF Check, handled, books, history
<1>6. MonitorInv'
  BY Kinds DEF IInv, MonitorInv, Check, At, Go, handled, books, history, Alive
<1>7. DnsInv'
  BY Kinds DEF IInv, DnsInv, DnsIsOwn, Check, At, Go, handled, books, history, Alive
<1> QED
  BY <1>1, <1>2, <1>3, <1>4, <1>5, <1>6, <1>7 DEF IInv

LEMMA InterruptStep ==
  ASSUME IInv, NEW s \in Session, Interrupt(s) PROVE IInv'
<1>0. TypeOK /\ CallInv /\ KillInv /\ PidInv /\ BooksInv /\ MonitorInv /\ DnsInv
  BY DEF IInv
<1>a. UNCHANGED <<orphans, old, cut>>
  BY DEF Interrupt, handled
<1>b. /\ proc' = IF proc[s] \in Alive THEN [proc EXCEPT ![s] = "stopping"] ELSE proc
      /\ astray' = IF proc[s] = "reused" THEN astray \cup {s} ELSE astray
  BY DEF Interrupt, Signal
<1>1. TypeOK'
  BY Kinds DEF IInv, TypeOK, Answers, Interrupt, At, Go, handled, books, history,
     Signal, Alive
<1>2. CallInv'
  BY ZenonT(40), Kinds DEF IInv, CallInv, TypeOK, Interrupt, At, Go, handled, books, history,
     Signal, Alive
<1>3. KillInv'
  BY Kinds DEF IInv, KillInv, Alive, TypeOK, Interrupt, At, Go, handled, books,
     history, Signal
<1>4. PidInv'
  <2>1. proc[s] = "reused" => s \in orphans
    BY <1>0 DEF PidInv
  <2>2. \A t \in Session \ {s} : proc'[t] = proc[t]
    BY <1>0, <1>b DEF TypeOK
  <2>3. proc'[s] \in {"gone", "reused"} => s \in orphans
    BY <1>0, <1>b DEF TypeOK, PidInv, Alive, Exited
  <2> QED
    BY <1>0, <1>a, <1>b, <2>1, <2>2, <2>3 DEF PidInv
<1>5. BooksInv'
  <2>1. \A d \in Calls : InFlight(d)' => InFlight(d)
    <3>1. step[<<"kill", s>>] = "int" /\ step' = [step EXCEPT ![<<"kill", s>>] = "probe"]
      BY DEF Interrupt, At, Go
    <3> QED
      BY <1>0, <3>1 DEF TypeOK, InFlight, Answers
  <2>2. \A t \in Session : proc'[t] \in Alive => proc[t] \in Alive
    BY <1>0, <1>b DEF TypeOK
  <2>3. UNCHANGED <<manager, pid, stray, late, cut>>
    BY DEF Interrupt, handled, books, history
  <2> QED
    BY <2>1, <2>2, <2>3, SameBooks
<1>6. MonitorInv'
  BY Kinds DEF IInv, MonitorInv, Interrupt, At, Go, handled, books, history, Signal,
     Alive
<1>7. DnsInv'
  BY Kinds DEF IInv, DnsInv, DnsIsOwn, Interrupt, At, Go, handled, books, history,
     Signal, Alive
<1> QED
  BY <1>1, <1>2, <1>3, <1>4, <1>5, <1>6, <1>7 DEF IInv

LEMMA ProbeStep ==
  ASSUME IInv, NEW s \in Session, Probe(s) PROVE IInv'
<1>1. TypeOK'
  BY Kinds DEF IInv, TypeOK, Answers, Probe, At, Go, handled, books, history, Alive
<1>2. CallInv'
  BY ZenonT(40), Kinds DEF IInv, CallInv, TypeOK, Probe, At, Go, handled, books, history, Alive
<1>3. KillInv'
  BY Kinds DEF IInv, KillInv, Alive, TypeOK, Probe, At, Go, handled, books, history
<1>4. PidInv'
  BY Kinds DEF IInv, PidInv, Probe, At, Go, handled, books, history, Alive
<1>5. BooksInv'
  <2>1. \A d \in Calls : InFlight(d)' => InFlight(d)
    BY Kinds DEF IInv, TypeOK, Probe, At, Go, InFlight, Answers
  <2> QED
    BY <2>1, SameBooks DEF Probe, handled, books, history
<1>6. MonitorInv'
  BY Kinds DEF IInv, MonitorInv, Probe, At, Go, handled, books, history, Alive
<1>7. DnsInv'
  BY Kinds DEF IInv, DnsInv, DnsIsOwn, Probe, At, Go, handled, books, history, Alive
<1> QED
  BY <1>1, <1>2, <1>3, <1>4, <1>5, <1>6, <1>7 DEF IInv

LEMMA KillStep ==
  ASSUME IInv, NEW s \in Session, Kill(s) PROVE IInv'
<1>0. TypeOK /\ CallInv /\ KillInv /\ PidInv /\ BooksInv /\ MonitorInv /\ DnsInv
  BY DEF IInv
<1>a. UNCHANGED <<orphans, old, cut>>
  BY DEF Kill, handled
<1>b. /\ proc' = IF proc[s] \in Alive THEN [proc EXCEPT ![s] = Exited(s)] ELSE proc
      /\ astray' = IF proc[s] = "reused" THEN astray \cup {s} ELSE astray
  BY DEF Kill, Signal
<1>1. TypeOK'
  BY Kinds DEF IInv, TypeOK, Answers, Kill, At, Go, handled, books, history, Signal,
     Exited, Alive
<1>2. CallInv'
  BY ZenonT(40), Kinds DEF IInv, CallInv, TypeOK, Kill, At, Go, handled, books, history, Signal,
     Exited, Alive
<1>3. KillInv'
  BY Kinds DEF IInv, KillInv, Alive, TypeOK, Kill, At, Go, handled, books, history,
     Signal, Exited
<1>4. PidInv'
  <2>1. proc[s] = "reused" => s \in orphans
    BY <1>0 DEF PidInv
  <2>2. \A t \in Session \ {s} : proc'[t] = proc[t]
    BY <1>0, <1>b DEF TypeOK
  <2>3. proc'[s] \in {"gone", "reused"} => s \in orphans
    BY <1>0, <1>b DEF TypeOK, PidInv, Alive, Exited
  <2> QED
    BY <1>0, <1>a, <1>b, <2>1, <2>2, <2>3 DEF PidInv
<1>5. BooksInv'
  <2>1. \A d \in Calls : InFlight(d)' => InFlight(d)
    <3>1. step[<<"kill", s>>] = "kill" /\ step' = [step EXCEPT ![<<"kill", s>>] = "killall"]
      BY DEF Kill, At, Go
    <3> QED
      BY <1>0, <3>1 DEF TypeOK, InFlight, Answers
  <2>2. \A t \in Session : proc'[t] \in Alive => proc[t] \in Alive
    BY <1>0, <1>b DEF TypeOK, Exited, Alive
  <2>3. UNCHANGED <<manager, pid, stray, late, cut>>
    BY DEF Kill, handled, books, history
  <2> QED
    BY <2>1, <2>2, <2>3, SameBooks
<1>6. MonitorInv'
  BY Kinds DEF IInv, MonitorInv, Kill, At, Go, handled, books, history, Signal,
     Exited, Alive
<1>7. DnsInv'
  BY Kinds DEF IInv, DnsInv, DnsIsOwn, Kill, At, Go, handled, books, history,
     Signal, Exited, Alive
<1> QED
  BY <1>1, <1>2, <1>3, <1>4, <1>5, <1>6, <1>7 DEF IInv

LEMMA KillallPppdStep ==
  ASSUME IInv, NEW s \in Session, KillallPppd(s) PROVE IInv'
<1>1. TypeOK'
  <2>1. /\ unit' = [t \in Session |-> -1] /\ dns' = [t \in Session |-> 0]
        /\ step' = [step EXCEPT ![<<"kill", s>>] = "down"]
        /\ hit' \subseteq hit \cup ({<<"kill", s>>} \X Session)
    BY DEF KillallPppd, Go, Others
  <2>2. hit' \subseteq Calls \X Session
    BY ZenonT(40), <2>1, Kinds DEF IInv, TypeOK
  <2> QED
    BY <2>1, <2>2 DEF IInv, TypeOK, KillallPppd, handled, books, history
<1>2. CallInv'
  BY ZenonT(40), Kinds DEF IInv, CallInv, TypeOK, KillallPppd, At, Go, handled, books, history,
     Others, HasTunnel
<1>3. KillInv'
  BY Kinds DEF IInv, KillInv, Alive, TypeOK, KillallPppd, At, Go, handled, books,
     history, Others, HasTunnel
<1>4. PidInv'
  BY Kinds DEF IInv, PidInv, KillallPppd, At, Go, handled, books, history, Others,
     HasTunnel
<1>5. BooksInv'
  <2>1. \A d \in Calls : InFlight(d)' => InFlight(d)
    BY Kinds DEF IInv, TypeOK, KillallPppd, At, Go, InFlight, Answers
  <2> QED
    BY <2>1, SameBooks DEF KillallPppd, handled, books, history
<1>6. MonitorInv'
  BY Kinds DEF IInv, MonitorInv, KillallPppd, At, Go, handled, books, history,
     Others, HasTunnel
<1>7. DnsInv'
  BY Kinds DEF IInv, DnsInv, DnsIsOwn, KillallPppd, At, Go, handled, books, history,
     Others, HasTunnel
<1> QED
  BY <1>1, <1>2, <1>3, <1>4, <1>5, <1>6, <1>7 DEF IInv

LEMMA InterfacesDownStep ==
  ASSUME IInv, NEW s \in Session, InterfacesDown(s) PROVE IInv'
<1>0. TypeOK /\ CallInv /\ KillInv /\ PidInv /\ BooksInv /\ MonitorInv /\ DnsInv
  BY DEF IInv
<1>a. /\ UNCHANGED <<helper, name, proc, orphans, old, cut, printed, unit, dns,
                   manager, pid, flag, last, kills, stop, monitor, stray,
                   late, ended, spared, astray>>
  BY DEF InterfacesDown, books, history, handled
<1>b. step' = [step EXCEPT ![<<"kill", s>>] = "revert"]
  BY DEF InterfacesDown, Go
<1>c. hit' \subseteq hit \cup ({<<"kill", s>>} \X Session)
  BY DEF InterfacesDown, Others
<1>1. TypeOK'
  <2>1. hit' \subseteq Calls \X Session
    BY ZenonT(40), <1>0, <1>c, Kinds DEF TypeOK
  <2>2. step' \in [Calls -> {"none", "sent", "int", "probe", "kill", "killall", "down",
                           "revert", "dns", "domain"} \cup Answers]
    BY <1>0, <1>b DEF TypeOK
  <2> QED
    BY <1>0, <1>a, <2>1, <2>2 DEF TypeOK
<1>2. CallInv'
  BY ZenonT(40), Kinds DEF IInv, CallInv, TypeOK, InterfacesDown, At, Go, handled, books,
     history, Others, HasTunnel
<1>3. KillInv'
  BY Kinds DEF IInv, KillInv, Alive, TypeOK, InterfacesDown, At, Go, handled, books,
     history, Others, HasTunnel
<1>4. PidInv'
  BY Kinds DEF IInv, PidInv, InterfacesDown, At, Go, handled, books, history,
     Others, HasTunnel
<1>5. BooksInv'
  <2>1. \A d \in Calls : InFlight(d)' => InFlight(d)
    BY Kinds DEF IInv, TypeOK, InterfacesDown, At, Go, InFlight, Answers
  <2> QED
    BY <2>1, SameBooks DEF InterfacesDown, handled, books, history
<1>6. MonitorInv'
  BY Kinds DEF IInv, MonitorInv, InterfacesDown, At, Go, handled, books, history,
     Others, HasTunnel
<1>7. DnsInv'
  BY Kinds DEF IInv, DnsInv, DnsIsOwn, InterfacesDown, At, Go, handled, books,
     history, Others, HasTunnel
<1> QED
  BY <1>1, <1>2, <1>3, <1>4, <1>5, <1>6, <1>7 DEF IInv

LEMMA RevertStep ==
  ASSUME IInv, NEW c \in Calls, Revert(c) PROVE IInv'
<1>0. TypeOK /\ CallInv /\ KillInv /\ PidInv /\ BooksInv /\ MonitorInv /\ DnsInv
  BY DEF IInv
<1>a. proc' = proc /\ ended' = ended /\ spared' = spared
  BY DEF Revert, handled, history
<1>b. /\ c[1] \in {"kill", "teardown"} /\ (c[1] = "kill" => step[c] = "revert")
      /\ step' = [step EXCEPT ![c] = "ok"]
  BY DEF Revert, Go, At
<1>1. TypeOK'
  BY Kinds DEF IInv, TypeOK, Answers, Revert, At, Go, handled, books, history,
     Others, HasTunnel
<1>2. CallInv'
  BY Kinds DEF IInv, CallInv, TypeOK, Revert, At, Go, handled, books, history,
     Others, HasTunnel
<1>3. KillInv'
  <2>1. ASSUME NEW t \in Session, c = <<"kill", t>> PROVE step[<<"kill", t>>] = "revert"
    BY <1>b, <2>1
  <2>2. \A t \in Session : c # <<"kill", t>> => step'[<<"kill", t>>] = step[<<"kill", t>>]
    BY <1>0, <1>b, Kinds DEF TypeOK
  <2> QED
    BY <1>0, <1>a, <2>1, <2>2 DEF KillInv
<1>4. PidInv'
  BY Kinds DEF IInv, PidInv, Revert, At, Go, handled, books, history, Others,
     HasTunnel
<1>5. BooksInv'
  <2>1. \A d \in Calls : InFlight(d)' => InFlight(d)
    BY <1>0, <1>b DEF TypeOK, Revert, At, InFlight, Answers
  <2> QED
    BY <1>a, <2>1, SameBooks DEF Revert, handled, books, history
<1>6. MonitorInv'
  BY Kinds DEF IInv, MonitorInv, Revert, At, Go, handled, books, history, Others,
     HasTunnel
<1>7. DnsInv'
  BY Kinds DEF IInv, DnsInv, DnsIsOwn, Revert, At, Go, handled, books, history,
     Others, HasTunnel
<1> QED
  BY <1>1, <1>2, <1>3, <1>4, <1>5, <1>6, <1>7 DEF IInv

LEMMA ChooseInterfaceStep ==
  ASSUME IInv, NEW s \in Session, ChooseInterface(s) PROVE IInv'
<1>0. TypeOK /\ CallInv /\ KillInv /\ PidInv /\ BooksInv /\ MonitorInv /\ DnsInv
  BY DEF IInv
<1>a. /\ UNCHANGED <<helper, proc, orphans, old, cut, printed, unit, dns, manager, pid,
                   flag, last, kills, stop, monitor, stray, late, ended,
                   spared, hit, astray>>
  BY DEF ChooseInterface, books, history, handled
<1>b. PICK p \in {"dns", "failed"} : step' = [step EXCEPT ![<<"setup", s>>] = p]
  BY DEF ChooseInterface, Go
<1>c. \A t \in Session : /\ step'[<<"spawn", t>>] = step[<<"spawn", t>>]
                         /\ step'[<<"kill", t>>] = step[<<"kill", t>>]
  BY <1>0, <1>b, Kinds, Distinct DEF TypeOK
<1>1. TypeOK'
  <2>1. step' \in [Calls -> {"none", "sent", "int", "probe", "kill", "killall", "down",
                           "revert", "dns", "domain"} \cup Answers]
    BY <1>0, <1>b DEF TypeOK, Answers
  <2>2. name' \in [Session -> Unit]
    <3>1. CASE name' = name
      BY <1>0, <3>1 DEF TypeOK
    <3>2. ASSUME NEW t \in Session, HasTunnel(t), name' = [name EXCEPT ![s] = unit[t]]
          PROVE  name' \in [Session -> Unit]
      <4>1. unit[t] \in Unit
        BY <1>0, <3>2 DEF TypeOK, HasTunnel
      <4> QED
        BY <1>0, <3>2, <4>1 DEF TypeOK
    <3> QED
      BY <3>1, <3>2 DEF ChooseInterface
  <2> QED
    BY <1>0, <1>a, <2>1, <2>2 DEF TypeOK
<1>2. CallInv'
  BY <1>0, <1>a, <1>c DEF CallInv
<1>3. KillInv'
  BY <1>0, <1>a, <1>c DEF KillInv
<1>4. PidInv'
  BY Kinds DEF IInv, PidInv, ChooseInterface, At, Go, handled, books, history,
     HasTunnel
<1>5. BooksInv'
  <2>1. \A d \in Calls : InFlight(d)' => InFlight(d)
    <3>1. \A d \in Calls : d[1] # "setup" => d # <<"setup", s>>
      <4>1. ASSUME NEW d \in Calls, d = <<"setup", s>> PROVE d[1] = "setup"
        BY <4>1
      <4> QED
        BY <4>1
    <3>2. \A d \in Calls : d # <<"setup", s>> => step'[d] = step[d]
      BY <1>0, <1>b DEF TypeOK
    <3> QED
      BY <3>1, <3>2 DEF InFlight
  <2> QED
    BY <1>0, <1>a, <2>1 DEF BooksInv, Deals, LeftOver
<1>6. MonitorInv'
  <2>1. step[<<"setup", s>>] # "none"
    BY DEF ChooseInterface, At
  <2>2. \A t \in Session \ {s} : step'[<<"setup", t>>] = step[<<"setup", t>>]
    BY <1>0, <1>b, Kinds, Distinct DEF TypeOK
  <2> QED
    BY <1>0, <1>a, <2>1, <2>2 DEF MonitorInv
<1>7. DnsInv'
  BY Kinds DEF IInv, DnsInv, DnsIsOwn, ChooseInterface, At, Go, handled, books,
     history, HasTunnel
<1> QED
  BY <1>1, <1>2, <1>3, <1>4, <1>5, <1>6, <1>7 DEF IInv

LEMMA SetServersStep ==
  ASSUME IInv, NEW s \in Session, SetServers(s) PROVE IInv'
<1>0. TypeOK /\ CallInv /\ KillInv /\ PidInv /\ BooksInv /\ MonitorInv /\ DnsInv
  BY DEF IInv
<1>a. /\ UNCHANGED <<helper, proc, orphans, old, cut, printed, unit, manager, pid,
                   flag, last, kills, stop, monitor, stray, late, ended,
                   spared, hit, astray>>
  BY DEF SetServers, books, history, handled
<1>b. PICK p \in {"domain", "failed"} : step' = [step EXCEPT ![<<"setup", s>>] = p]
  BY DEF SetServers, Go
<1>c. \A t \in Session : /\ step'[<<"spawn", t>>] = step[<<"spawn", t>>]
                         /\ step'[<<"kill", t>>] = step[<<"kill", t>>]
  BY <1>0, <1>b, Kinds, Distinct DEF TypeOK
<1>1. TypeOK'
  <2>1. step' \in [Calls -> {"none", "sent", "int", "probe", "kill", "killall", "down",
                           "revert", "dns", "domain"} \cup Answers]
    BY <1>0, <1>b DEF TypeOK, Answers
  <2>2. name' \in [Session -> Unit]
    <3>1. name' = name \/ (name' = [name EXCEPT ![s] = 0] /\ 0 \in Unit)
      BY Numbers DEF SetServers, Unit, Session
    <3> QED
      BY <1>0, <3>1 DEF TypeOK
  <2>3. dns' \in [Session -> {0} \cup Session]
    <3>1. dns' = dns \/ \E t \in Session : dns' = [dns EXCEPT ![t] = s]
      BY DEF SetServers
    <3> QED
      BY ZenonT(40), <1>0, <3>1 DEF TypeOK
  <2> QED
    BY <1>0, <1>a, <2>1, <2>2, <2>3 DEF TypeOK
<1>2. CallInv'
  BY <1>0, <1>a, <1>c DEF CallInv
<1>3. KillInv'
  BY <1>0, <1>a, <1>c DEF KillInv
<1>4. PidInv'
  BY Kinds DEF IInv, PidInv, SetServers, At, Go, handled, books, history
<1>5. BooksInv'
  <2>1. \A d \in Calls : InFlight(d)' => InFlight(d)
    <3>1. \A d \in Calls : d[1] # "setup" => d # <<"setup", s>>
      <4>1. ASSUME NEW d \in Calls, d = <<"setup", s>> PROVE d[1] = "setup"
        BY <4>1
      <4> QED
        BY <4>1
    <3>2. \A d \in Calls : d # <<"setup", s>> => step'[d] = step[d]
      BY <1>0, <1>b DEF TypeOK
    <3> QED
      BY <3>1, <3>2 DEF InFlight
  <2> QED
    BY <1>0, <1>a, <2>1 DEF BooksInv, Deals, LeftOver
<1>6. MonitorInv'
  <2>1. step[<<"setup", s>>] # "none"
    BY DEF SetServers, At
  <2>2. \A t \in Session \ {s} : step'[<<"setup", t>>] = step[<<"setup", t>>]
    BY <1>0, <1>b, Kinds, Distinct DEF TypeOK
  <2> QED
    BY <1>0, <1>a, <2>1, <2>2 DEF MonitorInv
<1>7. DnsInv'
  <2>1. step[<<"setup", s>>] # "none"
    BY DEF SetServers, At
  <2>2. s \in stop \/ s \in stray \/ pid = s
    BY <1>0, <2>1 DEF MonitorInv
  <2>3. \/ dns' = dns
        \/ \E t \in Session : HasTunnel(t) /\ dns' = [dns EXCEPT ![t] = s]
    <3>1. \A t \in Session : unit[t] = name[s] => HasTunnel(t)
      <4>1. name[s] \in Nat
        BY <1>0, Numbers DEF TypeOK
      <4> QED
        BY <4>1 DEF HasTunnel
    <3> QED
      BY <3>1 DEF SetServers
  <2> CASE dns' = dns
    BY <1>0, <1>a DEF DnsInv, DnsIsOwn
  <2> CASE \E t \in Session : HasTunnel(t) /\ dns' = [dns EXCEPT ![t] = s]
    BY <1>a, <2>2, NewServers
  <2> QED
    BY <2>3
<1> QED
  BY <1>1, <1>2, <1>3, <1>4, <1>5, <1>6, <1>7 DEF IInv

LEMMA SetDomainsStep ==
  ASSUME IInv, NEW s \in Session, SetDomains(s) PROVE IInv'
<1>0. TypeOK /\ CallInv /\ KillInv /\ PidInv /\ BooksInv /\ MonitorInv /\ DnsInv
  BY DEF IInv
<1>a. /\ UNCHANGED <<helper, proc, orphans, old, cut, printed, unit, dns, manager, pid,
                   flag, last, kills, stop, monitor, stray, late, ended,
                   spared, hit, astray>>
  BY DEF SetDomains, books, history, handled
<1>b. PICK p \in {"ok", "failed"} : step' = [step EXCEPT ![<<"setup", s>>] = p]
  BY DEF SetDomains, Go
<1>c. \A t \in Session : /\ step'[<<"spawn", t>>] = step[<<"spawn", t>>]
                         /\ step'[<<"kill", t>>] = step[<<"kill", t>>]
  BY <1>0, <1>b, Kinds, Distinct DEF TypeOK
<1>1. TypeOK'
  <2>1. step' \in [Calls -> {"none", "sent", "int", "probe", "kill", "killall", "down",
                           "revert", "dns", "domain"} \cup Answers]
    BY <1>0, <1>b DEF TypeOK, Answers
  <2>2. name' \in [Session -> Unit]
    <3>1. name' = [name EXCEPT ![s] = 0] /\ 0 \in Unit
      BY Numbers DEF SetDomains, Unit, Session
    <3> QED
      BY <1>0, <3>1 DEF TypeOK
  <2> QED
    BY <1>0, <1>a, <2>1, <2>2 DEF TypeOK
<1>2. CallInv'
  BY <1>0, <1>a, <1>c DEF CallInv
<1>3. KillInv'
  BY <1>0, <1>a, <1>c DEF KillInv
<1>4. PidInv'
  BY Kinds DEF IInv, PidInv, SetDomains, At, Go, handled, books, history
<1>5. BooksInv'
  <2>1. \A d \in Calls : InFlight(d)' => InFlight(d)
    <3>1. \A d \in Calls : d[1] # "setup" => d # <<"setup", s>>
      <4>1. ASSUME NEW d \in Calls, d = <<"setup", s>> PROVE d[1] = "setup"
        BY <4>1
      <4> QED
        BY <4>1
    <3>2. \A d \in Calls : d # <<"setup", s>> => step'[d] = step[d]
      BY <1>0, <1>b DEF TypeOK
    <3> QED
      BY <3>1, <3>2 DEF InFlight
  <2> QED
    BY <1>0, <1>a, <2>1 DEF BooksInv, Deals, LeftOver
<1>6. MonitorInv'
  <2>1. step[<<"setup", s>>] # "none"
    BY DEF SetDomains, At
  <2>2. \A t \in Session \ {s} : step'[<<"setup", t>>] = step[<<"setup", t>>]
    BY <1>0, <1>b, Kinds, Distinct DEF TypeOK
  <2> QED
    BY <1>0, <1>a, <2>1, <2>2 DEF MonitorInv
<1>7. DnsInv'
  BY Kinds DEF IInv, DnsInv, DnsIsOwn, SetDomains, At, Go, handled, books, history
<1> QED
  BY <1>1, <1>2, <1>3, <1>4, <1>5, <1>6, <1>7 DEF IInv

-----------------------------------------------------------------------------
(* The app *)

LEMMA SpawnStep ==
  ASSUME IInv, Spawn PROVE IInv'
<1>1. TypeOK'
  <2>1. last + 1 \in Session
    <3>1. last \in 0 .. MaxSessions /\ last < MaxSessions
      BY DEF IInv, TypeOK, Spawn
    <3> QED
      BY <3>1, Numbers
  <2>2. /\ last' = last + 1 /\ manager' = <<"spawn", last'>> /\ helper' = TRUE
        /\ step' = [step EXCEPT ![<<"spawn", last'>>] = "sent"]
        /\ stray' = stray \cup ({pid} \ {0})
        /\ UNCHANGED <<name, system, hit, astray, pid, flag, kills, stop, monitor, late,
                       ended, spared>>
    BY DEF Spawn, Go, called
  <2>3. last' \in 0 .. MaxSessions
    BY <2>1, <2>2, Numbers DEF Session
  <2>4. manager' \in Calls
    BY <2>1, <2>2, Kinds
  <2>5. step' \in [Calls -> {"none", "sent", "int", "probe", "kill", "killall", "down",
                           "revert", "dns", "domain"} \cup Answers]
    BY <2>1, <2>2, Kinds DEF IInv, TypeOK
  <2> QED
    BY <2>2, <2>3, <2>4, <2>5 DEF IInv, TypeOK, system
<1>2. CallInv'
  <2>1. last \in 0 .. MaxSessions /\ MaxSessions \in Nat /\ last' = last + 1 /\ last' \in Session
    BY Numbers DEF IInv, TypeOK, Spawn
  <2>2. /\ manager' = <<"spawn", last'>> /\ step' = [step EXCEPT ![<<"spawn", last'>>] = "sent"]
        /\ UNCHANGED <<proc, pid, ended>>
    BY DEF Spawn, Go, called, system
  <2>3. proc[last'] = "none" /\ pid # last' /\ last' \notin ended
        /\ step[<<"kill", last'>>] = "none"
    <3>1. ~(last' <= last)
      BY <2>1
    <3>2. step[<<"spawn", last'>>] = "none"
      BY <2>1, <3>1 DEF IInv, CallInv
    <3> QED
      BY <2>1, <3>2 DEF IInv, CallInv
  <2>4. ASSUME NEW t \in Session
        PROVE  manager' \notin {<<"kill", t>>, <<"pkexec INT", t>>, <<"pkexec KILL", t>>}
    BY <2>2
  <2>5. /\ step'[<<"spawn", last'>>] = "sent"
        /\ \A t \in Session : step'[<<"kill", t>>] = step[<<"kill", t>>]
        /\ \A t \in Session \ {last'} : step'[<<"spawn", t>>] = step[<<"spawn", t>>]
    BY <2>1, <2>2, Kinds, Distinct DEF IInv, TypeOK
  <2>6. ASSUME NEW t \in Session
        PROVE  /\ step'[<<"spawn", t>>] # "none" => t <= last'
               /\ step'[<<"spawn", t>>] \in {"none", "sent"} => proc'[t] = "none"
    <3>1. CASE t = last'
      BY <2>1, <2>2, <2>3, <3>1
    <3>2. CASE t # last'
      <4>1. t \in Nat /\ (step[<<"spawn", t>>] # "none" => t <= last)
        BY Numbers DEF IInv, CallInv
      <4>2. step'[<<"spawn", t>>] = step[<<"spawn", t>>] /\ proc'[t] = proc[t]
        BY <2>2, <2>5, <3>2
      <4>3. step[<<"spawn", t>>] \in {"none", "sent"} => proc[t] = "none"
        BY DEF IInv, CallInv
      <4>4. t <= last => t <= last'
        BY <2>1, <4>1
      <4> QED
        BY <4>1, <4>2, <4>3, <4>4
    <3> QED
      BY <3>1, <3>2
  <2>7. ASSUME NEW t \in Session, pid' = t \/ step'[<<"kill", t>>] # "none" \/ t \in ended'
        PROVE  step'[<<"spawn", t>>] = "ok"
    <3>1. t # last'
      BY <2>2, <2>3, <2>5, <2>7
    <3> QED
      BY <2>2, <2>5, <2>7, <3>1 DEF IInv, CallInv
  <2> QED
    BY <2>4, <2>6, <2>7 DEF CallInv
<1>3. KillInv'
  BY Kinds DEF IInv, KillInv, Alive, TypeOK, Spawn, Go, called, system, Idle
<1>4. PidInv'
  BY Kinds DEF IInv, PidInv, Spawn, Go, called, system, Idle
<1>5. BooksInv'
  BY Kinds DEF IInv, BooksInv, InFlight, Deals, LeftOver, Answers, Alive, Spawn, Go, called,
     system, Idle
<1>6. MonitorInv'
  BY Kinds DEF IInv, MonitorInv, Spawn, Go, called, system, Idle
<1>7. DnsInv'
  BY Kinds DEF IInv, DnsInv, DnsIsOwn, Spawn, Go, called, system, Idle
<1> QED
  BY <1>1, <1>2, <1>3, <1>4, <1>5, <1>6, <1>7 DEF IInv

LEMMA SpawnedStep ==
  ASSUME IInv, NEW s \in Session, Spawned(s) PROVE IInv'
<1>0. TypeOK /\ CallInv /\ KillInv /\ PidInv /\ BooksInv /\ MonitorInv /\ DnsInv
  BY DEF IInv
<1>a. /\ manager = <<"spawn", s>> /\ manager' = Idle
      /\ step[<<"spawn", s>>] \in Answers \/ <<"spawn", s>> \in cut
      /\ UNCHANGED <<step, proc, late, cut>>
      /\ \/ /\ pid' = s /\ stray' = stray
            /\ step[<<"spawn", s>>] = "ok" /\ <<"spawn", s>> \notin cut
         \/ pid' = pid /\ stray' = stray \cup {s}
  BY DEF Spawned, called, system, Answered, Succeeds
<1>1. TypeOK'
  <2>1. monitor' \in [Session -> {"none", "reading", "line", "asking", "done"}]
    BY DEF IInv, TypeOK, Spawned
  <2>2. /\ pid' \in {0} \cup Session /\ flag' \in {0} \cup Session
        /\ stray' \subseteq Session /\ manager' = Idle
    BY DEF IInv, TypeOK, Spawned
  <2> QED
    BY <2>1, <2>2 DEF IInv, TypeOK, Spawned, called, system
<1>2. CallInv'
  BY DEF IInv, CallInv, Spawned, Succeeds, called, system, Idle
<1>3. KillInv'
  BY DEF IInv, KillInv, Alive, Spawned, called, system, Answers, Idle
<1>4. PidInv'
  BY DEF IInv, PidInv, Spawned, called, system, Answers, Idle
<1>5. BooksInv'
  <2>1. manager'[1] = "idle" /\ manager[1] = "spawn" /\ manager[2] = s
    BY <1>a DEF Idle
  <2>2. \A d \in Calls : InFlight(d)' => d \in late'
    BY <1>0, <1>a DEF BooksInv, InFlight
  <2>3. ASSUME NEW t \in Session, proc'[t] \in Alive PROVE t \in stray' \/ pid' = t
    <3>1. t \in stray \/ pid = t \/ t = s
      BY <1>0, <1>a, <2>1, <2>3 DEF BooksInv, Deals, LeftOver
    <3>2. pid = t => t \in stray
      BY <1>0, <2>1, Numbers DEF BooksInv
    <3> QED
      BY <1>a, <3>1, <3>2
  <2>4. \A t \in Session : <<"spawn", t>> \in late' => t \in stray'
    BY <1>0, <1>a DEF BooksInv, LeftOver
  <2> QED
    BY <1>0, <1>a, <2>1, <2>2, <2>3, <2>4 DEF BooksInv
<1>6. MonitorInv'
  <2>1. pid # 0 => pid \in stray
    BY <1>0, <1>a, Parts DEF BooksInv
  <2>2. UNCHANGED stop /\ (pid' = flag' \/ UNCHANGED <<pid, flag>>)
    BY DEF Spawned
  <2>3. \A t \in Session \ {s} : monitor'[t] = monitor[t]
    BY <1>0 DEF Spawned, TypeOK
  <2>4. \/ pid' = s
        \/ s \in stray'
    BY <1>a
  <2>5. stray \subseteq stray' /\ (pid' = pid \/ pid' = s)
    BY <1>a
  <2>6. ASSUME NEW t \in Session, monitor'[t] # "none" PROVE t \in stop \/ t \in stray' \/ pid' = t
    <3>1. CASE t = s
      BY <2>4, <3>1
    <3>2. CASE t # s
      <4>1. t \in stop \/ t \in stray \/ pid = t
        BY <1>0, <2>3, <2>6, <3>2 DEF MonitorInv
      <4> QED
        BY <2>1, <2>5, <4>1, Numbers
    <3> QED
      BY <3>1, <3>2
  <2>7. \A t \in Session : step'[<<"setup", t>>] # "none" => monitor'[t] # "none"
    <3>1. monitor' = monitor \/ monitor' = [monitor EXCEPT ![s] = "reading"]
      BY DEF Spawned
    <3> QED
      BY <1>0, <1>a, <3>1 DEF MonitorInv, TypeOK
  <2> QED
    BY <1>0, <2>2, <2>6, <2>7 DEF MonitorInv
<1>7. DnsInv'
  <2>1. stray \subseteq stray' /\ UNCHANGED <<proc, unit, dns, stop>>
    BY DEF Spawned, called, system
  <2> QED
    BY <1>0, <2>1 DEF DnsInv, DnsIsOwn
<1> QED
  BY <1>1, <1>2, <1>3, <1>4, <1>5, <1>6, <1>7 DEF IInv

LEMMA KillVpnStep ==
  ASSUME IInv, KillVpn PROVE IInv'
<1>0. TypeOK /\ CallInv /\ KillInv /\ PidInv /\ BooksInv /\ MonitorInv /\ DnsInv
  BY DEF IInv
<1>a. /\ pid' = 0 /\ kills' = kills + 1 /\ kills < MaxKills /\ stop' = Raised
      /\ manager = Idle
      /\ UNCHANGED <<helper, name, proc, orphans, old, cut, printed, unit, flag, last,
                   monitor, stray, late, ended, spared, astray>>
  BY DEF KillVpn, books, history
<1>b. PICK c \in Calls :
        /\ c = IF pid # 0 THEN <<"kill", pid>> ELSE <<"teardown", kills'>>
        /\ \/ manager' = c /\ step' = [step EXCEPT ![c] = "sent"] /\ UNCHANGED <<hit, dns>>
           \/ pid # 0 /\ manager' = <<"pkexec INT", pid>> /\ UNCHANGED <<step, hit, dns>>
           \/ pid = 0 /\ RevertDirectly(c) /\ UNCHANGED <<manager, step>>
  BY DEF KillVpn, Go
<1>c. \A t \in Session : step'[<<"spawn", t>>] = step[<<"spawn", t>>]
  BY <1>0, <1>b, Kinds, Distinct DEF TypeOK
<1>1. TypeOK'
  <2>1. step' \in [Calls -> {"none", "sent", "int", "probe", "kill", "killall", "down",
                           "revert", "dns", "domain"} \cup Answers]
    <3>1. step' = step \/ step' = [step EXCEPT ![c] = "sent"]
      BY <1>b
    <3> QED
      BY <1>0, <3>1 DEF TypeOK
  <2>2. manager' \in {Idle} \cup Calls \cup ({"pkexec INT", "pkexec KILL"} \X Session)
    <3>1. \/ manager' = c \/ manager' = manager
          \/ pid \in Session /\ manager' = <<"pkexec INT", pid>>
      BY <1>0, <1>b DEF TypeOK
    <3> QED
      BY <1>0, <3>1, Signals DEF TypeOK
  <2>3. dns' \in [Session -> {0} \cup Session]
    <3>1. dns' = dns \/ dns' = [t \in Session |-> 0]
      BY <1>b DEF RevertDirectly
    <3> QED
      BY ZenonT(40), <1>0, <3>1 DEF TypeOK
  <2>4. hit' \subseteq Calls \X Session
    <3>1. hit' \subseteq hit \cup ({c} \X Session)
      BY <1>b DEF RevertDirectly, Others
    <3> QED
      BY <1>0, <3>1 DEF TypeOK
  <2>5. kills' \in 0 .. MaxKills /\ stop' \subseteq Session
    BY <1>0, <1>a, Numbers DEF TypeOK, Raised
  <2> QED
    BY <1>0, <1>a, <2>1, <2>2, <2>3, <2>4, <2>5 DEF TypeOK
<1>2. CallInv'
  <2>1. ASSUME NEW t \in Session,
               \/ step'[<<"kill", t>>] # "none"
               \/ manager' \in {<<"kill", t>>, <<"pkexec INT", t>>, <<"pkexec KILL", t>>}
        PROVE  step[<<"spawn", t>>] = "ok"
    <3>1. CASE step[<<"kill", t>>] # "none"
      BY <1>0, <3>1 DEF CallInv
    <3>2. CASE step[<<"kill", t>>] = "none"
      <4>1. pid = t
        <5>1. pid # 0 => pid \in Session
          BY <1>0 DEF TypeOK
        <5>2. kills' \in 1 .. MaxKills
          BY <1>0, <1>a, Numbers DEF TypeOK
        <5>3. c # <<"kill", t>> => step'[<<"kill", t>>] = "none"
          BY <1>0, <1>b, <3>2, Kinds DEF TypeOK
        <5>4. \/ manager' \in {c, Idle}
              \/ pid # 0 /\ manager' = <<"pkexec INT", pid>>
          BY <1>a, <1>b
        <5>5. ASSUME c # <<"kill", t>> PROVE pid = t
          <6>1. manager' \in {<<"kill", t>>, <<"pkexec INT", t>>, <<"pkexec KILL", t>>}
            BY <2>1, <5>3, <5>5
          <6>2. CASE manager' = c /\ pid # 0
            BY <1>b, <5>1, <5>5, <6>1, <6>2, Signals
          <6>3. CASE manager' = c /\ pid = 0
            BY <1>b, <5>2, <5>5, <6>1, <6>3, Signals, Distinct
          <6>4. CASE manager' = Idle
            BY <6>1, <6>4, Signals
          <6>5. CASE pid # 0 /\ manager' = <<"pkexec INT", pid>>
            BY <5>1, <6>1, <6>5, Signals
          <6> QED
            BY <5>4, <6>2, <6>3, <6>4, <6>5
        <5> QED
          BY <1>b, <5>1, <5>2, <5>5, Distinct
      <4> QED
        BY <1>0, <4>1 DEF CallInv
    <3> QED
      BY <3>1, <3>2
  <2> QED
    BY <1>0, <1>a, <1>c, <2>1, Numbers DEF CallInv
<1>3. KillInv'
  BY Kinds DEF IInv, KillInv, Alive, TypeOK, KillVpn, Go, history, Others,
     HasTunnel, Raised, RevertDirectly, Idle
<1>4. PidInv'
  BY Kinds DEF IInv, PidInv, KillVpn, Go, history, Others, HasTunnel, Raised,
     RevertDirectly, Idle
<1>5. BooksInv'
  <2>1. manager[1] = "idle"
    BY <1>a DEF Idle
  <2>2. \A t \in Session : pid = t => Deals(t)'
    <3> SUFFICES ASSUME NEW t \in Session, pid = t PROVE Deals(t)'
      OBVIOUS
    <3>1. t # 0
      BY Numbers
    <3>2. CASE manager' = <<"kill", t>>
      BY <3>2 DEF Deals
    <3>3. CASE manager' = <<"pkexec INT", t>>
      BY <3>3 DEF Deals
    <3> QED
      BY <1>b, <3>1, <3>2, <3>3
  <2>3. manager' \in {c, Idle} \/ (pid # 0 /\ manager' = <<"pkexec INT", pid>>)
    BY <1>a, <1>b
  <2>4. ASSUME NEW d \in Calls, InFlight(d)' PROVE manager' = d \/ d \in late'
    <3>1. CASE InFlight(d)
      <4>1. manager = d \/ d \in late
        BY <1>0, <3>1 DEF BooksInv
      <4>2. d # Idle
        BY Kinds DEF Idle
      <4> QED
        BY <1>a, <4>1, <4>2
    <3>2. CASE ~InFlight(d)
      <4>1. step' # step
        BY <2>4, <3>2 DEF InFlight
      <4>2. manager' = c /\ step' = [step EXCEPT ![c] = "sent"]
        BY <1>b, <4>1
      <4>3. d = c
        BY <1>0, <2>4, <3>2, <4>2 DEF InFlight, TypeOK
      <4> QED
        BY <4>2, <4>3
    <3> QED
      BY <3>1, <3>2
  <2>5. \A t \in Session : proc'[t] \in Alive => t \in stray' \/ Deals(t)'
    BY <1>0, <1>a, <2>1, <2>2, Numbers DEF BooksInv, Deals, LeftOver
  <2>6. \A t \in Session : <<"spawn", t>> \in late' => t \in stray'
    BY <1>0, <1>a, <2>1, Parts DEF BooksInv, LeftOver
  <2> QED
    BY <1>0, <1>a, <2>4, <2>5, <2>6 DEF BooksInv
<1>6. MonitorInv'
  <2>1. \A t \in Session : step'[<<"setup", t>>] = step[<<"setup", t>>]
    <3>1. \A t \in Session : c # <<"setup", t>>
      <4>1. pid # 0 => pid \in Session
        BY <1>0 DEF TypeOK
      <4>2. kills' \in 1 .. MaxKills
        BY <1>0, <1>a, Numbers DEF TypeOK
      <4> QED
        BY <1>b, <4>1, <4>2, Distinct
    <3> QED
      BY <1>0, <1>b, <3>1, Kinds DEF TypeOK
  <2>2. stop \subseteq stop' /\ (pid # 0 => pid \in stop')
    BY <1>0, <1>a DEF MonitorInv, Raised
  <2> QED
    BY <1>0, <1>a, <2>1, <2>2, Numbers DEF MonitorInv
<1>7. DnsInv'
  <2>1. dns' = dns \/ dns' = [t \in Session |-> 0]
    BY <1>b DEF RevertDirectly
  <2>2. stop \subseteq stop'
    BY <1>a DEF Raised
  <2> QED
    BY <1>0, <1>a, <2>1, <2>2 DEF DnsInv, DnsIsOwn
<1> QED
  BY <1>1, <1>2, <1>3, <1>4, <1>5, <1>6, <1>7 DEF IInv

LEMMA KilledStep ==
  ASSUME IInv, NEW s \in Session, Killed(s) PROVE IInv'
<1>0. TypeOK /\ CallInv /\ KillInv /\ PidInv /\ BooksInv /\ MonitorInv /\ DnsInv
  BY DEF IInv
<1>a. /\ manager = <<"kill", s>> /\ manager' = Idle
      /\ UNCHANGED <<step, orphans, old, cut, proc, pid, last, spared>>
      /\ \/ ended' = ended
         \/ ended' = ended \cup {s} /\ step[<<"kill", s>>] = "ok"
  BY DEF Killed, Succeeds, called, system, books
<1>b. step[<<"spawn", s>>] = "ok"
  BY <1>0, <1>a DEF CallInv
<1>1. TypeOK'
  BY DEF IInv, TypeOK, Answers, Killed, called, books, system, Idle
<1>2. CallInv'
  BY <1>0, <1>a, <1>b DEF CallInv, Idle
<1>3. KillInv'
  BY <1>0, <1>a DEF KillInv
<1>4. PidInv'
  BY DEF IInv, PidInv, Killed, called, books, system, Answers, Idle
<1>5. BooksInv'
  <2>1. /\ step[<<"kill", s>>] \in Answers \/ <<"kill", s>> \in cut
        /\ UNCHANGED late
        /\ \/ stray' = stray /\ step[<<"kill", s>>] = "ok"
           \/ stray' = stray \cup {s}
    BY DEF Killed, Answered, Succeeds, called, system, books
  <2>2. manager'[1] = "idle" /\ manager[1] = "kill" /\ manager[2] = s
    BY <1>a DEF Idle
  <2>3. \A d \in Calls : InFlight(d)' => d \in late'
    BY <1>0, <1>a, <2>1 DEF BooksInv, InFlight
  <2>4. step[<<"kill", s>>] = "ok" => proc[s] \notin Alive
    BY <1>0 DEF KillInv
  <2>5. \A t \in Session : proc'[t] \in Alive => t \in stray' \/ pid' = t
    BY <1>0, <1>a, <2>1, <2>2, <2>4 DEF BooksInv, Deals, LeftOver
  <2>6. \A t \in Session : <<"spawn", t>> \in late' => t \in stray'
    BY <1>0, <1>a, <2>1, Distinct DEF BooksInv, LeftOver
  <2> QED
    BY <1>0, <1>a, <2>1, <2>2, <2>3, <2>5, <2>6 DEF BooksInv
<1>6. MonitorInv'
  BY DEF IInv, MonitorInv, Killed, called, books, system, Answers, Idle
<1>7. DnsInv'
  <2>1. stray \subseteq stray' /\ UNCHANGED <<proc, unit, dns, stop>>
    BY DEF Killed, called, system, books
  <2> QED
    BY <1>0, <2>1 DEF DnsInv, DnsIsOwn
<1> QED
  BY <1>1, <1>2, <1>3, <1>4, <1>5, <1>6, <1>7 DEF IInv

LEMMA TornDownStep ==
  ASSUME IInv, NEW n \in 1 .. MaxKills, TornDown(n) PROVE IInv'
<1>1. TypeOK'
  BY DEF IInv, TypeOK, Answers, TornDown, called, books, history, system, Idle
<1>2. CallInv'
  BY DEF IInv, CallInv, TornDown, called, books, history, system, Answers, Idle
<1>3. KillInv'
  BY DEF IInv, KillInv, Alive, TornDown, called, books, history, system, Answers,
     Idle
<1>4. PidInv'
  BY DEF IInv, PidInv, TornDown, called, books, history, system, Answers, Idle
<1>5. BooksInv'
  BY DEF IInv, BooksInv, InFlight, Deals, LeftOver, Answers, Answered, Alive, TornDown,
     called, books, history, system, Idle
<1>6. MonitorInv'
  BY DEF IInv, MonitorInv, TornDown, called, books, history, system, Answers, Idle
<1>7. DnsInv'
  BY DEF IInv, DnsInv, DnsIsOwn, TornDown, called, books, history, system, Answers,
     Idle
<1> QED
  BY <1>1, <1>2, <1>3, <1>4, <1>5, <1>6, <1>7 DEF IInv

LEMMA TimeOutStep ==
  ASSUME IInv, NEW c \in Calls, TimeOut(c) PROVE IInv'
<1>0. TypeOK /\ CallInv /\ KillInv /\ PidInv /\ BooksInv /\ MonitorInv /\ DnsInv
  BY DEF IInv
<1>a. /\ manager = c /\ manager' = Idle /\ late' = late \cup {c}
      /\ stray' = IF c[1] = "teardown" THEN stray ELSE stray \cup {c[2]}
      /\ UNCHANGED <<step, proc, pid, cut>>
  BY DEF TimeOut, called, system, books
<1>1. TypeOK'
  <2>1. stray' \subseteq Session
    <3>1. c[1] # "teardown" => c[2] \in Session
      BY Kinds
    <3> QED
      BY <3>1 DEF IInv, TypeOK, TimeOut
  <2> QED
    BY <2>1 DEF IInv, TypeOK, TimeOut, called, system, books
<1>2. CallInv'
  BY DEF IInv, CallInv, TimeOut, called, books, system, Idle
<1>3. KillInv'
  BY DEF IInv, KillInv, Alive, TimeOut, called, books, system, Idle
<1>4. PidInv'
  BY DEF IInv, PidInv, TimeOut, called, books, system, Idle
<1>5. BooksInv'
  <2>1. manager'[1] = "idle"
    BY <1>a DEF Idle
  <2>2. \A d \in Calls : InFlight(d)' => d \in late'
    BY <1>0, <1>a DEF BooksInv, InFlight
  <2>3. stray \subseteq stray'
    BY <1>a
  <2>4. \A t \in Session : Deals(t) => t \in stray'
    BY <1>a DEF Deals
  <2>5. \A t \in Session : proc'[t] \in Alive => t \in stray' \/ pid' = t
    BY <1>0, <1>a, <2>3, <2>4 DEF BooksInv
  <2>6. ASSUME NEW t \in Session, <<"spawn", t>> \in late' PROVE t \in stray'
    <3>1. CASE <<"spawn", t>> \in late /\ c # <<"spawn", t>>
      BY <1>0, <1>a, <2>3, <3>1 DEF BooksInv, LeftOver
    <3>2. CASE c = <<"spawn", t>>
      BY <1>a, <3>2
    <3> QED
      BY <1>a, <2>6, <3>1, <3>2
  <2> QED
    BY <1>0, <1>a, <2>1, <2>2, <2>5, <2>6 DEF BooksInv
<1>6. MonitorInv'
  <2>1. stray \subseteq stray' /\ UNCHANGED <<flag, stop, monitor>>
    BY <1>a DEF TimeOut, called, books
  <2> QED
    BY <1>0, <1>a, <2>1 DEF MonitorInv
<1>7. DnsInv'
  <2>1. stray \subseteq stray' /\ UNCHANGED <<unit, dns, stop>>
    BY <1>a DEF TimeOut, called, system, books
  <2> QED
    BY <1>0, <1>a, <2>1 DEF DnsInv, DnsIsOwn
<1> QED
  BY <1>1, <1>2, <1>3, <1>4, <1>5, <1>6, <1>7 DEF IInv

LEMMA PkexecInterruptStep ==
  ASSUME IInv, NEW s \in Session, PkexecInterrupt(s) PROVE IInv'
<1>0. TypeOK /\ CallInv /\ KillInv /\ PidInv /\ BooksInv /\ MonitorInv /\ DnsInv
  BY DEF IInv
<1>a. /\ manager = <<"pkexec INT", s>>
      /\ manager' = <<"pkexec KILL", s>> \/ manager' = Idle
      /\ stray' = stray \/ stray' = stray \cup {s}
      /\ UNCHANGED <<helper, step, name, orphans, old, cut, printed, unit, dns, pid,
                   flag, last, kills, stop, monitor, late, ended, spared,
                   hit>>
  BY DEF PkexecInterrupt, books, history
<1>b. \/ proc' = proc /\ astray' = astray
      \/ /\ proc' = IF proc[s] \in Alive THEN [proc EXCEPT ![s] = "stopping"] ELSE proc
         /\ astray' = IF proc[s] = "reused" THEN astray \cup {s} ELSE astray
  BY DEF PkexecInterrupt, Signal
<1>c. /\ \A t \in Session \ {s} : proc'[t] = proc[t]
      /\ \/ proc'[s] = proc[s]
         \/ proc[s] \in Alive /\ proc'[s] = "stopping"
  BY <1>0, <1>b DEF TypeOK
<1>d. step[<<"spawn", s>>] = "ok"
  BY <1>0, <1>a DEF CallInv
<1>1. TypeOK'
  <2>1. proc' \in [Session -> Alive \cup {"none", "zombie", "gone", "reused"}]
    BY <1>0, <1>b DEF TypeOK, Alive
  <2>2. manager' \in {Idle} \cup Calls \cup ({"pkexec INT", "pkexec KILL"} \X Session)
    BY <1>a, Signals
  <2>3. astray' \subseteq Session /\ stray' \subseteq Session
    BY <1>0, <1>a, <1>b DEF TypeOK
  <2> QED
    BY <1>0, <1>a, <2>1, <2>2, <2>3 DEF TypeOK
<1>2. CallInv'
  <2>1. \A t \in Session :
          manager' \in {<<"kill", t>>, <<"pkexec INT", t>>, <<"pkexec KILL", t>>} => t = s
    BY <1>a, Signals
  <2> QED
    BY <1>0, <1>a, <1>c, <1>d, <2>1 DEF CallInv, Alive
<1>3. KillInv'
  BY <1>0, <1>a, <1>c DEF KillInv, Alive
<1>4. PidInv'
  <2>1. proc[s] = "reused" => s \in orphans
    BY <1>0 DEF PidInv
  <2>2. \A t \in Session \ {s} : proc'[t] = proc[t]
    BY <1>0, <1>b DEF TypeOK
  <2>3. proc'[s] \in {"gone", "reused"} => s \in orphans
    BY <1>0, <1>b DEF TypeOK, PidInv, Alive, Exited
  <2> QED
    BY <1>0, <1>a, <1>b, <2>1, <2>2, <2>3 DEF PidInv
<1>5. BooksInv'
  <2>1. /\ pid = 0 /\ manager[1] = "pkexec INT" /\ manager[2] = s
    BY <1>0, <1>a DEF BooksInv
  <2>2. \/ manager'[1] = "pkexec KILL" /\ manager'[2] = s
        \/ manager'[1] = "idle" /\ s \in stray'
    <3>1. CASE manager' = <<"pkexec KILL", s>>
      BY <3>1
    <3>2. CASE manager' = Idle /\ s \in stray'
      BY <3>2, Parts
    <3> QED
      BY <3>1, <3>2 DEF PkexecInterrupt
  <2>3. \A d \in Calls : InFlight(d)' => d \in late'
    <3>1. \A d \in Calls : d # manager
      BY <1>a, NoCalls
    <3> QED
      BY <1>0, <1>a, <3>1 DEF BooksInv, InFlight
  <2>4. \A t \in Session : proc'[t] \in Alive => proc[t] \in Alive
    BY <1>c
  <2>5. stray \subseteq stray'
    BY <1>a
  <2>6. \A t \in Session : proc'[t] \in Alive => t \in stray' \/ Deals(t)'
    BY <1>0, <2>1, <2>2, <2>4, <2>5, Numbers DEF BooksInv, Deals, LeftOver
  <2>7. \A t \in Session : <<"spawn", t>> \in late' => t \in stray'
    BY <1>0, <1>a, <2>1, <2>5 DEF BooksInv, LeftOver
  <2> QED
    BY <1>0, <1>a, <2>1, <2>2, <2>3, <2>6, <2>7 DEF BooksInv
<1>6. MonitorInv'
  BY <1>0, <1>a DEF MonitorInv
<1>7. DnsInv'
  BY <1>0, <1>a, <1>c DEF DnsInv, DnsIsOwn, Alive
<1> QED
  BY <1>1, <1>2, <1>3, <1>4, <1>5, <1>6, <1>7 DEF IInv

LEMMA PkexecKillStep ==
  ASSUME IInv, NEW s \in Session, PkexecKill(s) PROVE IInv'
<1>0. TypeOK /\ CallInv /\ KillInv /\ PidInv /\ BooksInv /\ MonitorInv /\ DnsInv
  BY DEF IInv
<1>a. /\ ended' = ended \cup {s} /\ UNCHANGED <<step, orphans, old, cut>>
      /\ \/ spared' = spared /\ Signal(s, Exited(s))
         \/ spared' = spared \cup {s} /\ proc' = proc
  BY DEF PkexecKill
<1>b. \/ proc' = proc /\ astray' = astray
      \/ /\ proc' = IF proc[s] \in Alive THEN [proc EXCEPT ![s] = Exited(s)] ELSE proc
         /\ astray' = IF proc[s] = "reused" THEN astray \cup {s} ELSE astray
  BY DEF PkexecKill, Signal
<1>c. \A t \in Session \ {s} : proc'[t] = proc[t]
  BY <1>0, <1>b DEF TypeOK
<1>d. \/ proc'[s] = proc[s]
      \/ proc[s] \in Alive /\ proc'[s] \in {"zombie", "gone"}
  BY <1>0, <1>b DEF TypeOK, Exited
<1>e. s \in spared' \/ proc'[s] \notin Alive
  BY <1>0, <1>a DEF TypeOK, Signal, Exited, Alive
<1>f. spared \subseteq spared'
  BY <1>a
<1>1. TypeOK'
  BY DEF IInv, TypeOK, Answers, PkexecKill, books, Signal, Exited, Alive, Idle
<1>2. CallInv'
  BY ZenonT(40) DEF IInv, CallInv, TypeOK, PkexecKill, books, Signal, Exited, Alive, Idle
<1>3. KillInv'
  BY <1>0, <1>a, <1>c, <1>d, <1>e, <1>f DEF KillInv, Alive
<1>4. PidInv'
  <2>1. proc[s] = "reused" => s \in orphans
    BY <1>0 DEF PidInv
  <2>2. \A t \in Session \ {s} : proc'[t] = proc[t]
    BY <1>0, <1>b DEF TypeOK
  <2>3. proc'[s] \in {"gone", "reused"} => s \in orphans
    BY <1>0, <1>b DEF TypeOK, PidInv, Alive, Exited
  <2> QED
    BY <1>0, <1>a, <1>b, <2>1, <2>2, <2>3 DEF PidInv
<1>5. BooksInv'
  <2>1. /\ manager = <<"pkexec KILL", s>> /\ manager' = Idle
        /\ UNCHANGED <<pid, late>>
        /\ (stray' = stray /\ spared' = spared) \/ s \in stray'
        /\ stray \subseteq stray'
    BY DEF PkexecKill, books
  <2>2. manager'[1] = "idle" /\ manager[1] = "pkexec KILL" /\ manager[2] = s
    BY <2>1 DEF Idle
  <2>3. \A d \in Calls : InFlight(d)' => d \in late'
    <3>1. \A d \in Calls : d # manager
      BY <2>1, NoCalls
    <3> QED
      BY <1>0, <1>a, <2>1, <3>1 DEF BooksInv, InFlight
  <2>4. s \in stray' \/ proc'[s] \notin Alive
    BY <1>0 DEF PkexecKill, Signal, Exited, Alive, TypeOK
  <2>5. \A t \in Session : proc'[t] \in Alive => proc[t] \in Alive
    BY <1>c, <1>d
  <2>6. \A t \in Session : proc'[t] \in Alive => t \in stray' \/ pid' = t
    BY <1>0, <2>1, <2>2, <2>4, <2>5 DEF BooksInv, Deals, LeftOver
  <2>7. \A t \in Session : <<"spawn", t>> \in late' => t \in stray'
    BY <1>0, <2>1, <2>2 DEF BooksInv, LeftOver
  <2> QED
    BY <1>0, <1>a, <2>1, <2>2, <2>3, <2>6, <2>7 DEF BooksInv
<1>6. MonitorInv'
  <2>1. stray \subseteq stray' /\ UNCHANGED <<pid, flag, stop, monitor>>
    BY DEF PkexecKill, books
  <2> QED
    BY <1>0, <1>a, <2>1 DEF MonitorInv
<1>7. DnsInv'
  <2>1. stray \subseteq stray' /\ UNCHANGED <<unit, dns, stop>>
    BY DEF PkexecKill, books
  <2> QED
    BY <1>0, <1>c, <1>d, <2>1 DEF DnsInv, DnsIsOwn, Alive
<1> QED
  BY <1>1, <1>2, <1>3, <1>4, <1>5, <1>6, <1>7 DEF IInv

LEMMA ReadLineStep ==
  ASSUME IInv, NEW s \in Session, ReadLine(s) PROVE IInv'
<1>1. TypeOK'
  BY DEF IInv, TypeOK, Answers, ReadLine, called, books, history, system
<1>2. CallInv'
  BY DEF IInv, CallInv, ReadLine, called, books, history, system
<1>3. KillInv'
  BY DEF IInv, KillInv, Alive, ReadLine, called, books, history, system
<1>4. PidInv'
  BY DEF IInv, PidInv, ReadLine, called, books, history, system
<1>5. BooksInv'
  BY DEF IInv, BooksInv, InFlight, Deals, LeftOver, Answers, Alive, ReadLine, called, books,
     history, system
<1>6. MonitorInv'
  BY DEF IInv, MonitorInv, ReadLine, called, books, history, system
<1>7. DnsInv'
  BY DEF IInv, DnsInv, DnsIsOwn, ReadLine, called, books, history, system
<1> QED
  BY <1>1, <1>2, <1>3, <1>4, <1>5, <1>6, <1>7 DEF IInv

LEMMA SetupDnsStep ==
  ASSUME IInv, NEW s \in Session, SetupDns(s) PROVE IInv'
<1>0. TypeOK /\ CallInv /\ KillInv /\ PidInv /\ BooksInv /\ MonitorInv /\ DnsInv
  BY DEF IInv
<1>a. /\ UNCHANGED <<helper, name, proc, orphans, old, cut, printed, unit, manager,
                   pid, flag, last, kills, stop, stray, late, ended,
                   spared, hit, astray>>
  BY DEF SetupDns, books, history
<1>b. \/ step' = step
      \/ step' = [step EXCEPT ![<<"setup", s>>] = "sent"]
  BY DEF SetupDns, Go
<1>c. \A t \in Session : /\ step'[<<"spawn", t>>] = step[<<"spawn", t>>]
                         /\ step'[<<"kill", t>>] = step[<<"kill", t>>]
  BY <1>0, <1>b, Kinds, Distinct DEF TypeOK
<1>1. TypeOK'
  <2>1. step' \in [Calls -> {"none", "sent", "int", "probe", "kill", "killall", "down",
                           "revert", "dns", "domain"} \cup Answers]
    BY <1>0, <1>b DEF TypeOK
  <2>2. monitor' \in [Session -> {"none", "reading", "line", "asking", "done"}]
    <3>1. \E p \in {"asking", "done"} : monitor' = [monitor EXCEPT ![s] = p]
      BY DEF SetupDns
    <3> QED
      BY <1>0, <3>1 DEF TypeOK
  <2>3. dns' \in [Session -> {0} \cup Session]
    <3>1. dns' = dns \/ \E t \in Session : dns' = [dns EXCEPT ![t] = s]
      BY DEF SetupDns
    <3> QED
      BY ZenonT(40), <1>0, <3>1 DEF TypeOK
  <2> QED
    BY <1>0, <1>a, <2>1, <2>2, <2>3 DEF TypeOK
<1>2. CallInv'
  BY <1>0, <1>a, <1>c DEF CallInv
<1>3. KillInv'
  BY <1>0, <1>a, <1>c DEF KillInv
<1>4. PidInv'
  BY Kinds DEF IInv, PidInv, SetupDns, Go, books, history, HasTunnel
<1>5. BooksInv'
  <2>1. \A d \in Calls : InFlight(d)' => InFlight(d)
    <3>1. \A d \in Calls : d[1] # "setup" => d # <<"setup", s>>
      <4>1. ASSUME NEW d \in Calls, d = <<"setup", s>> PROVE d[1] = "setup"
        BY <4>1
      <4> QED
        BY <4>1
    <3>2. \A d \in Calls : d # <<"setup", s>> => step'[d] = step[d]
      BY <1>0, <1>b DEF TypeOK
    <3> QED
      BY <3>1, <3>2 DEF InFlight
  <2> QED
    BY <1>0, <1>a, <2>1 DEF BooksInv, Deals, LeftOver
<1>6. MonitorInv'
  <2>1. monitor[s] # "none" /\ \A t \in Session \ {s} : monitor'[t] = monitor[t]
    BY <1>0 DEF SetupDns, TypeOK
  <2>2. monitor'[s] # "none"
    BY <1>0 DEF SetupDns, TypeOK
  <2>3. \A t \in Session \ {s} : step'[<<"setup", t>>] = step[<<"setup", t>>]
    BY <1>0, <1>b, Kinds, Distinct DEF TypeOK
  <2> QED
    BY <1>0, <1>a, <2>1, <2>2, <2>3 DEF MonitorInv
<1>7. DnsInv'
  <2>1. s \in stop \/ s \in stray \/ pid = s
    BY <1>0 DEF MonitorInv, SetupDns
  <2>2. \/ dns' = dns
        \/ \E t \in Session : HasTunnel(t) /\ dns' = [dns EXCEPT ![t] = s]
    BY DEF SetupDns
  <2> CASE dns' = dns
    BY <1>0, <1>a DEF DnsInv, DnsIsOwn
  <2> CASE \E t \in Session : HasTunnel(t) /\ dns' = [dns EXCEPT ![t] = s]
    BY <1>a, <2>1, NewServers
  <2> QED
    BY <2>2
<1> QED
  BY <1>1, <1>2, <1>3, <1>4, <1>5, <1>6, <1>7 DEF IInv

LEMMA SetupEndsStep ==
  ASSUME IInv, NEW s \in Session, SetupEnds(s) PROVE IInv'
<1>1. TypeOK'
  BY DEF IInv, TypeOK, Answers, SetupEnds, called, books, history, system
<1>2. CallInv'
  BY DEF IInv, CallInv, SetupEnds, called, books, history, system, Answers
<1>3. KillInv'
  BY DEF IInv, KillInv, Alive, SetupEnds, called, books, history, system, Answers
<1>4. PidInv'
  BY DEF IInv, PidInv, SetupEnds, called, books, history, system, Answers
<1>5. BooksInv'
  BY DEF IInv, BooksInv, InFlight, Deals, LeftOver, Answers, Alive, SetupEnds, called, books,
     history, system
<1>6. MonitorInv'
  BY DEF IInv, MonitorInv, SetupEnds, called, books, history, system, Answers
<1>7. DnsInv'
  BY DEF IInv, DnsInv, DnsIsOwn, SetupEnds, called, books, history, system, Answers
<1> QED
  BY <1>1, <1>2, <1>3, <1>4, <1>5, <1>6, <1>7 DEF IInv

-----------------------------------------------------------------------------
(* The theorems *)

\* Every action keeps the invariant.
LEMMA NextStep ==
  ASSUME IInv, Next PROVE IInv'
<1>1. CASE Handlers
  BY <1>1, HandleSpawnStep, CheckStep, InterruptStep, ProbeStep, KillStep, KillallPppdStep,
     InterfacesDownStep, RevertStep, ChooseInterfaceStep, SetServersStep, SetDomainsStep
     DEF Handlers
<1>2. CASE App
  BY <1>2, SpawnStep, KillVpnStep, SpawnedStep, KilledStep, PkexecInterruptStep,
     PkexecKillStep, ReadLineStep, SetupDnsStep, SetupEndsStep, TornDownStep, TimeOutStep
     DEF App
<1>3. CASE System
  BY <1>3, TunnelUpStep, VpnExitsStep, PppdExitsStep, PidReusedStep, HelperDiesStep,
     HelperStopsStep, OldHelperEndsStep DEF System
<1> QED
  BY <1>1, <1>2, <1>3 DEF Next

\* The inductive invariant: which calls a session has been through, what a kill-vpn has
\* done, and which pids are free.
THEOREM Invariant == Spec => []IInv
<1>1. Init => IInv
  <2> SUFFICES ASSUME Init PROVE IInv
    OBVIOUS
  <2>1. name \in [Session -> Unit]
    BY HelperAssumption DEF Init, Session, Unit
  <2>2. last \in 0 .. MaxSessions /\ kills \in 0 .. MaxKills
    BY HelperAssumption DEF Init
  <2>3. TypeOK
    BY <2>1, <2>2 DEF Init, TypeOK
  <2>4. \A c \in Calls : step[c] = "none"
    BY DEF Init
  <2>5. \A s \in Session : proc[s] = "none" /\ pid # s /\ s \notin ended
    BY Numbers DEF Init
  <2>6. CallInv
    <3>2. \A s \in Session :
            manager \notin {<<"kill", s>>, <<"pkexec INT", s>>, <<"pkexec KILL", s>>}
      BY Signals DEF Init
    <3> QED
      BY <2>4, <2>5, <3>2, Kinds DEF CallInv
  <2>7. KillInv
    BY <2>4, <2>5, Kinds DEF KillInv
  <2>8. PidInv
    BY <2>5 DEF PidInv, Init
  <2>9. BooksInv
    <3>1. manager[1] = "idle" /\ late = {} /\ cut = {}
      BY DEF Init, Idle
    <3> QED
      BY <2>4, <2>5, <3>1 DEF BooksInv, InFlight, Alive
  <2>10. MonitorInv
    BY <2>4, Kinds DEF MonitorInv, Init
  <2>11. DnsInv
    BY DEF DnsInv, DnsIsOwn, Init
  <2> QED
    BY <2>3, <2>6, <2>7, <2>8, <2>9, <2>10, <2>11 DEF IInv
<1>2. IInv /\ [Next]_vars => IInv'
  <2> SUFFICES ASSUME IInv, [Next]_vars PROVE IInv'
    OBVIOUS
  <2>1. CASE UNCHANGED vars
    <3>1. TypeOK' /\ CallInv' /\ KillInv' /\ PidInv'
      BY <2>1 DEF IInv, TypeOK, CallInv, KillInv, PidInv, vars, books, history, system
    <3>2. BooksInv'
      BY <2>1, SameBooks DEF InFlight, vars, books, history, system
    <3>3. MonitorInv' /\ DnsInv'
      BY <2>1 DEF IInv, MonitorInv, DnsInv, DnsIsOwn, vars, books, history, system
    <3> QED
      BY <3>1, <3>2, <3>3 DEF IInv
  <2> QED
    BY <2>1, NextStep
<1> QED
  BY <1>1, <1>2, PTL DEF Spec

\* Every variable keeps its type, for any number of sessions and disconnects and any
\* set of faults.
THEOREM TypeCorrect == Spec => []TypeOK
BY Invariant, PTL DEF IInv

\* A kill_vpn that reports success has ended its process, or the user has refused the
\* SIGKILL (handlers.rs handle_kill_vpn, process_manager.rs kill_vpn_privileged).
THEOREM KillIsFinal == Spec => []KillEnds
<1>1. IInv => KillEnds
  BY DEF IInv, TypeOK, KillInv, KillEnds
<1> QED
  BY <1>1, Invariant, PTL

\* A signal meets a process that is no openfortivpn only after the helper that started
\* it has ended (the children of the helper are never waited for).
THEOREM SignalsStayOnCourse == Spec => []SignalsHitVpn
<1>1. IInv => SignalsHitVpn
  BY DEF IInv, PidInv, SignalsHitVpn
<1> QED
  BY <1>1, Invariant, PTL

\* A clean-up whose caller still waits comes after the manager has given its pid up, so
\* that every other living session is lost to it.
LEMMA CleanupAlone ==
  ASSUME IInv, NEW c \in Calls, NEW t \in Others(c), c[1] \in {"kill", "teardown"},
         InFlight(c) \/ (manager = Idle /\ pid = 0)
  PROVE  c \in late \/ t \in stray
<1>1. t \in Session /\ proc[t] \in Alive /\ c # <<"kill", t>>
  BY DEF Others, Alive
<1>2. CASE manager = Idle /\ pid = 0
  <2>1. ~Deals(t) /\ pid # t
    BY <1>1, <1>2, Parts, Numbers DEF Deals
  <2> QED
    BY <1>1, <2>1 DEF IInv, BooksInv
<1>3. CASE InFlight(c) /\ c \notin late
  <2>1. manager = c
    BY <1>3 DEF IInv, BooksInv
  <2>2. pid = 0
    BY <2>1 DEF IInv, BooksInv
  <2>3. ASSUME Deals(t) PROVE FALSE
    <3>1. c[1] = "kill" /\ c[2] = t
      BY <2>1, <2>3 DEF Deals
    <3>2. ASSUME NEW s \in Session, c = <<"kill", s>> PROVE s = t
      BY <3>1, <3>2
    <3>3. ASSUME NEW s \in Session, c = <<"spawn", s>> \/ c = <<"setup", s>> PROVE FALSE
      BY <3>1, <3>3, Parts
    <3>4. ASSUME NEW n \in 1 .. MaxKills, c = <<"teardown", n>> PROVE FALSE
      BY <3>1, <3>4
    <3> QED
      BY <1>1, <3>2, <3>3, <3>4, Kinds
  <2> QED
    BY <1>1, <2>2, <2>3, Numbers DEF IInv, BooksInv
<1> QED
  BY <1>2, <1>3

\* A tunnel has the name servers of another session only by a monitor that was stopped
\* in the middle of the line, or when the manager has lost one of the two (server.rs
\* handles a setup-dns beside a kill-vpn).
THEOREM ServersAreOwn == Spec => []DnsIsOwn
<1>1. IInv => DnsIsOwn
  BY DEF IInv, DnsInv
<1> QED
  BY <1>1, Invariant, PTL

\* The clean-up of a session takes the tunnel of another down only if its caller hears no
\* answer any more by then - it has waited for five seconds, or the helper was told to
\* stop and the handler goes on without a connection - or if the manager has lost the
\* other session (handlers.rs killall pppd, ifconfig down, resolvectl revert).
THEOREM OthersSafe == Spec => OthersKeepTunnel
<1>1. ASSUME IInv, Next, NEW c \in Calls, NEW t \in Session, <<c, t>> \in hit' \ hit
      PROVE  c \in late \/ t \in stray
  <2>1. ASSUME NEW d \in Calls, hit' \subseteq hit \cup ({d} \X Others(d)),
               d[1] \in {"kill", "teardown"}, InFlight(d) \/ (manager = Idle /\ pid = 0)
        PROVE  c \in late \/ t \in stray
    <3>1. c = d /\ t \in Others(d)
      BY <1>1, <2>1
    <3> QED
      BY <1>1, <2>1, <3>1, CleanupAlone
  <2>2. ASSUME NEW s \in Session, KillallPppd(s) \/ InterfacesDown(s)
        PROVE  c \in late \/ t \in stray
    <3>1. InFlight(<<"kill", s>>)
      BY <2>2, Parts DEF KillallPppd, InterfacesDown, At, InFlight, Answers
    <3>2. hit' \subseteq hit \cup ({<<"kill", s>>} \X Others(<<"kill", s>>))
      BY <2>2 DEF KillallPppd, InterfacesDown
    <3> QED
      BY <2>1, <3>1, <3>2, Kinds, Parts
  <2>3. ASSUME NEW d \in Calls, Revert(d) PROVE c \in late \/ t \in stray
    <3>1. d[1] \in {"kill", "teardown"} /\ InFlight(d)
      BY <2>3 DEF Revert, At, InFlight, Answers
    <3>2. hit' \subseteq hit \cup ({d} \X Others(d))
      BY <2>3 DEF Revert
    <3> QED
      BY <2>1, <3>1, <3>2
  <2>4. CASE KillVpn
    <3>1. PICK d \in Calls :
            /\ d = IF pid # 0 THEN <<"kill", pid>> ELSE <<"teardown", kills'>>
            /\ hit' = hit \/ (pid = 0 /\ RevertDirectly(d))
      BY <2>4 DEF KillVpn
    <3>2. pid = 0 /\ manager = Idle /\ d[1] = "teardown"
      BY <1>1, <2>4, <3>1 DEF KillVpn
    <3>3. hit' \subseteq hit \cup ({d} \X Others(d))
      BY <3>1 DEF RevertDirectly
    <3> QED
      BY <2>1, <3>2, <3>3
  <2>5. \/ hit' = hit \/ KillVpn \/ \E d \in Calls : Revert(d)
        \/ \E s \in Session : KillallPppd(s) \/ InterfacesDown(s)
    <3>1. CASE Handlers
      BY <3>1 DEF Handlers, HandleSpawn, Check, Interrupt, Probe, Kill, ChooseInterface,
         SetServers, SetDomains
    <3>2. CASE App
      BY <3>2 DEF App, Spawn, Spawned, Killed, TornDown, TimeOut, PkexecInterrupt,
         PkexecKill, ReadLine, SetupDns, SetupEnds, called
    <3>3. CASE System
      BY <3>3 DEF System, TunnelUp, VpnExits, PppdExits, PidReused, HelperDies, HelperStops,
         OldHelperEnds
    <3> QED
      BY <1>1, <3>1, <3>2, <3>3 DEF Next
  <2> QED
    BY <1>1, <2>2, <2>3, <2>4, <2>5
<1>2. IInv /\ [Next]_vars =>
        [\A c \in Calls, t \in Session :
           <<c, t>> \in hit' \ hit => c \in late \/ t \in stray]_vars
  BY <1>1
<1> QED
  BY <1>2, Invariant, PTL DEF Spec, OthersKeepTunnel
=============================================================================
