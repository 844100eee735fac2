--------------------------- MODULE TunnelIOProofs ---------------------------
(***************************************************************************)
(* Machine-checked proofs about TunnelIO, for any number of packets, polls *)
(* and signals.                                                            *)
(***************************************************************************)
EXTENDS TunnelIO, TLAPS

\* Readers and writers are five threads with if_config, no one twice.
LEMMA Roles ==
  /\ \A c \in Chan : /\ Reader[c] \in Thread /\ Writer[c] \in Thread
                     /\ Reader[c] # "if_config" /\ Writer[c] # "if_config"
  /\ \A c, d \in Chan : /\ Reader[c] # Writer[d]
                        /\ c # d => /\ Reader[c] # Reader[d]
                                    /\ Writer[c] # Writer[d]
  /\ Writer["ssl_to_pty"] = "pppd_write" /\ Writer["pty_to_ssl"] = "ssl_write"
  /\ Reader["ssl_to_pty"] = "ssl_read" /\ Reader["pty_to_ssl"] = "pppd_read"
BY DEF Chan, Reader, Writer, Thread

\* The two orders list workers.
LEMMA Orders ==
  \A i \in 1 .. 5 : CreateOrder[i] \in Thread /\ StopOrder[i] \in Thread
<1> TAKE i \in 1 .. 5
<1>1. i = 1 \/ i = 2 \/ i = 3 \/ i = 4 \/ i = 5
  OBVIOUS
<1> QED
  BY <1>1 DEF CreateOrder, StopOrder, Thread

LEMMA StartPcType == \A t \in Thread : StartPc(t) \in Pc
BY DEF StartPc, Thread, Pc

-----------------------------------------------------------------------------
(* Type correctness *)

LEMMA TypeInit == Init => TypeOK
<1> SUFFICES ASSUME Init PROVE TypeOK
  OBVIOUS
<1>1. queue \in [Chan -> Seq(Nat)] /\ out \in [Chan -> Seq(Nat)]
  <2>1. <<>> \in Seq(Nat)
    OBVIOUS
  <2> QED
    BY <2>1 DEF Init
<1>2. pc \in [Thread -> Pc]
  BY DEF Init, Pc
<1>3. /\ hold \in [Thread -> Nat] /\ in \in [Chan -> Nat]
      /\ owner \in [Chan -> Thread \cup {"nobody"}]
      /\ wake \in [Chan -> BOOLEAN]
  BY DEF Init
<1>4. step \in 1 .. 5 /\ canceled \in SUBSET Thread
  BY DEF Init
<1> QED
  BY <1>1, <1>2, <1>3, <1>4 DEF Init, TypeOK

LEMMA TypePool ==
  ASSUME TypeOK, NEW c \in Chan, PoolStep(c) \/ Return(c)
  PROVE TypeOK'
<1> USE Roles DEF TypeOK, Goto, At, Pc, mainVars, poolVars, semVars, cfgVars, ioVars
<1>1. CASE PushLock(c) BY <1>1 DEF PushLock
<1>2. CASE Push(c) BY <1>2 DEF Push
<1>3. CASE PopLock(c) BY <1>3 DEF PopLock
<1>4. CASE Pop(c)
  <2>1. Head(queue[c]) \in Nat /\ Tail(queue[c]) \in Seq(Nat)
    BY <1>4 DEF Pop
  <2> QED BY <1>4, <2>1 DEF Pop
<1>5. CASE PopEmpty(c) BY <1>5 DEF PopEmpty
<1>6. CASE CondWait(c) BY <1>6 DEF CondWait
<1>7. CASE Return(c) BY <1>7 DEF Return
<1> QED BY <1>1, <1>2, <1>3, <1>4, <1>5, <1>6, <1>7 DEF PoolStep, Wakeup

LEMMA TypeIO ==
  ASSUME TypeOK, NEW c \in Chan,
         ReadFails(c) \/ WriteStep(c) \/ CancelledInWait(c)
  PROVE TypeOK'
<1> USE Roles DEF TypeOK, Goto, At, Pc, Ended, mainVars, poolVars, semVars,
                  cfgVars, ioVars
<1>1. CASE ReadFails(c)
  BY <1>1 DEF ReadFails
<1>2. CASE Write(c)
  BY <1>2 DEF Write
<1>3. CASE WriteFails(c)
  BY <1>3 DEF WriteFails
<1>4. CASE CancelledInWait(c)
  BY <1>4 DEF CancelledInWait
<1>5. CASE PtySelectFails
  <2>1. hold["pppd_write"] \in Nat
    BY DEF Thread
  <2>2. lost["ssl_to_pty"] \cup {hold["pppd_write"]} \in SUBSET Nat
    BY <2>1 DEF Chan
  <2>3. lost' \in [Chan -> SUBSET Nat]
    BY <1>5, <2>2 DEF PtySelectFails, Chan
  <2> QED
    BY <1>5, <2>3 DEF PtySelectFails, Thread
<1> QED
  BY <1>1, <1>2, <1>3, <1>4, <1>5 DEF WriteStep

LEMMA TypeGotPacket ==
  ASSUME TypeOK, NEW c \in Chan, GotPacket(c),
         ifConfig' \in Nat, negotiated' \in BOOLEAN
  PROVE TypeOK'
BY Roles DEF TypeOK, GotPacket, Goto, At, Pc, mainVars, poolVars

LEMMA TypeOutside ==
  ASSUME TypeOK, PppdTalks \/ PppdRead \/ PppdReadDrops \/ SslRead \/ Signal
  PROVE TypeOK'
<1>1. CASE PppdTalks
  BY <1>1 DEF PppdTalks, TypeOK, mainVars, poolVars, ioVars
<1>2. CASE PppdRead
  BY <1>2, TypeGotPacket DEF PppdRead, TypeOK, Chan
<1>3. CASE SslRead
  <2>1. GotPacket("ssl_to_pty") /\ "ssl_to_pty" \in Chan
    BY <1>3 DEF SslRead, Chan
  <2>2. ifConfig' \in Nat
    BY <1>3 DEF SslRead, TypeOK
  <2>3. negotiated' \in BOOLEAN
    BY <1>3, Zenon DEF SslRead, TypeOK
  <2> QED
    BY <2>1, <2>2, <2>3, TypeGotPacket
<1>4. CASE Signal
  BY <1>4 DEF Signal, TypeOK, mainVars, poolVars, cfgVars, ioVars
<1>5. CASE PppdReadDrops
  <2>1. in["pty_to_ssl"] + 1 \in Nat
    BY DEF TypeOK, Chan
  <2>2. lost' \in [Chan -> SUBSET Nat] /\ in' \in [Chan -> Nat]
    BY <1>5, <2>1 DEF PppdReadDrops, TypeOK, Chan
  <2> QED
    BY <1>5, <2>2 DEF PppdReadDrops, TypeOK, mainVars, poolVars, semVars, cfgVars
<1> QED
  BY <1>1, <1>2, <1>3, <1>4, <1>5

LEMMA TypeThreads ==
  ASSUME TypeOK,
         \/ PppdReady \/ IfConfigStep
         \/ \E t \in Thread : Cancelled(t) \/ CancelledInLog(t)
  PROVE TypeOK'
<1> USE DEF TypeOK, Goto, At, Pc, Ended, Thread, mainVars, poolVars, semVars,
            cfgVars, ioVars
<1>1. CASE PppdReady
  BY <1>1 DEF PppdReady
<1>2. CASE IfConfigStarts
  BY <1>2 DEF IfConfigStarts
<1>3. CASE InterfaceIsUp
  BY <1>3 DEF InterfaceIsUp
<1>4. CASE NotReadyYet
  BY <1>4 DEF NotReadyYet
<1>5. CASE PollTimesOut
  BY <1>5 DEF PollTimesOut
<1>6. CASE TunnelIsUp
  BY <1>6 DEF TunnelIsUp
<1>7. CASE \E t \in Thread : Cancelled(t)
  BY <1>7 DEF Cancelled
<1>8. CASE \E t \in Thread : CancelledInLog(t)
  BY <1>8 DEF CancelledInLog
<1> QED
  BY <1>1, <1>2, <1>3, <1>4, <1>5, <1>6, <1>7, <1>8 DEF IfConfigStep

LEMMA TypeMain == ASSUME TypeOK, MainStep PROVE TypeOK'
<1> USE DEF TypeOK, Goto, Advance, mainVars, poolVars, semVars, cfgVars, ioVars
<1>1. CASE CreateThread
  <2>1. CreateOrder[step] \in Thread /\ StartPc(CreateOrder[step]) \in Pc
    BY Orders, StartPcType
  <2> QED
    BY <1>1, <2>1 DEF CreateThread
<1>2. CASE StopRequested
  BY <1>2 DEF StopRequested
<1>3. CASE CancelThread
  <2>1. StopOrder[step] \in Thread
    BY Orders
  <2> QED
    BY <1>3, <2>1 DEF CancelThread
<1>4. CASE JoinThread
  BY <1>4 DEF JoinThread
<1>5. CASE InterfaceDown
  BY <1>5 DEF InterfaceDown
<1>6. CASE CreateThreadFails
  BY <1>6 DEF CreateThreadFails
<1> QED
  BY <1>1, <1>2, <1>3, <1>4, <1>5, <1>6 DEF MainStep

LEMMA TypeStep == TypeOK /\ [Next]_vars => TypeOK'
<1> SUFFICES ASSUME TypeOK, [Next]_vars PROVE TypeOK'
  OBVIOUS
<1>1. CASE UNCHANGED vars
  BY <1>1 DEF TypeOK, vars, mainVars, poolVars, semVars, cfgVars, ioVars
<1>2. CASE Next
  BY <1>1, <1>2, TypePool, TypeIO, TypeOutside, TypeThreads, TypeMain
     DEF Next, Environment, CancelStep, SpuriousWakeup, Terminated
<1> QED
  BY <1>1, <1>2

\* Every variable keeps its type, whatever the bounds.
THEOREM TypeCorrect == Spec => []TypeOK
BY TypeInit, TypeStep, PTL DEF Spec

-----------------------------------------------------------------------------
(* The inductive invariant *)

\* The part of the state the invariant of a channel speaks about.
Chan_vars(c) == <<pc[Reader[c]], pc[Writer[c]], hold[Reader[c]],
                  hold[Writer[c]], queue[c], owner[c], wake[c], in[c], out[c],
                  lost[c]>>

LEMMA Frame ==
  ASSUME NEW c \in Chan, ChanInv(c), UNCHANGED Chan_vars(c)
  PROVE ChanInv(c)'
BY DEF ChanInv, MutexInv, WaitInv, QueueInv, WriterInv, FlowInv, Kept, Pushed,
       Chan_vars

\* Only the main thread moves a worker out of "new".
LEMMA CreateFrame ==
  ASSUME CreateInv, UNCHANGED <<main, step>>,
         \A t \in Thread : pc[t] = "new" => pc'[t] = "new",
         step \in 1 .. 5
  PROVE CreateInv'
<1>1. \A i \in step .. 5 : CreateOrder[i] \in Thread
  BY Orders
<1> QED
  BY <1>1 DEF CreateInv

\* Two ways a step can move one end of a channel and leave the flow alone.
LEMMA ReaderMoves ==
  ASSUME NEW c \in Chan, ChanInv(c), MutexInv(c)', WaitInv(c)',
         UNCHANGED <<pc[Writer[c]], hold[Writer[c]], queue[c], out[c], lost[c],
                     Pushed(c)>>,
         lost'[c] \subseteq 1 .. in'[c],
         pc'[Reader[c]] \in InPush
           => hold'[Reader[c]] = in'[c] /\ in'[c] > 0 /\ in'[c] \notin lost'[c]
  PROVE ChanInv(c)'
<1>1. UNCHANGED Kept(c)
  BY DEF Kept
<1>2. QueueInv(c)'
  BY <1>1 DEF ChanInv, QueueInv
<1>3. WriterInv(c)' /\ FlowInv(c)'
  BY <1>1 DEF ChanInv, WriterInv, FlowInv
<1> QED
  BY <1>2, <1>3 DEF ChanInv

LEMMA WriterMoves ==
  ASSUME NEW c \in Chan, ChanInv(c), MutexInv(c)', WaitInv(c)',
         UNCHANGED <<pc[Reader[c]], hold[Reader[c]], queue[c], in[c], out[c],
                     lost[c]>>,
         \/ pc'[Writer[c]] \in Ended
         \/ /\ pc[Writer[c]] \notin Ended \cup {"write"}
            /\ pc'[Writer[c]] # "write"
  PROVE ChanInv(c)'
<1>1. UNCHANGED Pushed(c) /\ UNCHANGED Kept(c)
  BY DEF Pushed, Kept
<1>2. QueueInv(c)'
  BY <1>1 DEF ChanInv, QueueInv
<1>3. WriterInv(c)' /\ FlowInv(c)'
  BY <1>1 DEF ChanInv, WriterInv, FlowInv, Ended
<1> QED
  BY <1>2, <1>3 DEF ChanInv

LEMMA PushLockInv ==
  ASSUME IInv, NEW c \in Chan, PushLock(c) PROVE ChanInv(c)'
<1>1. /\ Reader[c] \in Thread /\ Writer[c] \in Thread /\ Reader[c] # Writer[c]
      /\ pc \in [Thread -> Pc] /\ owner[c] = "nobody" /\ "nobody" \notin Thread
      /\ pc' = [pc EXCEPT ![Reader[c]] = "push"] /\ pc[Reader[c]] = "pushLock"
      /\ owner'[c] = Reader[c]
      /\ UNCHANGED <<hold, queue, wake, in, out, lost>>
      /\ ChanInv(c)
  BY Roles DEF PushLock, IInv, TypeOK, Goto, ioVars, Thread
<1>2. UNCHANGED Pushed(c)
  BY <1>1 DEF Pushed, InPush
<1>3. MutexInv(c)' /\ WaitInv(c)'
  BY <1>1 DEF ChanInv, MutexInv, WaitInv, InPop
<1>4. /\ hold[Reader[c]] = in[c] /\ in[c] > 0 /\ in[c] \notin lost[c]
      /\ lost[c] \subseteq 1 .. in[c]
  BY <1>1 DEF ChanInv, QueueInv, InPush
<1> QED
  BY <1>1, <1>2, <1>3, <1>4, ReaderMoves

LEMMA PushInv ==
  ASSUME IInv, NEW c \in Chan, Push(c) PROVE ChanInv(c)'
<1> DEFINE R == Reader[c]
           W == Writer[c]
           q == queue[c]
<1> USE DEF IInv, TypeOK
<1>1. /\ R \in Thread /\ W \in Thread /\ R # W
      /\ q \in Seq(Nat) /\ hold[R] = in[c] /\ in[c] \in Nat /\ in[c] > 0
      /\ in[c] \notin lost[c]
      /\ pc' = [pc EXCEPT ![R] = "read"] /\ hold' = [hold EXCEPT ![R] = 0]
      /\ queue'[c] = Append(q, in[c]) /\ pc[R] = "push"
      /\ wake'[c] = (wake[c] \/ pc[W] = "wait")
      /\ UNCHANGED <<in, out, lost>>
  BY Roles DEF Push, ChanInv, QueueInv, Goto, InPush, ioVars
<1>2. Pushed(c) = in[c] - 1 /\ Pushed(c)' = in[c]
  BY <1>1 DEF Pushed, InPush
<1>3. MutexInv(c)'
  BY <1>1 DEF ChanInv, MutexInv, InPop
<1>4. WaitInv(c)'
  <2>1. pc'[W] = pc[W] /\ pc[W] # "empty"
    BY <1>1 DEF ChanInv, MutexInv, InPop
  <2>2. pc[W] = "wait" => wake'[c]
    BY <1>1, Zenon
  <2> QED
    BY <2>1, <2>2 DEF WaitInv
<1>5. Kept(c)' = Kept(c) \cup {in[c]} /\ \A p \in Kept(c) : p \in Int /\ p < in[c]
  BY <1>1, <1>2 DEF Kept
<1>6. /\ DOMAIN q = 1 .. Len(q) /\ Len(q) \in Nat
      /\ DOMAIN queue'[c] = 1 .. Len(q) + 1
      /\ \A i \in 1 .. Len(q) : queue'[c][i] = q[i]
      /\ queue'[c][Len(q) + 1] = in[c]
  BY <1>1
<1>7. \A i \in 1 .. Len(q) : q[i] \in Kept(c)
  BY <1>6 DEF ChanInv, QueueInv
<1>8. QueueInv(c)'
  <2>1. \A i \in DOMAIN queue'[c] : queue'[c][i] \in Kept(c)'
    BY <1>5, <1>6, <1>7
  <2>2. \A i, j \in DOMAIN queue'[c] : i < j => queue'[c][i] < queue'[c][j]
    <3> SUFFICES ASSUME NEW i \in DOMAIN queue'[c], NEW j \in DOMAIN queue'[c], i < j
                 PROVE queue'[c][i] < queue'[c][j]
      OBVIOUS
    <3>1. i \in 1 .. Len(q)
      BY <1>6
    <3>2. CASE j \in 1 .. Len(q)
      BY <1>6, <3>1, <3>2 DEF ChanInv, QueueInv
    <3>3. CASE j = Len(q) + 1
      BY <1>5, <1>6, <1>7, <3>1, <3>3
    <3> QED
      BY <1>6, <3>2, <3>3
  <2> QED
    BY <1>1, <2>1, <2>2 DEF ChanInv, QueueInv, InPush
<1>9. /\ pc'[W] = pc[W] /\ hold'[W] = hold[W] /\ WriterInv(c) /\ FlowInv(c)
      /\ out[c] \in Seq(Nat)
  BY <1>1 DEF ChanInv
<1> HIDE DEF IInv, TypeOK, q
<1>10. WriterInv(c)'
  <2>1. \A i \in DOMAIN out[c] : out[c][i] \in Int /\ out[c][i] < in[c]
    BY <1>1, <1>2, <1>9 DEF WriterInv
  <2>2. \A i \in DOMAIN out[c] : \A j \in DOMAIN queue'[c] : out[c][i] < queue'[c][j]
    <3> SUFFICES ASSUME NEW i \in DOMAIN out[c], NEW j \in 1 .. Len(q) + 1
                 PROVE out[c][i] < queue'[c][j]
      BY <1>6
    <3>1. CASE j = Len(q) + 1
      BY <1>6, <2>1, <3>1
    <3>2. CASE j \in 1 .. Len(q)
      <4>1. out[c][i] < q[j]
        BY <1>6, <1>9, <3>2 DEF WriterInv, q
      <4> QED
        BY <1>6, <3>2, <4>1
    <3> QED
      BY <1>6, <3>1, <3>2
  <2>3. pc[W] = "write" => \A j \in DOMAIN queue'[c] : hold[W] < queue'[c][j]
    <3> SUFFICES ASSUME pc[W] = "write", NEW j \in 1 .. Len(q) + 1
                 PROVE hold[W] < queue'[c][j]
      BY <1>6
    <3>1. CASE j = Len(q) + 1
      BY <1>5, <1>6, <1>9, <3>1 DEF WriterInv
    <3>2. CASE j \in 1 .. Len(q)
      <4>1. hold[W] < q[j]
        BY <1>6, <1>9, <3>2 DEF WriterInv, q
      <4> QED
        BY <1>6, <3>2, <4>1
    <3> QED
      BY <1>6, <3>1, <3>2
  <2>4. \A i \in DOMAIN out[c] : out[c][i] <= in[c]
    BY <1>1, <2>1
  <2>5. pc[W] = "write" => /\ hold[W] \in Kept(c)'
                           /\ \A i \in DOMAIN out[c] : out[c][i] < hold[W]
    BY <1>5, <1>9 DEF WriterInv
  <2> QED
    BY <1>1, <1>2, <1>9, <2>2, <2>3, <2>4, <2>5 DEF WriterInv
<1>11. FlowInv(c)'
  <2> SUFFICES ASSUME pc[W] \notin Ended, NEW p \in Kept(c) \cup {in[c]}
               PROVE \/ \E i \in DOMAIN out[c] : out[c][i] = p
                     \/ pc[W] = "write" /\ hold[W] = p
                     \/ \E j \in DOMAIN queue'[c] : queue'[c][j] = p
    BY <1>1, <1>5, <1>9 DEF FlowInv
  <2>1. CASE p = in[c]
    BY <1>6, <2>1
  <2>2. CASE p \in Kept(c)
    <3>1. CASE \E j \in DOMAIN q : q[j] = p
      <4>1. \A j \in DOMAIN q : j \in DOMAIN queue'[c] /\ queue'[c][j] = q[j]
        BY <1>6
      <4> QED
        BY <3>1, <4>1
    <3> QED
      BY <1>9, <2>2, <3>1 DEF FlowInv, q
  <2> QED
    BY <2>1, <2>2
<1> QED
  BY <1>3, <1>4, <1>8, <1>10, <1>11 DEF ChanInv

\* What the steps of a writer outside "write" have in common.
LEMMA WriterStep ==
  ASSUME IInv, NEW c \in Chan, NEW l \in Pc, Goto(Writer[c], l)
  PROVE /\ pc'[Reader[c]] = pc[Reader[c]] /\ pc'[Writer[c]] = l
        /\ ChanInv(c) /\ owner \in [Chan -> Thread \cup {"nobody"}]
        /\ wake \in [Chan -> BOOLEAN] /\ Reader[c] # Writer[c]
        /\ Reader[c] # "nobody" /\ Writer[c] # "nobody"
BY Roles DEF IInv, TypeOK, Goto, Thread

LEMMA PopLockInv ==
  ASSUME IInv, NEW c \in Chan, PopLock(c) \/ Return(c) PROVE ChanInv(c)'
<1>1. /\ Goto(Writer[c], "pop") /\ "pop" \in Pc /\ owner[c] = "nobody"
      /\ owner' = [owner EXCEPT ![c] = Writer[c]]
      /\ pc[Writer[c]] \notin Ended \cup {"write"}
      /\ UNCHANGED <<hold, queue, in, out, lost>>
  BY DEF PopLock, Return, At, Pc, Ended, ioVars
<1>2. MutexInv(c)' /\ WaitInv(c)'
  BY <1>1, WriterStep DEF ChanInv, MutexInv, WaitInv, InPop
<1> QED
  BY <1>1, <1>2, WriterStep, WriterMoves DEF Ended

LEMMA PopEmptyInv ==
  ASSUME IInv, NEW c \in Chan, PopEmpty(c) PROVE ChanInv(c)'
<1>1. /\ Goto(Writer[c], "empty") /\ "empty" \in Pc
      /\ pc[Writer[c]] = "pop" /\ queue[c] = <<>>
      /\ UNCHANGED <<hold, queue, in, out, lost, owner, wake>>
  BY DEF PopEmpty, Pc, ioVars, poolVars
<1>2. MutexInv(c)' /\ WaitInv(c)'
  BY <1>1, WriterStep DEF ChanInv, MutexInv, WaitInv, InPop
<1> QED
  BY <1>1, <1>2, WriterStep, WriterMoves DEF Ended

LEMMA CondWaitInv ==
  ASSUME IInv, NEW c \in Chan, CondWait(c) PROVE ChanInv(c)'
<1>1. /\ Goto(Writer[c], "wait") /\ "wait" \in Pc
      /\ pc[Writer[c]] = "empty"
      /\ UNCHANGED <<hold, queue, in, out, lost>>
  BY DEF CondWait, Pc, ioVars
<1>2. queue[c] = <<>> /\ pc[Reader[c]] # "push"
  BY <1>1, WriterStep DEF ChanInv, MutexInv, WaitInv, InPop
<1>3. MutexInv(c)' /\ WaitInv(c)'
  BY <1>1, <1>2, WriterStep DEF MutexInv, WaitInv, InPop
<1> QED
  BY <1>1, <1>3, WriterStep, WriterMoves DEF Ended

LEMMA PopInv ==
  ASSUME IInv, NEW c \in Chan, Pop(c) PROVE ChanInv(c)'
<1> DEFINE R == Reader[c]
           W == Writer[c]
           q == queue[c]
<1>1. /\ Goto(W, "write") /\ "write" \in Pc /\ pc[W] = "pop" /\ q # <<>>
      /\ hold'[W] = Head(q) /\ queue'[c] = Tail(q)
      /\ owner'[c] = "nobody" /\ in' = in /\ out' = out /\ wake' = wake
      /\ lost' = lost
      /\ hold'[R] = hold[R] /\ q \in Seq(Nat) /\ out[c] \in Seq(Nat)
      /\ in[c] \in Nat
  BY Roles DEF Pop, Pc, ioVars, IInv, TypeOK
<1>2. UNCHANGED Pushed(c) /\ UNCHANGED Kept(c)
  BY <1>1, WriterStep DEF Pushed, Kept
<1>3. pc[R] # "push"
  BY <1>1, WriterStep DEF ChanInv, MutexInv, InPop
<1>4. MutexInv(c)' /\ WaitInv(c)'
  BY <1>1, <1>3, WriterStep DEF MutexInv, WaitInv, InPop
<1>5. /\ DOMAIN q = 1 .. Len(q) /\ Len(q) \in Nat /\ Len(q) > 0
      /\ DOMAIN Tail(q) = 1 .. Len(q) - 1
      /\ \A i \in 1 .. Len(q) - 1 : Tail(q)[i] = q[i + 1]
      /\ Head(q) = q[1]
  BY <1>1
<1>6. QueueInv(c) /\ WriterInv(c) /\ FlowInv(c)
  BY <1>1, WriterStep DEF ChanInv
<1>7. /\ \A i \in 1 .. Len(q) - 1 : i + 1 \in 1 .. Len(q) /\ 1 < i + 1
      /\ 1 \in 1 .. Len(q)
  BY <1>5
<1>8. QueueInv(c)'
  <2>1. \A i \in DOMAIN Tail(q) : Tail(q)[i] \in Kept(c)
    BY <1>5, <1>6, <1>7 DEF QueueInv
  <2>2. ASSUME NEW i \in DOMAIN Tail(q), NEW j \in DOMAIN Tail(q), i < j
        PROVE Tail(q)[i] < Tail(q)[j]
    <3>1. i + 1 \in DOMAIN q /\ j + 1 \in DOMAIN q /\ i + 1 < j + 1
      BY <1>5, <2>2
    <3>2. q[i + 1] < q[j + 1]
      BY <1>6, <3>1 DEF QueueInv
    <3> QED
      BY <1>5, <2>2, <3>2
  <2>3. pc'[R] \in InPush => hold'[R] = in'[c] /\ in'[c] > 0 /\ in'[c] \notin lost'[c]
    BY <1>1, <1>6, WriterStep DEF QueueInv
  <2> QED
    BY <1>1, <1>2, <1>6, <2>1, <2>2, <2>3 DEF QueueInv
<1>9. /\ \A i \in DOMAIN Tail(q) : Head(q) < Tail(q)[i]
      /\ Head(q) \in Kept(c)
  BY <1>5, <1>6, <1>7 DEF QueueInv
<1>10. \A i \in DOMAIN out[c] : /\ out[c][i] <= Pushed(c)
                               /\ out[c][i] < Head(q)
                               /\ \A j \in DOMAIN Tail(q) : out[c][i] < Tail(q)[j]
  BY <1>5, <1>6, <1>7 DEF WriterInv
<1>11. WriterInv(c)'
  BY <1>1, <1>2, <1>9, <1>10, WriterStep, SMTT(30) DEF WriterInv
<1>12. FlowInv(c)'
  <2> SUFFICES ASSUME NEW p \in Kept(c)
               PROVE \/ \E i \in DOMAIN out[c] : out[c][i] = p
                     \/ Head(q) = p
                     \/ \E j \in DOMAIN Tail(q) : Tail(q)[j] = p
    BY <1>1, <1>2, WriterStep DEF FlowInv
  <2>1. \/ \E i \in DOMAIN out[c] : out[c][i] = p
        \/ \E j \in DOMAIN q : q[j] = p
    BY <1>1, <1>6 DEF FlowInv, Ended
  <2>2. ASSUME NEW j \in DOMAIN q, q[j] = p, j # 1
        PROVE \E k \in DOMAIN Tail(q) : Tail(q)[k] = p
    <3>1. j - 1 \in 1 .. Len(q) - 1 /\ (j - 1) + 1 = j
      BY <1>5, <2>2
    <3>2. Tail(q)[j - 1] = q[j]
      BY <1>5, <3>1
    <3> QED
      BY <1>5, <2>2, <3>1, <3>2
  <2> QED
    BY <1>5, <2>1, <2>2
<1> QED
  BY <1>4, <1>8, <1>11, <1>12 DEF ChanInv

LEMMA WriteInv ==
  ASSUME IInv, NEW c \in Chan, Write(c) PROVE ChanInv(c)'
<1> DEFINE R == Reader[c]
           W == Writer[c]
<1>1. /\ Goto(W, "popLock") /\ "popLock" \in Pc /\ pc[W] = "write"
      /\ UNCHANGED <<queue, owner, wake, in, lost>>
      /\ out'[c] = Append(out[c], hold[W]) /\ hold'[R] = hold[R]
      /\ out[c] \in Seq(Nat) /\ queue[c] \in Seq(Nat) /\ hold[W] \in Nat
  BY Roles DEF Write, At, Pc, poolVars, IInv, TypeOK
<1>2. UNCHANGED Pushed(c) /\ UNCHANGED Kept(c)
  BY <1>1, WriterStep DEF Pushed, Kept
<1>3. MutexInv(c)' /\ WaitInv(c)' /\ QueueInv(c)'
  <2>1. MutexInv(c)' /\ WaitInv(c)'
    BY <1>1, WriterStep DEF ChanInv, MutexInv, WaitInv, InPop
  <2>2. QueueInv(c)'
    <3>1. pc'[R] = pc[R] /\ QueueInv(c)
      BY <1>1, WriterStep DEF ChanInv
    <3> QED
      BY <1>1, <1>2, <3>1 DEF QueueInv
  <2> QED
    BY <2>1, <2>2
<1>4. WriterInv(c) /\ FlowInv(c)
  BY <1>1, WriterStep DEF ChanInv
<1>5. /\ DOMAIN out[c] = 1 .. Len(out[c]) /\ Len(out[c]) \in Nat
      /\ DOMAIN out'[c] = 1 .. Len(out[c]) + 1
      /\ \A i \in 1 .. Len(out[c]) : out'[c][i] = out[c][i]
      /\ out'[c][Len(out[c]) + 1] = hold[W]
  BY <1>1
<1>6. hold[W] <= Pushed(c)
  BY <1>1, <1>4 DEF WriterInv, Kept
<1>7. WriterInv(c)'
  <2>1. \A i \in DOMAIN out'[c] :
          /\ out'[c][i] <= Pushed(c)
          /\ \A j \in DOMAIN queue[c] : out'[c][i] < queue[c][j]
    BY <1>1, <1>4, <1>5, <1>6 DEF WriterInv
  <2> QED
    BY <1>1, <1>2, <2>1, WriterStep DEF WriterInv
<1>8. FlowInv(c)'
  BY <1>1, <1>2, <1>4, <1>5 DEF FlowInv, Ended
<1> QED
  BY <1>3, <1>7, <1>8 DEF ChanInv

\* The packet select failed for is recorded as lost.
LEMMA PtySelectFailsInv ==
  ASSUME IInv, PtySelectFails PROVE ChanInv("ssl_to_pty")'
<1> DEFINE c == "ssl_to_pty"
           W == Writer[c]
           h == hold[W]
<1>1. /\ c \in Chan /\ Goto(W, "popLock") /\ "popLock" \in Pc
      /\ pc[W] = "write" /\ hold'[Reader[c]] = hold[Reader[c]]
      /\ UNCHANGED <<queue, owner, wake, in, out>>
      /\ lost'[c] = lost[c] \cup {h} /\ in[c] \in Nat
  BY Roles DEF PtySelectFails, Pc, Chan, poolVars, IInv, TypeOK
<1> HIDE DEF c
<1>2. UNCHANGED Pushed(c) /\ Kept(c)' = Kept(c) \ {h}
  BY <1>1, WriterStep DEF Pushed, Kept
<1>3. MutexInv(c)' /\ WaitInv(c)'
  BY <1>1, WriterStep DEF ChanInv, MutexInv, WaitInv, InPop
<1>4. /\ QueueInv(c) /\ WriterInv(c) /\ FlowInv(c) /\ h \in Kept(c)
      /\ \A j \in DOMAIN queue[c] : h < queue[c][j]
  BY <1>1, WriterStep DEF ChanInv, WriterInv
<1>5. h \in 1 .. Pushed(c) /\ Pushed(c) \in Int
      /\ (pc[Reader[c]] \in InPush => h < in[c]) /\ h <= in[c]
  BY <1>1, <1>4 DEF Kept, Pushed
<1>6. QueueInv(c)'
  BY <1>1, <1>2, <1>4, <1>5, WriterStep DEF QueueInv
<1>7. WriterInv(c)'
  BY <1>1, <1>2, <1>4, WriterStep DEF WriterInv
<1>8. FlowInv(c)'
  BY <1>1, <1>2, <1>4, WriterStep DEF FlowInv, Ended
<1>9. ChanInv(c)'
  BY <1>3, <1>6, <1>7, <1>8 DEF ChanInv
<1> QED
  BY <1>9 DEF c

\* A writer that ends, whether it keeps a mutex or not.
LEMMA WriterEndsInv ==
  ASSUME IInv, NEW c \in Chan,
         \/ WriteFails(c) \/ CancelledInWait(c) \/ Cancelled(Writer[c])
         \/ CancelledInLog(Writer[c])
  PROVE ChanInv(c)'
<1>1. PICK l \in Ended : Goto(Writer[c], l)
  BY DEF WriteFails, CancelledInWait, Cancelled, CancelledInLog, Ended
<1>2. /\ l \in Pc /\ l \notin InPop \cup {"wait", "write"}
      /\ pc[Reader[c]] = "push" => owner'[c] = owner[c]
      /\ hold'[Reader[c]] = hold[Reader[c]]
      /\ UNCHANGED <<queue, in, out, lost>>
  BY <1>1, WriterStep, Roles
     DEF WriteFails, CancelledInWait, Cancelled, CancelledInLog, Ended, Pc, InPop,
         ioVars, poolVars, ChanInv, MutexInv, IInv, TypeOK
<1>3. MutexInv(c)' /\ WaitInv(c)'
  BY <1>1, <1>2, WriterStep DEF ChanInv, MutexInv, WaitInv, InPop
<1> QED
  BY <1>1, <1>2, <1>3, WriterStep, WriterMoves

LEMMA GotPacketInv ==
  ASSUME IInv, NEW c \in Chan, GotPacket(c) PROVE ChanInv(c)'
<1> DEFINE R == Reader[c]
           W == Writer[c]
<1>1. /\ R \in Thread /\ W \in Thread /\ R # W /\ in[c] \in Nat
      /\ pc' = [pc EXCEPT ![R] = "pushLock"] /\ pc[R] = "read"
      /\ hold' = [hold EXCEPT ![R] = in[c] + 1] /\ in'[c] = in[c] + 1
      /\ pc \in [Thread -> Pc] /\ hold \in [Thread -> Nat]
      /\ UNCHANGED <<queue, owner, wake, out, lost>> /\ ChanInv(c)
  BY Roles DEF GotPacket, At, Goto, IInv, TypeOK, poolVars
<1>2. UNCHANGED Pushed(c)
  BY <1>1 DEF Pushed, InPush
<1>3. MutexInv(c)' /\ WaitInv(c)'
  BY <1>1 DEF ChanInv, MutexInv, WaitInv, InPop
<1>4. lost[c] \subseteq 1 .. in[c]
  BY <1>1 DEF ChanInv, QueueInv
<1>5. in[c] + 1 \notin lost[c] /\ lost[c] \subseteq 1 .. in[c] + 1
  BY <1>1, <1>4
<1> QED
  BY <1>1, <1>2, <1>3, <1>5, ReaderMoves

\* The frame malloc failed for is recorded as lost.
LEMMA PppdReadDropsInv ==
  ASSUME IInv, PppdReadDrops PROVE ChanInv("pty_to_ssl")'
<1> DEFINE c == "pty_to_ssl"
<1>1. /\ c \in Chan /\ pc[Reader[c]] = "read" /\ in[c] \in Nat
      /\ UNCHANGED <<pc, hold, queue, owner, wake, out>>
      /\ in'[c] = in[c] + 1 /\ lost'[c] = lost[c] \cup {in[c] + 1}
      /\ ChanInv(c)
  BY Roles DEF PppdReadDrops, Chan, poolVars, IInv, TypeOK
<1> HIDE DEF c
<1>2. /\ Pushed(c) = in[c] /\ Pushed(c)' = in[c] + 1
      /\ lost[c] \subseteq 1 .. in[c]
  BY <1>1 DEF Pushed, InPush, ChanInv, QueueInv
<1>3. UNCHANGED Kept(c)
  BY <1>1, <1>2 DEF Kept
<1>4. MutexInv(c)' /\ WaitInv(c)'
  BY <1>1 DEF ChanInv, MutexInv, WaitInv
<1>5. QueueInv(c)'
  BY <1>1, <1>2, <1>3 DEF ChanInv, QueueInv, InPush
<1>6. WriterInv(c)'
  <2>1. \A i \in DOMAIN out[c] : out[c][i] \in Int /\ out[c][i] <= in[c]
    BY <1>1, <1>2 DEF ChanInv, WriterInv, IInv, TypeOK
  <2> QED
    BY <1>1, <1>2, <1>3, <2>1 DEF ChanInv, WriterInv
<1>7. FlowInv(c)'
  BY <1>1, <1>3 DEF ChanInv, FlowInv
<1>8. ChanInv(c)'
  BY <1>4, <1>5, <1>6, <1>7 DEF ChanInv
<1> QED
  BY <1>8 DEF c

LEMMA ReaderEndsInv ==
  ASSUME IInv, NEW c \in Chan,
         ReadFails(c) \/ Cancelled(Reader[c]) \/ CancelledInLog(Reader[c])
  PROVE ChanInv(c)'
<1> DEFINE R == Reader[c]
           W == Writer[c]
<1>1. /\ R \in Thread /\ W \in Thread /\ R # W /\ pc \in [Thread -> Pc]
      /\ pc[R] \notin InPush
      /\ UNCHANGED <<hold, queue, owner, wake, in, out, lost>>
      /\ ChanInv(c) /\ lost[c] \subseteq 1 .. in[c]
  BY Roles DEF ReadFails, Cancelled, CancelledInLog, MayLog, CancelPoint, SemWait,
               InPush, At, IInv, TypeOK, poolVars, ioVars, ChanInv, QueueInv
<1>2. PICK l \in Ended : pc' = [pc EXCEPT ![R] = l]
  BY DEF ReadFails, Cancelled, CancelledInLog, Ended, Goto
<1>3. pc'[R] \notin InPush /\ pc'[W] = pc[W]
  BY <1>1, <1>2 DEF Ended, InPush
<1>4. UNCHANGED Pushed(c)
  BY <1>1, <1>3 DEF Pushed
<1>5. MutexInv(c)' /\ WaitInv(c)'
  BY <1>1, <1>3 DEF ChanInv, MutexInv, WaitInv, InPop, InPush
<1> QED
  BY <1>1, <1>3, <1>4, <1>5, ReaderMoves

LEMMA PppdReadyInv ==
  ASSUME IInv, PppdReady PROVE ChanInv("ssl_to_pty")'
<1> DEFINE c == "ssl_to_pty"
<1>1. /\ c \in Chan /\ Goto(Writer[c], "popLock") /\ "popLock" \in Pc
      /\ pc[Writer[c]] = "waitReady"
      /\ UNCHANGED <<hold, queue, owner, wake, in, out, lost>>
  BY Roles DEF PppdReady, At, Pc, Chan, poolVars, ioVars
<1> HIDE DEF c
<1>2. MutexInv(c)' /\ WaitInv(c)'
  BY <1>1, WriterStep DEF ChanInv, MutexInv, WaitInv, InPop
<1>3. ChanInv(c)'
  BY <1>1, <1>2, WriterStep, WriterMoves DEF Ended
<1> QED
  BY <1>3 DEF c

\* A step of a thread that is neither end of a channel.
LEMMA OtherThread ==
  ASSUME IInv, NEW c \in Chan, NEW t \in Thread, NEW l, Goto(t, l),
         t # Reader[c], t # Writer[c],
         UNCHANGED <<hold[Reader[c]], hold[Writer[c]], queue[c], owner[c],
                     wake[c], in[c], out[c], lost[c]>>
  PROVE ChanInv(c)'
<1>1. pc'[Reader[c]] = pc[Reader[c]] /\ pc'[Writer[c]] = pc[Writer[c]]
  BY Roles DEF Goto, IInv, TypeOK
<1> QED
  BY <1>1, Frame DEF Chan_vars, IInv

\* A step of one channel, seen from the other one.
LEMMA OtherChannel ==
  ASSUME IInv, NEW c \in Chan, NEW d \in Chan, c # d,
         \/ PoolStep(d) \/ Return(d) \/ WriteStep(d) \/ ReadFails(d)
         \/ GotPacket(d) \/ CancelledInWait(d)
  PROVE ChanInv(c)'
<1>1. PICK t \in {Reader[d], Writer[d]}, l \in Pc : Goto(t, l)
  <2>1. CASE PushLock(d) \/ Push(d) \/ ReadFails(d) \/ GotPacket(d)
    <3>1. \E l \in {"push", "read", "done", "pushLock"} : Goto(Reader[d], l)
      BY <2>1 DEF PushLock, Push, ReadFails, GotPacket
    <3> QED
      BY <3>1 DEF Pc, Ended
  <2>2. CASE \/ PopLock(d) \/ Pop(d) \/ PopEmpty(d) \/ CondWait(d) \/ Return(d)
             \/ WriteStep(d) \/ CancelledInWait(d)
    <3>1. \E l \in {"pop", "write", "empty", "wait", "popLock"} \cup Ended :
            Goto(Writer[d], l)
      BY <2>2 DEF PopLock, Pop, PopEmpty, CondWait, Return, WriteStep, Write,
                  WriteFails, PtySelectFails, CancelledInWait, Ended
    <3> QED
      BY <3>1 DEF Pc
  <2> QED
    BY <2>1, <2>2 DEF PoolStep, Wakeup
<1>2. UNCHANGED <<hold[Reader[c]], hold[Writer[c]], in[c], out[c], lost[c]>>
  <2>1. CASE Writer[d] = "pppd_write" /\ PtySelectFails
    <3>1. /\ hold' = [hold EXCEPT ![Writer[d]] = 0] /\ hold \in [Thread -> Nat]
          /\ lost' = [lost EXCEPT !["ssl_to_pty"] = @ \cup {hold["pppd_write"]}]
          /\ UNCHANGED <<in, out>> /\ lost \in [Chan -> SUBSET Nat]
      BY <2>1 DEF PtySelectFails, IInv, TypeOK
    <3>2. d = "ssl_to_pty"
      BY <2>1 DEF Chan, Writer
    <3> QED
      BY <3>1, <3>2, Roles
  <2>2. CASE ~(Writer[d] = "pppd_write" /\ PtySelectFails)
    BY <2>2, Roles DEF PoolStep, PushLock, Push, PopLock, Pop, PopEmpty, CondWait,
       Wakeup, Return, WriteStep, Write, WriteFails, ReadFails, GotPacket,
       CancelledInWait, IInv, TypeOK, ioVars
  <2> QED
    BY <2>1, <2>2
<1>3. UNCHANGED <<queue[c], owner[c], wake[c]>>
  BY DEF PoolStep, PushLock, Push, PopLock, Pop, PopEmpty, CondWait, Wakeup,
         Return, WriteStep, Write, WriteFails, PtySelectFails, ReadFails,
         GotPacket, CancelledInWait, IInv, TypeOK, poolVars
<1>4. t \in Thread /\ t # Reader[c] /\ t # Writer[c]
  BY Roles
<1> QED
  BY <1>1, <1>2, <1>3, <1>4, OtherThread

LEMMA CreateThreadInv ==
  ASSUME IInv, CreateThread, NEW c \in Chan PROVE ChanInv(c)'
<1> DEFINE t == CreateOrder[step]
<1>1. /\ t \in Thread /\ pc[t] = "new" /\ Goto(t, StartPc(t))
      /\ UNCHANGED <<hold, queue, owner, wake, in, out, lost>>
      /\ pc \in [Thread -> Pc] /\ ChanInv(c) /\ lost[c] \subseteq 1 .. in[c]
  <2>1. step \in 1 .. 5 /\ step \in step .. 5 /\ main = "create"
    BY DEF IInv, TypeOK, CreateThread
  <2>2. t \in Thread /\ pc[t] = "new"
    BY <2>1, Orders DEF IInv, CreateInv
  <2> QED
    BY <2>2 DEF CreateThread, IInv, TypeOK, poolVars, ioVars, ChanInv, QueueInv
<1> HIDE DEF t
<1>2. CASE t = Reader[c]
  <2>1. StartPc(t) = "read"
    BY <1>2 DEF StartPc, Reader, Chan
  <2>2. pc'[Reader[c]] = "read" /\ pc'[Writer[c]] = pc[Writer[c]]
    BY <1>1, <1>2, <2>1, Roles DEF Goto
  <2>3. UNCHANGED Pushed(c)
    BY <1>1, <1>2, <2>2 DEF Pushed, InPush
  <2>4. MutexInv(c)' /\ WaitInv(c)'
    BY <1>1, <2>2 DEF ChanInv, MutexInv, WaitInv
  <2> QED
    BY <1>1, <2>2, <2>3, <2>4, ReaderMoves DEF InPush
<1>3. CASE t = Writer[c]
  <2>1. StartPc(t) \in {"waitReady", "popLock"}
    BY <1>3 DEF StartPc, Writer, Chan
  <2>2. StartPc(t) \in Pc /\ Goto(Writer[c], StartPc(t))
    BY <1>1, <1>3, <2>1 DEF Pc
  <2>3. MutexInv(c)' /\ WaitInv(c)'
    BY <1>1, <2>1, <2>2, WriterStep DEF ChanInv, MutexInv, WaitInv, InPop
  <2> QED
    BY <1>1, <1>3, <2>1, <2>2, <2>3, WriterStep, WriterMoves DEF Ended
<1>4. CASE t # Reader[c] /\ t # Writer[c]
  BY <1>1, <1>4, OtherThread
<1> QED
  BY <1>2, <1>3, <1>4

\* Every step but those of the main thread: no worker leaves "new".
LEMMA NewStaysNew ==
  ASSUME TypeOK, Next, ~MainStep
  PROVE UNCHANGED <<main, step>> /\ \A t \in Thread : pc[t] = "new" => pc'[t] = "new"
<1> USE DEF TypeOK, mainVars
<1>1. UNCHANGED <<main, step>>
  BY DEF Next, PppdReady, IfConfigStep, CancelStep, Environment, PoolStep,
         WriteStep, Terminated, IfConfigStarts, InterfaceIsUp, NotReadyYet,
         PollTimesOut, TunnelIsUp, Cancelled, CancelledInLog, CancelledInWait,
         PppdTalks, PppdRead, PppdReadDrops, SslRead, GotPacket, Signal, ReadFails,
         SpuriousWakeup, Return, Wakeup, PushLock, Push, PopLock, Pop, PopEmpty,
         CondWait, Write, WriteFails, PtySelectFails, vars
<1>2. pc' = pc \/ \E t \in Thread : pc[t] # "new" /\ \E l \in Pc : Goto(t, l)
  <2> USE Roles DEF At, Pc, Ended
  <2>1. CASE PppdReady \/ IfConfigStep
    BY <2>1 DEF PppdReady, IfConfigStep, IfConfigStarts, InterfaceIsUp, Thread,
                NotReadyYet, PollTimesOut, TunnelIsUp
  <2>2. ASSUME NEW t \in Thread, Cancelled(t) \/ CancelledInLog(t)
        PROVE pc[t] # "new" /\ \E l \in Pc : Goto(t, l)
    BY <2>2 DEF Cancelled, CancelledInLog, MayLog, CancelPoint, SemWait
  <2>3. CASE PppdTalks \/ PppdReadDrops \/ Signal \/ Terminated
    BY <2>3 DEF PppdTalks, PppdReadDrops, Signal, Terminated, vars
  <2>4. ASSUME NEW c \in Chan,
               \/ PushLock(c) \/ Push(c) \/ ReadFails(c) \/ GotPacket(c)
        PROVE pc[Reader[c]] # "new" /\ \E l \in Pc : Goto(Reader[c], l)
    BY <2>4 DEF PushLock, Push, ReadFails, GotPacket
  <2>5. ASSUME NEW c \in Chan,
               \/ PopLock(c) \/ Pop(c) \/ PopEmpty(c) \/ CondWait(c) \/ Return(c)
               \/ WriteStep(c) \/ CancelledInWait(c)
        PROVE pc[Writer[c]] # "new" /\ \E l \in Pc : Goto(Writer[c], l)
    BY <2>5 DEF PopLock, Pop, PopEmpty, CondWait, Return, WriteStep, Write,
                WriteFails, PtySelectFails, CancelledInWait
  <2>6. PppdRead \/ SslRead => \E c \in Chan : GotPacket(c)
    BY DEF PppdRead, SslRead, Chan
  <2>7. \/ PppdReady \/ IfConfigStep \/ PppdTalks \/ PppdReadDrops \/ Signal
        \/ Terminated
        \/ \E t \in Thread : Cancelled(t) \/ CancelledInLog(t)
        \/ \E c \in Chan : \/ PushLock(c) \/ Push(c) \/ ReadFails(c)
                           \/ GotPacket(c) \/ PopLock(c) \/ Pop(c)
                           \/ PopEmpty(c) \/ CondWait(c) \/ Return(c)
                           \/ WriteStep(c) \/ CancelledInWait(c)
    BY <2>6 DEF Next, CancelStep, Environment, PoolStep, SpuriousWakeup, Wakeup
  <2> QED
    BY <2>1, <2>2, <2>3, <2>4, <2>5, <2>7
<1> QED
  BY <1>1, <1>2 DEF Goto

LEMMA CreateStep ==
  ASSUME IInv, Next PROVE CreateInv'
<1>1. CASE ~MainStep
  BY <1>1, NewStaysNew, CreateFrame DEF IInv, TypeOK
<1>2. CASE CreateThread /\ main' = "create"
  <2>1. /\ step \in 1 .. 4 /\ step' = step + 1 /\ main = "create"
        /\ pc \in [Thread -> Pc]
        /\ pc' = [pc EXCEPT ![CreateOrder[step]] = StartPc(CreateOrder[step])]
    BY <1>2 DEF CreateThread, Advance, Goto, IInv, TypeOK
  <2>2. ASSUME NEW i \in step + 1 .. 5
        PROVE /\ CreateOrder[i] \in Thread /\ CreateOrder[i] # CreateOrder[step]
              /\ pc[CreateOrder[i]] = "new"
    <3>1. i \in step .. 5 /\ i \in 1 .. 5 /\ i # step
      BY <2>1
    <3>2. CreateOrder[i] # CreateOrder[step]
      BY <2>1, <3>1 DEF CreateOrder
    <3> QED
      BY <2>1, <3>1, <3>2, Orders DEF IInv, CreateInv
  <2> QED
    BY <2>1, <2>2 DEF CreateInv
<1>3. CASE MainStep /\ main' # "create"
  BY <1>3 DEF CreateInv
<1>4. MainStep /\ main' = "create" => CreateThread
  BY DEF MainStep, CreateThreadFails, StopRequested, CancelThread, JoinThread,
         InterfaceDown, Advance
<1> QED
  BY <1>1, <1>2, <1>3, <1>4

LEMMA ChanStep ==
  ASSUME IInv, Next, NEW c \in Chan PROVE ChanInv(c)'
<1> USE Roles
<1>1. CASE MainStep
  <2>1. CASE CreateThread
    BY <2>1, CreateThreadInv
  <2>2. CASE \/ CreateThreadFails \/ StopRequested \/ CancelThread
             \/ JoinThread \/ InterfaceDown
    BY <2>2, Frame DEF CreateThreadFails, StopRequested, CancelThread, JoinThread,
                       InterfaceDown, Chan_vars, poolVars, ioVars, IInv
  <2> QED
    BY <1>1, <2>1, <2>2 DEF MainStep
<1>2. CASE PppdReady
  <2>1. CASE c = "ssl_to_pty"
    BY <1>2, <2>1, PppdReadyInv
  <2>2. CASE c # "ssl_to_pty"
    <3>1. "pppd_write" \in Thread /\ Goto("pppd_write", "popLock")
      BY <1>2 DEF PppdReady, Thread
    <3>2. "pppd_write" # Reader[c] /\ "pppd_write" # Writer[c]
      BY <2>2 DEF Chan, Reader, Writer
    <3> QED
      BY <1>2, <3>1, <3>2, OtherThread DEF PppdReady, poolVars, ioVars
  <2> QED
    BY <2>1, <2>2
<1>3. CASE IfConfigStep
  <2>1. UNCHANGED <<hold, queue, owner, wake, in, out, lost>>
    BY <1>3 DEF IfConfigStep, IfConfigStarts, InterfaceIsUp, NotReadyYet,
                PollTimesOut, TunnelIsUp, poolVars, ioVars
  <2>2. pc' = pc \/ \E l \in Pc : Goto("if_config", l)
    BY <1>3 DEF IfConfigStep, IfConfigStarts, InterfaceIsUp, NotReadyYet,
                PollTimesOut, TunnelIsUp, Pc, Ended
  <2>3. CASE pc' = pc
    BY <2>1, <2>3, Frame DEF Chan_vars, IInv
  <2>4. CASE \E l \in Pc : Goto("if_config", l)
    BY <2>1, <2>4, OtherThread DEF Thread
  <2> QED
    BY <2>2, <2>3, <2>4
<1>4. CASE CancelStep
  <2>1. ASSUME NEW t \in Thread, Cancelled(t) \/ CancelledInLog(t)
        PROVE ChanInv(c)'
    <3>1. CASE t = Reader[c]
      BY <2>1, <3>1, ReaderEndsInv
    <3>2. CASE t = Writer[c]
      BY <2>1, <3>2, WriterEndsInv
    <3>3. CASE t # Reader[c] /\ t # Writer[c]
      BY <2>1, <3>3, OtherThread DEF Cancelled, CancelledInLog, poolVars, ioVars
    <3> QED
      BY <3>1, <3>2, <3>3
  <2>2. ASSUME NEW d \in Chan, CancelledInWait(d) PROVE ChanInv(c)'
    BY <2>2, WriterEndsInv, OtherChannel
  <2> QED
    BY <1>4, <2>1, <2>2 DEF CancelStep
<1>5. CASE Environment
  <2>1. CASE PppdTalks \/ Signal
    BY <2>1, Frame DEF PppdTalks, Signal, Chan_vars, poolVars, ioVars, IInv
  <2>2. ASSUME NEW d \in Chan, GotPacket(d) PROVE ChanInv(c)'
    BY <2>2, GotPacketInv, OtherChannel
  <2>3. ASSUME NEW d \in Chan, ReadFails(d) \/ Return(d) PROVE ChanInv(c)'
    BY <2>3, ReaderEndsInv, PopLockInv, OtherChannel
  <2>4. PppdRead \/ SslRead => \E d \in Chan : GotPacket(d)
    BY DEF PppdRead, SslRead, Chan
  <2>5. ASSUME PppdReadDrops PROVE ChanInv(c)'
    <3>1. CASE c = "pty_to_ssl"
      BY <2>5, <3>1, PppdReadDropsInv
    <3>2. CASE c # "pty_to_ssl"
      BY <2>5, <3>2, Frame DEF PppdReadDrops, Chan_vars, poolVars, IInv, TypeOK
    <3> QED
      BY <3>1, <3>2
  <2> QED
    BY <1>5, <2>1, <2>2, <2>3, <2>4, <2>5 DEF Environment, SpuriousWakeup
<1>6. ASSUME NEW d \in Chan, PoolStep(d) \/ WriteStep(d) PROVE ChanInv(c)'
  <2>1. CASE c # d
    BY <1>6, <2>1, OtherChannel
  <2>2. CASE c = d /\ PoolStep(d)
    BY <2>2, PushLockInv, PushInv, PopLockInv, PopEmptyInv, PopInv, CondWaitInv
       DEF PoolStep, Wakeup
  <2>3. CASE c = d /\ WriteStep(d)
    <3>1. Writer[c] = "pppd_write" => c = "ssl_to_pty"
      BY DEF Writer, Chan
    <3> QED
      BY <2>3, <3>1, WriteInv, WriterEndsInv, PtySelectFailsInv DEF WriteStep
  <2> QED
    BY <1>6, <2>1, <2>2, <2>3
<1>7. CASE Terminated
  BY <1>7, Frame DEF Terminated, vars, poolVars, ioVars, Chan_vars, IInv
<1> QED
  BY <1>1, <1>2, <1>3, <1>4, <1>5, <1>6, <1>7 DEF Next

LEMMA InvInit == Init => IInv
<1> SUFFICES ASSUME Init PROVE IInv
  OBVIOUS
<1>1. CreateInv
  BY Orders DEF Init, CreateInv
<1>2. ASSUME NEW c \in Chan PROVE ChanInv(c)
  BY Roles DEF Init, ChanInv, MutexInv, WaitInv, QueueInv, WriterInv, FlowInv,
               Kept, Pushed, InPush, InPop
<1> QED
  BY <1>1, <1>2, TypeInit DEF IInv

LEMMA InvStep == IInv /\ [Next]_vars => IInv'
<1> SUFFICES ASSUME IInv, [Next]_vars PROVE IInv'
  OBVIOUS
<1>1. TypeOK'
  BY TypeStep DEF IInv
<1>2. CASE Next
  BY <1>1, <1>2, CreateStep, ChanStep DEF IInv
<1>3. CASE UNCHANGED vars
  <2>1. ASSUME NEW c \in Chan PROVE ChanInv(c)'
    BY <1>3, Frame DEF IInv, vars, poolVars, ioVars, Chan_vars
  <2>2. CreateInv'
    BY <1>3 DEF IInv, CreateInv, vars, mainVars
  <2> QED
    BY <1>1, <2>1, <2>2 DEF IInv
<1> QED
  BY <1>2, <1>3

\* The pools are mutually exclusive and first in first out, and a packet is
\* pushed, popped and written once, whatever fails or is cancelled in between.
THEOREM Invariant == Spec => []IInv
BY InvInit, InvStep, PTL DEF Spec

\* No interleaving of pool_push and pool_pop loses the wakeup of a writer.
THEOREM WakeupNotLost == Spec => []NoLostWakeup
<1>1. IInv => NoLostWakeup
  BY DEF IInv, ChanInv, WaitInv, NoLostWakeup
<1> QED
  BY <1>1, Invariant, PTL

-----------------------------------------------------------------------------
(* Each direction of the tunnel implements its abstract channel *)

\* What a step does to the two ends of a channel.
LEMMA Flow ==
  ASSUME IInv, Next, NEW c \in Chan
  PROVE \/ UNCHANGED <<in[c], lost[c], out[c]>>
        \/ in'[c] = in[c] + 1 /\ UNCHANGED <<lost[c], out[c]>>
        \/ /\ in'[c] = in[c] + 1 /\ lost'[c] = lost[c] \cup {in[c] + 1}
           /\ UNCHANGED out[c]
        \/ /\ pc[Writer[c]] = "write" /\ lost'[c] = lost[c] \cup {hold[Writer[c]]}
           /\ UNCHANGED <<in[c], out[c]>>
        \/ /\ pc[Writer[c]] = "write" /\ out'[c] = Append(out[c], hold[Writer[c]])
           /\ UNCHANGED <<in[c], lost[c]>>
<1> USE DEF IInv, TypeOK
<1>1. ASSUME NEW d \in Chan, GotPacket(d)
      PROVE in'[c] \in {in[c], in[c] + 1} /\ UNCHANGED <<out, lost>>
  BY <1>1 DEF GotPacket
<1>2. ASSUME NEW d \in Chan, Write(d)
      PROVE /\ UNCHANGED <<in, lost>>
            /\ \/ out'[c] = out[c]
               \/ /\ pc[Writer[c]] = "write"
                  /\ out'[c] = Append(out[c], hold[Writer[c]])
  BY <1>2 DEF Write, At
<1>3. ASSUME PtySelectFails
      PROVE /\ UNCHANGED <<in, out>>
            /\ \/ lost'[c] = lost[c]
               \/ /\ pc[Writer[c]] = "write"
                  /\ lost'[c] = lost[c] \cup {hold[Writer[c]]}
  BY <1>3, Roles DEF PtySelectFails, Chan
<1>4. ASSUME PppdReadDrops
      PROVE /\ UNCHANGED out
            /\ \/ UNCHANGED <<in[c], lost[c]>>
               \/ /\ in'[c] = in[c] + 1
                  /\ lost'[c] = lost[c] \cup {in[c] + 1}
  BY <1>4 DEF PppdReadDrops, Chan
<1>5. \/ UNCHANGED <<in, out, lost>>
      \/ PtySelectFails \/ PppdReadDrops
      \/ \E d \in Chan : GotPacket(d) \/ Write(d)
  <2>1. CASE MainStep
    BY <2>1 DEF MainStep, CreateThread, CreateThreadFails, StopRequested,
                CancelThread, JoinThread, InterfaceDown, ioVars
  <2>2. CASE PppdReady \/ IfConfigStep \/ CancelStep \/ Terminated
    BY <2>2 DEF PppdReady, IfConfigStep, IfConfigStarts, InterfaceIsUp,
                NotReadyYet, PollTimesOut, TunnelIsUp, CancelStep, Cancelled,
                CancelledInLog, CancelledInWait, Terminated, vars, ioVars
  <2>3. CASE Environment
    BY <2>3 DEF Environment, PppdTalks, PppdRead, SslRead, Signal, ReadFails,
                SpuriousWakeup, Return, ioVars, Chan
  <2>4. CASE \E d \in Chan : PoolStep(d) \/ WriteStep(d)
    BY <2>4 DEF PoolStep, PushLock, Push, PopLock, Pop, PopEmpty, CondWait,
                Wakeup, Return, WriteStep, WriteFails, ioVars
  <2> QED
    BY <2>1, <2>2, <2>3, <2>4 DEF Next
<1> QED
  BY <1>1, <1>2, <1>3, <1>4, <1>5

\* The packet in the writer's hands has come and is not lost; all older ones are
\* written or lost, and all written ones are older.
LEMMA Oldest ==
  ASSUME IInv, NEW c \in Chan, pc[Writer[c]] = "write"
  PROVE LET h == hold[Writer[c]]
        IN /\ h \in 1 .. in[c] \ lost[c]
           /\ \A i \in DOMAIN out[c] : out[c][i] < h
           /\ \A q \in 1 .. h - 1 :
                q \in lost[c] \/ \E i \in DOMAIN out[c] : out[c][i] = q
<1> DEFINE h == hold[Writer[c]]
<1>1. /\ in[c] \in Nat /\ h \in Kept(c) /\ WriterInv(c) /\ FlowInv(c)
      /\ QueueInv(c)
  BY DEF IInv, TypeOK, ChanInv, WriterInv
<1>2. h \in 1 .. Pushed(c) /\ h \notin lost[c] /\ Pushed(c) \in Int
      /\ Pushed(c) <= in[c]
  BY <1>1 DEF Kept, Pushed
<1>3. \A q \in 1 .. h - 1 : q \in Int /\ q < h /\ q \in 1 .. Pushed(c)
  BY <1>2
<1>4. ASSUME NEW q \in 1 .. h - 1, q \notin lost[c]
      PROVE \E i \in DOMAIN out[c] : out[c][i] = q
  <2>1. q \in Kept(c) /\ h # q
    BY <1>3, <1>4 DEF Kept
  <2>2. ASSUME NEW j \in DOMAIN queue[c] PROVE queue[c][j] # q
    <3>1. h < queue[c][j] /\ queue[c][j] \in Kept(c)
      BY <1>1, <2>2 DEF WriterInv, QueueInv
    <3> QED
      BY <1>2, <1>3, <3>1 DEF Kept
  <2> QED
    BY <1>1, <2>1, <2>2 DEF FlowInv, Ended
<1> QED
  BY <1>1, <1>2, <1>4 DEF WriterInv

\* What pppd sends reaches the gateway in order and once, and nothing is left
\* out that was not recorded as lost for want of memory.
THEOREM PtyToSslKeepsOrder == Spec => PtyToSslInOrder
<1> DEFINE c == "pty_to_ssl"
<1>1. Init => PtyToSsl!Init
  BY DEF Init, PtyToSsl!Init, Chan
<1>2. IInv /\ [Next]_vars => [PtyToSsl!Next]_<<in[c], lost[c], out[c]>>
  <2>1. CASE UNCHANGED vars
    BY <2>1 DEF vars, ioVars
  <2>2. ASSUME IInv, Next
        PROVE PtyToSsl!Next \/ UNCHANGED <<in[c], lost[c], out[c]>>
    <3>1. c \in Chan /\ in[c] \in Nat /\ out[c] \in Seq(Nat)
      BY <2>2 DEF Chan, IInv, TypeOK
    <3>2. CASE UNCHANGED <<in[c], lost[c], out[c]>>
      BY <3>2
    <3>3. CASE in'[c] = in[c] + 1 /\ UNCHANGED <<lost[c], out[c]>>
      BY <3>3 DEF PtyToSsl!Next, PtyToSsl!Send
    <3>4. CASE /\ in'[c] = in[c] + 1 /\ lost'[c] = lost[c] \cup {in[c] + 1}
               /\ UNCHANGED out[c]
      BY <3>4 DEF PtyToSsl!Next, PtyToSsl!SendLost
    <3>5. CASE /\ pc[Writer[c]] = "write"
               /\ lost'[c] = lost[c] \cup {hold[Writer[c]]}
               /\ UNCHANGED <<in[c], out[c]>>
      <4> DEFINE h == hold[Writer[c]]
      <4>1. h \in 1 .. in[c] /\ \A i \in DOMAIN out[c] : out[c][i] < h
        BY <2>2, <3>1, <3>5, Oldest
      <4>2. \A i \in DOMAIN out[c] : out[c][i] \in Int /\ out[c][i] # h
        BY <3>1, <4>1
      <4> QED
        BY <3>5, <4>1, <4>2 DEF PtyToSsl!Next, PtyToSsl!Lose, PtyToSsl!IsDelivered
    <3>6. CASE /\ pc[Writer[c]] = "write"
               /\ out'[c] = Append(out[c], hold[Writer[c]])
               /\ UNCHANGED <<in[c], lost[c]>>
      BY <2>2, <3>1, <3>6, Oldest
         DEF PtyToSsl!Next, PtyToSsl!Deliver, PtyToSsl!IsDelivered
    <3> QED
      BY <2>2, <3>1, <3>2, <3>3, <3>4, <3>5, <3>6, Flow
  <2> QED
    BY <2>1, <2>2
<1> QED
  BY <1>1, <1>2, Invariant, PTL DEF Spec, PtyToSslInOrder, PtyToSsl!Spec

\* What the gateway sends reaches pppd in order and once, and nothing is left
\* out that was not recorded as lost by a failed select.
THEOREM SslToPtyKeepsOrder == Spec => SslToPtyInOrder
<1> DEFINE c == "ssl_to_pty"
<1>1. Init => SslToPty!Init
  BY DEF Init, SslToPty!Init, Chan
<1>2. IInv /\ [Next]_vars => [SslToPty!Next]_<<in[c], lost[c], out[c]>>
  <2>1. CASE UNCHANGED vars
    BY <2>1 DEF vars, ioVars
  <2>2. ASSUME IInv, Next
        PROVE SslToPty!Next \/ UNCHANGED <<in[c], lost[c], out[c]>>
    <3>1. c \in Chan /\ in[c] \in Nat /\ out[c] \in Seq(Nat)
      BY <2>2 DEF Chan, IInv, TypeOK
    <3>2. CASE UNCHANGED <<in[c], lost[c], out[c]>>
      BY <3>2
    <3>3. CASE in'[c] = in[c] + 1 /\ UNCHANGED <<lost[c], out[c]>>
      BY <3>3 DEF SslToPty!Next, SslToPty!Send
    <3>4. CASE /\ in'[c] = in[c] + 1 /\ lost'[c] = lost[c] \cup {in[c] + 1}
               /\ UNCHANGED out[c]
      BY <3>4 DEF SslToPty!Next, SslToPty!SendLost
    <3>5. CASE /\ pc[Writer[c]] = "write"
               /\ lost'[c] = lost[c] \cup {hold[Writer[c]]}
               /\ UNCHANGED <<in[c], out[c]>>
      <4> DEFINE h == hold[Writer[c]]
      <4>1. h \in 1 .. in[c] /\ \A i \in DOMAIN out[c] : out[c][i] < h
        BY <2>2, <3>1, <3>5, Oldest
      <4>2. \A i \in DOMAIN out[c] : out[c][i] \in Int /\ out[c][i] # h
        BY <3>1, <4>1
      <4> QED
        BY <3>5, <4>1, <4>2 DEF SslToPty!Next, SslToPty!Lose, SslToPty!IsDelivered
    <3>6. CASE /\ pc[Writer[c]] = "write"
               /\ out'[c] = Append(out[c], hold[Writer[c]])
               /\ UNCHANGED <<in[c], lost[c]>>
      BY <2>2, <3>1, <3>6, Oldest
         DEF SslToPty!Next, SslToPty!Deliver, SslToPty!IsDelivered
    <3> QED
      BY <2>2, <3>1, <3>2, <3>3, <3>4, <3>5, <3>6, Flow
  <2> QED
    BY <2>1, <2>2
<1> QED
  BY <1>1, <1>2, Invariant, PTL DEF Spec, SslToPtyInOrder, SslToPty!Spec

\* If neither malloc nor select fails nothing is recorded as lost, and both
\* directions deliver without a gap.
THEOREM LossesNeedFaults ==
  ASSUME "selectFails" \notin Faults, "mallocFails" \notin Faults
  PROVE Spec => [](\A c \in Chan : lost[c] = {})
<1> DEFINE I == \A c \in Chan : lost[c] = {}
<1>1. Init => I
  BY DEF Init
<1>2. I /\ [Next]_vars => I'
  <2>1. [Next]_vars => UNCHANGED lost
    <3>1. CASE UNCHANGED vars
      BY <3>1 DEF vars, ioVars
    <3>2. CASE MainStep
      BY <3>2 DEF MainStep, CreateThread, CreateThreadFails, StopRequested,
                  CancelThread, JoinThread, InterfaceDown, ioVars
    <3>3. CASE PppdReady \/ IfConfigStep \/ CancelStep \/ Terminated
      BY <3>3 DEF PppdReady, IfConfigStep, IfConfigStarts, InterfaceIsUp,
                  NotReadyYet, PollTimesOut, TunnelIsUp, CancelStep, Cancelled,
                  CancelledInLog, CancelledInWait, Terminated, vars, ioVars
    <3>4. CASE Environment
      BY <3>4 DEF Environment, PppdTalks, PppdRead, PppdReadDrops, SslRead,
                  GotPacket, Signal, ReadFails, SpuriousWakeup, Return, ioVars
    <3>5. CASE \E d \in Chan : PoolStep(d) \/ WriteStep(d)
      BY <3>5 DEF PoolStep, PushLock, Push, PopLock, Pop, PopEmpty, CondWait,
                  Wakeup, Return, WriteStep, Write, WriteFails, PtySelectFails,
                  ioVars
    <3> QED
      BY <3>1, <3>2, <3>3, <3>4, <3>5 DEF Next
  <2> QED
    BY <2>1
<1> QED
  BY <1>1, <1>2, PTL DEF Spec

-----------------------------------------------------------------------------
(* The orders of start-up and shutdown that the semaphores, the cancellation *)
(* and the joins are for *)

\* The steps that move only a reader, or only a writer, of a channel.
ReaderStep(c) == PushLock(c) \/ Push(c) \/ ReadFails(c)
WriterPoolStep(c) == \/ PopLock(c) \/ Pop(c) \/ PopEmpty(c) \/ CondWait(c)
                     \/ Return(c) \/ CancelledInWait(c)

\* Next once more, with the steps that move the same thread together.
LEMMA Steps ==
  ASSUME Next
  PROVE \/ MainStep \/ PppdReady \/ IfConfigStep \/ PppdTalks \/ PppdRead
        \/ PppdReadDrops \/ SslRead \/ Signal \/ Terminated
        \/ \E t \in Thread : Cancelled(t) \/ CancelledInLog(t)
        \/ \E c \in Chan : ReaderStep(c) \/ WriterPoolStep(c) \/ WriteStep(c)
BY DEF Next, Environment, CancelStep, PoolStep, SpuriousWakeup, Wakeup,
       ReaderStep, WriterPoolStep

\* What the start of a thread does to its program counter.
LEMMA CreatePc ==
  ASSUME IInv, CreateThread
  PROVE /\ step \in 1 .. 5 /\ CreateOrder[step] \in Thread
        /\ pc[CreateOrder[step]] = "new"
        /\ pc' = [pc EXCEPT ![CreateOrder[step]] = StartPc(CreateOrder[step])]
        /\ UNCHANGED <<poolVars, semVars, cfgVars, ioVars>>
<1>1. step \in 1 .. 5 /\ step \in step .. 5 /\ main = "create"
  BY DEF IInv, TypeOK, CreateThread
<1> QED
  BY <1>1, Orders DEF CreateThread, Goto, IInv, CreateInv

\* The other steps of the main thread move no worker.
LEMMA MainPc ==
  ASSUME MainStep, ~CreateThread
  PROVE UNCHANGED <<pc, poolVars, semVars, talked, negotiated, ioVars>>
        \/ StopRequested
BY DEF MainStep, CreateThreadFails, StopRequested, CancelThread, JoinThread,
       InterfaceDown, cfgVars

-----------------------------------------------------------------------------
(* Nothing is written to pppd before it has talked *)

LEMMA TalkFrame ==
  ASSUME TalkInv, talked' = talked,
         pppdReady' = pppdReady, pc'["pppd_write"] = pc["pppd_write"],
         out'["ssl_to_pty"] = out["ssl_to_pty"]
  PROVE TalkInv'
BY DEF TalkInv

LEMMA TalkStep ==
  ASSUME IInv, TalkInv, Next PROVE TalkInv'
<1>0. /\ pc \in [Thread -> Pc] /\ out \in [Chan -> Seq(Nat)] /\ pppdReady \in Nat
      /\ "pppd_write" \in Thread /\ "ssl_to_pty" \in Chan
  BY DEF IInv, TypeOK, Thread, Chan
<1>1. CASE CreateThread
  <2>1. pc'["pppd_write"] \in {pc["pppd_write"], "waitReady"}
    BY <1>0, <1>1, CreatePc DEF StartPc
  <2> QED
    BY <1>1, <2>1, CreatePc DEF TalkInv, semVars, cfgVars, ioVars
<1>2. CASE MainStep /\ ~CreateThread
  BY <1>2, MainPc, TalkFrame DEF StopRequested, semVars, cfgVars, ioVars
<1>3. CASE PppdReady
  BY <1>0, <1>3 DEF TalkInv, PppdReady, cfgVars, ioVars
<1>4. CASE IfConfigStep
  <2>1. pc' = pc \/ \E l \in Pc : pc' = [pc EXCEPT !["if_config"] = l]
    BY <1>4 DEF IfConfigStep, IfConfigStarts, InterfaceIsUp, NotReadyYet,
                PollTimesOut, TunnelIsUp, Goto, Pc, Ended
  <2>2. UNCHANGED <<pppdReady, talked, out>>
    BY <1>4 DEF IfConfigStep, IfConfigStarts, InterfaceIsUp, NotReadyYet,
                PollTimesOut, TunnelIsUp, semVars, cfgVars, ioVars
  <2> QED
    BY <1>0, <2>1, <2>2, TalkFrame
<1>5. CASE PppdTalks
  BY <1>5 DEF TalkInv, PppdTalks
<1>6. CASE PppdRead \/ SslRead
  <2>1. PICK c \in Chan : GotPacket(c)
    BY <1>6 DEF PppdRead, SslRead, Chan
  <2> QED
    BY <1>0, <2>1, Roles, TalkFrame DEF GotPacket, Goto
<1>7. CASE Signal \/ Terminated \/ PppdReadDrops
  BY <1>7, TalkFrame DEF Signal, Terminated, PppdReadDrops, vars, semVars,
                         cfgVars, ioVars
<1>8. ASSUME NEW t \in Thread, Cancelled(t) \/ CancelledInLog(t) PROVE TalkInv'
  BY <1>0, <1>8 DEF TalkInv, Cancelled, CancelledInLog, Goto, semVars, cfgVars,
                    ioVars
<1>9. ASSUME NEW c \in Chan, ReaderStep(c) PROVE TalkInv'
  <2>1. \E l \in Pc : pc' = [pc EXCEPT ![Reader[c]] = l]
    BY <1>9 DEF ReaderStep, PushLock, Push, ReadFails, Goto, Pc, Ended
  <2>2. UNCHANGED <<pppdReady, talked, out>>
    BY <1>9 DEF ReaderStep, PushLock, Push, ReadFails, semVars, cfgVars, ioVars
  <2> QED
    BY <1>0, <2>1, <2>2, Roles, TalkFrame
<1>10. ASSUME NEW c \in Chan, WriterPoolStep(c) \/ WriteStep(c) PROVE TalkInv'
  <2>1. UNCHANGED <<pppdReady, talked>>
    BY <1>10 DEF WriterPoolStep, PopLock, Pop, PopEmpty, CondWait, Return,
                 CancelledInWait, WriteStep, Write, WriteFails, PtySelectFails,
                 semVars, cfgVars
  <2>2. CASE c = "ssl_to_pty"
    <3>1. pc["pppd_write"] \in {"popLock", "pop", "empty", "wait", "write"}
      BY <1>10, <2>2, Roles DEF WriterPoolStep, PopLock, Pop, PopEmpty, CondWait,
         Return, CancelledInWait, WriteStep, Write, WriteFails, PtySelectFails, At
    <3> QED
      BY <2>1, <3>1 DEF TalkInv
  <2>3. CASE c = "pty_to_ssl"
    <3>1. \E l \in Pc : pc' = [pc EXCEPT !["ssl_write"] = l]
      BY <1>10, <2>3, Roles DEF WriterPoolStep, PopLock, Pop, PopEmpty, CondWait,
         Return, CancelledInWait, WriteStep, Write, WriteFails, Goto, Pc, Ended
    <3>2. out'["ssl_to_pty"] = out["ssl_to_pty"]
      BY <1>0, <1>10, <2>3, Roles DEF WriterPoolStep, PopLock, Pop, PopEmpty,
         CondWait, Return, CancelledInWait, WriteStep, Write, WriteFails, ioVars
    <3> QED
      BY <1>0, <2>1, <3>1, <3>2, TalkFrame
  <2> QED
    BY <2>2, <2>3 DEF Chan
<1> QED
  BY <1>1, <1>2, <1>3, <1>4, <1>5, <1>6, <1>7, <1>8, <1>9, <1>10, Steps

\* pppd_write sends nothing to pppd before the first bytes of pppd have come.
THEOREM PppdTalksBeforeItIsWrittenTo == Spec => []PppdTalksFirst
<1>1. Init => TalkInv
  BY DEF Init, TalkInv, Thread, Chan
<1>2. TalkInv /\ UNCHANGED vars => TalkInv'
  BY DEF TalkInv, vars, semVars, cfgVars, ioVars
<1>3. IInv /\ TalkInv /\ [Next]_vars => TalkInv'
  BY <1>2, TalkStep
<1>4. TalkInv => PppdTalksFirst
  BY DEF TalkInv, PppdTalksFirst
<1> QED
  BY <1>1, <1>3, <1>4, Invariant, PTL DEF Spec
-----------------------------------------------------------------------------
(* if_config: the negotiation, the routes and the state *)

\* What the workers other than if_config do: they move themselves.
LEMMA OtherWorkers ==
  ASSUME IInv, Next, ~MainStep, ~IfConfigStep
  PROVE /\ pc'["if_config"] \in {pc["if_config"], "cancelled"}
        /\ UNCHANGED <<main, step, routes, state>>
        /\ \/ UNCHANGED <<ifConfig, negotiated>>
           \/ negotiated'
<1>0. pc \in [Thread -> Pc] /\ "if_config" \in Thread
  BY DEF IInv, TypeOK, Thread
<1>1. CASE PppdReady
  BY <1>0, <1>1 DEF PppdReady, Goto, mainVars, cfgVars
<1>2. CASE PppdTalks \/ PppdReadDrops \/ Signal \/ Terminated
  BY <1>2 DEF PppdTalks, PppdReadDrops, Signal, Terminated, vars, mainVars,
              semVars, cfgVars
<1>3. CASE PppdRead \/ SslRead
  <2>1. PICK c \in Chan : GotPacket(c)
    BY <1>3 DEF PppdRead, SslRead, Chan
  <2> QED
    BY <1>0, <1>3, <2>1, Roles DEF PppdRead, SslRead, GotPacket, Goto, mainVars
<1>4. ASSUME NEW t \in Thread, Cancelled(t) \/ CancelledInLog(t)
      PROVE /\ pc'["if_config"] \in {pc["if_config"], "cancelled"}
            /\ UNCHANGED <<main, step, routes, state, ifConfig, negotiated>>
  BY <1>0, <1>4 DEF Cancelled, CancelledInLog, Goto, mainVars, semVars, cfgVars
<1>5. ASSUME NEW c \in Chan, ReaderStep(c) \/ WriterPoolStep(c) \/ WriteStep(c)
      PROVE /\ pc'["if_config"] = pc["if_config"]
            /\ UNCHANGED <<main, step, routes, state, ifConfig, negotiated>>
  <2>1. \E t \in {Reader[c], Writer[c]} : \E l \in Pc : pc' = [pc EXCEPT ![t] = l]
    BY <1>5, Roles DEF ReaderStep, PushLock, Push, ReadFails, WriterPoolStep,
       PopLock, Pop, PopEmpty, CondWait, Return, CancelledInWait, WriteStep,
       Write, WriteFails, PtySelectFails, Goto, Pc, Ended
  <2>2. UNCHANGED <<main, step, routes, state, ifConfig, negotiated>>
    BY <1>5 DEF ReaderStep, PushLock, Push, ReadFails, WriterPoolStep,
       PopLock, Pop, PopEmpty, CondWait, Return, CancelledInWait, WriteStep,
       Write, WriteFails, PtySelectFails, mainVars, semVars, cfgVars
  <2> QED
    BY <1>0, <2>1, <2>2, Roles
<1> QED
  BY <1>1, <1>2, <1>3, <1>4, <1>5, Steps

\* What the main thread does to if_config and to the state of the interface.
LEMMA MainIfConfig ==
  ASSUME IInv, MainStep
  PROVE /\ \/ pc'["if_config"] = pc["if_config"]
           \/ pc["if_config"] = "new" /\ pc'["if_config"] = "waitConfig"
        /\ UNCHANGED <<ifConfig, negotiated>>
        /\ UNCHANGED <<routes, state>> \/ InterfaceDown
        /\ main' # "done" \/ InterfaceDown
<1>1. /\ pc \in [Thread -> Pc] /\ "if_config" \in Thread
      /\ main \in {"create", "run", "cancel", "join", "returned", "done"}
  BY DEF IInv, TypeOK, Thread
<1>2. CASE CreateThread
  <2>1. main' # "done"
    BY <1>2 DEF CreateThread, Advance
  <2> QED
    BY <1>1, <1>2, <2>1, CreatePc DEF StartPc, semVars, cfgVars
<1>3. CASE MainStep /\ ~CreateThread
  BY <1>3 DEF MainStep, CreateThreadFails, StopRequested, CancelThread,
              JoinThread, InterfaceDown, Advance, semVars, cfgVars
<1> QED
  BY <1>2, <1>3

LEMMA ConfigStep ==
  ASSUME IInv, ConfigInv, Next PROVE ConfigInv'
<1>0. /\ pc \in [Thread -> Pc] /\ "if_config" \in Thread /\ ifConfig \in Nat
      /\ negotiated \in BOOLEAN /\ routes \in BOOLEAN
  BY DEF IInv, TypeOK, Thread
<1>1. CASE MainStep
  BY <1>0, <1>1, MainIfConfig DEF ConfigInv, InterfaceDown
<1>2. CASE IfConfigStep
  BY <1>0, <1>2 DEF ConfigInv, IfConfigStep, IfConfigStarts, InterfaceIsUp, At,
     NotReadyYet, PollTimesOut, TunnelIsUp, Goto, semVars, cfgVars
<1>3. CASE ~MainStep /\ ~IfConfigStep
  BY <1>0, <1>3, OtherWorkers DEF ConfigInv
<1> QED
  BY <1>1, <1>2, <1>3

\* Routes and name servers change only after the end of the IPCP negotiation.
THEOREM ConfigurationWaits == Spec => []ConfiguredAfterNegotiation
<1>1. Init => ConfigInv
  BY DEF Init, ConfigInv, Thread
<1>2. ConfigInv /\ UNCHANGED vars => ConfigInv'
  BY DEF ConfigInv, vars, semVars, cfgVars
<1>3. IInv /\ ConfigInv /\ [Next]_vars => ConfigInv'
  BY <1>2, ConfigStep
<1>4. ConfigInv => ConfiguredAfterNegotiation
  BY DEF ConfigInv, ConfiguredAfterNegotiation
<1> QED
  BY <1>1, <1>3, <1>4, Invariant, PTL DEF Spec
-----------------------------------------------------------------------------
(* The end of io_loop and of run_tunnel *)

\* A worker that has ended stays so.
LEMMA EndedStays ==
  ASSUME IInv, Next, NEW t \in Thread, pc[t] \in Ended
  PROVE pc'[t] = pc[t]
<1>0. pc \in [Thread -> Pc]
  BY DEF IInv, TypeOK
<1>1. \/ pc' = pc
      \/ \E u \in Thread, l \in Pc : pc[u] \notin Ended /\ pc' = [pc EXCEPT ![u] = l]
  <2>1. CASE CreateThread
    <3>1. StartPc(CreateOrder[step]) \in Pc
      BY <2>1, CreatePc, StartPcType
    <3> QED
      BY <2>1, <3>1, CreatePc DEF Ended
  <2>2. CASE MainStep /\ ~CreateThread
    BY <2>2, MainPc DEF StopRequested
  <2>3. CASE \/ PppdReady \/ IfConfigStep \/ PppdTalks \/ PppdReadDrops
             \/ Signal \/ Terminated
    BY <2>3 DEF PppdReady, IfConfigStep, IfConfigStarts, InterfaceIsUp, At,
       NotReadyYet, PollTimesOut, TunnelIsUp, PppdTalks, PppdReadDrops, Signal,
       Terminated, Goto, Thread, Pc, Ended, vars
  <2>4. CASE PppdRead \/ SslRead
    <3>1. PICK c \in Chan : GotPacket(c)
      BY <2>4 DEF PppdRead, SslRead, Chan
    <3> QED
      BY <3>1, Roles DEF GotPacket, Goto, Pc, Ended
  <2>5. ASSUME NEW u \in Thread, Cancelled(u) \/ CancelledInLog(u)
        PROVE \E l \in Pc : pc[u] \notin Ended /\ pc' = [pc EXCEPT ![u] = l]
    BY <2>5 DEF Cancelled, CancelPoint, SemWait, CancelledInLog, MayLog, Goto, Pc,
                Ended
  <2>6. ASSUME NEW c \in Chan, ReaderStep(c)
        PROVE \E l \in Pc : /\ pc[Reader[c]] \notin Ended
                             /\ pc' = [pc EXCEPT ![Reader[c]] = l]
    BY <2>6 DEF ReaderStep, PushLock, Push, ReadFails, Goto, Pc, Ended
  <2>7. ASSUME NEW c \in Chan, WriterPoolStep(c) \/ WriteStep(c)
        PROVE \E l \in Pc : /\ pc[Writer[c]] \notin Ended
                             /\ pc' = [pc EXCEPT ![Writer[c]] = l]
    BY <2>7 DEF WriterPoolStep, PopLock, Pop, PopEmpty, CondWait, Return, At,
       CancelledInWait, WriteStep, Write, WriteFails, PtySelectFails, Goto, Pc, Ended
  <2> QED
    BY <2>1, <2>2, <2>3, <2>4, <2>5, <2>6, <2>7, Steps, Roles
<1> QED
  BY <1>0, <1>1

LEMMA RoutesStep ==
  ASSUME IInv, RoutesInv, Next PROVE RoutesInv'
<1>0. /\ pc \in [Thread -> Pc] /\ "if_config" \in Thread
      /\ routes \in BOOLEAN
  BY DEF IInv, TypeOK, Thread
<1>1. CASE MainStep
  <2>1. main # "done" /\ (InterfaceDown => main' = "done")
    BY <1>1 DEF MainStep, CreateThread, CreateThreadFails, StopRequested,
                CancelThread, JoinThread, InterfaceDown
  <2> QED
    BY <1>1, <2>1, MainIfConfig DEF RoutesInv
<1>2. CASE IfConfigStep
  BY <1>0, <1>2 DEF RoutesInv, IfConfigStep, IfConfigStarts, InterfaceIsUp, At,
     NotReadyYet, PollTimesOut, TunnelIsUp, Goto, mainVars, cfgVars
<1>3. CASE ~MainStep /\ ~IfConfigStep
  BY <1>0, <1>3, OtherWorkers, EndedStays DEF RoutesInv, Ended
<1> QED
  BY <1>1, <1>2, <1>3

LEMMA JoinStep ==
  ASSUME IInv, JoinInv, Next PROVE JoinInv'
<1>0. /\ pc \in [Thread -> Pc] /\ "if_config" \in Thread /\ step \in 1 .. 5
      /\ StopOrder[1] = "if_config"
  BY DEF IInv, TypeOK, Thread, StopOrder
<1>1. CASE CreateThread
  BY <1>1 DEF JoinInv, CreateThread, Advance
<1>2. CASE CreateThreadFails
  <2>1. pc["if_config"] = "new"
    BY <1>0, <1>2 DEF CreateThreadFails, IInv, CreateInv, CreateOrder
  <2> QED
    BY <1>2, <2>1 DEF JoinInv, CreateThreadFails
<1>3. CASE StopRequested
  BY <1>3 DEF JoinInv, StopRequested
<1>4. CASE CancelThread
  BY <1>0, <1>4 DEF JoinInv, CancelThread, Advance
<1>5. CASE JoinThread
  <2>1. \A i \in 1 .. step : pc[StopOrder[i]] \in Ended
    BY <1>0, <1>5 DEF JoinInv, JoinThread
  <2>2. \A t \in Thread : \E i \in 1 .. 5 : StopOrder[i] = t
    <3>1. /\ StopOrder[1] = "if_config" /\ StopOrder[2] = "ssl_write"
          /\ StopOrder[3] = "ssl_read" /\ StopOrder[4] = "pppd_write"
          /\ StopOrder[5] = "pppd_read"
      BY DEF StopOrder
    <3> QED
      BY <3>1 DEF Thread
  <2>3. step = 5 => \A t \in Thread : pc[t] \in Ended
    BY <2>1, <2>2
  <2> QED
    BY <1>0, <1>5, <2>1, <2>3 DEF JoinInv, JoinThread, Advance
<1>6. CASE InterfaceDown
  BY <1>6 DEF JoinInv, InterfaceDown
<1>7. CASE ~MainStep
  <2>1. UNCHANGED <<main, step>>
    BY <1>7, NewStaysNew DEF IInv
  <2>2. main = "join" => \A i \in 1 .. step - 1 : pc'[StopOrder[i]] \in Ended
    <3>1. \A i \in 1 .. step - 1 : StopOrder[i] \in Thread
      BY <1>0, Orders
    <3> QED
      BY <3>1, EndedStays DEF JoinInv
  <2>3. main \in {"returned", "done"} =>
          pc'["if_config"] = "new" \/ \A t \in Thread : pc'[t] \in Ended
    BY <1>0, <1>7, EndedStays, NewStaysNew DEF JoinInv, IInv
  <2> QED
    BY <2>1, <2>2, <2>3 DEF JoinInv
<1> QED
  BY <1>1, <1>2, <1>3, <1>4, <1>5, <1>6, <1>7 DEF MainStep

LEMMA JoinAndRoutes == Spec => [](JoinInv /\ RoutesInv)
<1>1. Init => JoinInv /\ RoutesInv
  BY DEF Init, JoinInv, RoutesInv, Thread
<1>2. JoinInv /\ RoutesInv /\ UNCHANGED vars => (JoinInv /\ RoutesInv)'
  BY DEF JoinInv, RoutesInv, vars, mainVars, cfgVars
<1>3. IInv /\ JoinInv /\ RoutesInv /\ [Next]_vars => (JoinInv /\ RoutesInv)'
  BY <1>2, JoinStep, RoutesStep
<1> QED
  BY <1>1, <1>3, Invariant, PTL DEF Spec

\* The tunnel's routes outlive run_tunnel only if the cancellation caught
\* if_config inside on_ppp_if_up: every other way out restores them, also the
\* one after a failing pthread_create.
THEOREM RoutesAreRestoredOtherwise == Spec => []RoutesLeftOnlyByCancel
<1>1. Init => RoutesLeftOnlyByCancel
  BY DEF Init, RoutesLeftOnlyByCancel
<1>2. ASSUME IInv, JoinInv, RoutesInv, RoutesLeftOnlyByCancel, Next
      PROVE RoutesLeftOnlyByCancel'
  <2>0. pc \in [Thread -> Pc] /\ "if_config" \in Thread
    BY <1>2 DEF IInv, TypeOK, Thread
  <2>1. CASE InterfaceDown
    <3>1. pc["if_config"] \in Ended \cup {"new"}
      BY <1>2, <2>0, <2>1 DEF InterfaceDown, JoinInv
    <3> QED
      BY <1>2, <2>1, <3>1 DEF InterfaceDown, RoutesInv, RoutesLeftOnlyByCancel, Ended
  <2>2. CASE MainStep /\ ~InterfaceDown
    BY <1>2, <2>2, MainIfConfig DEF RoutesLeftOnlyByCancel
  <2>3. CASE IfConfigStep
    BY <1>2, <2>0, <2>3 DEF IfConfigStep, IfConfigStarts, InterfaceIsUp, At,
       NotReadyYet, PollTimesOut, TunnelIsUp, mainVars, JoinInv, Ended,
       RoutesLeftOnlyByCancel
  <2>4. CASE ~MainStep /\ ~IfConfigStep
    BY <1>2, <2>4, OtherWorkers DEF RoutesLeftOnlyByCancel
  <2> QED
    BY <2>1, <2>2, <2>3, <2>4
<1>3. RoutesLeftOnlyByCancel /\ UNCHANGED vars => RoutesLeftOnlyByCancel'
  BY DEF RoutesLeftOnlyByCancel, vars, mainVars, cfgVars
<1> QED
  BY <1>1, <1>2, <1>3, Invariant, JoinAndRoutes, PTL DEF Spec

\* Workers that io_loop leaves behind after a failed pthread_create never touch
\* routes or name servers: if_config, which does, is the last to be created, so
\* it does not exist then and never will.
THEOREM LeftBehindTouchNoRoutes == Spec => []LeftBehindHarmless
<1> DEFINE Untouched == main = "done" /\ pc["if_config"] = "new" => ~routes
<1>1. Init => Untouched
  BY DEF Init
<1>2. ASSUME IInv, JoinInv, RoutesInv, Untouched, Next PROVE Untouched'
  <2>0. pc \in [Thread -> Pc] /\ "if_config" \in Thread
    BY <1>2 DEF IInv, TypeOK, Thread
  <2>1. CASE InterfaceDown
    BY <1>2, <2>1 DEF InterfaceDown, RoutesInv
  <2>2. CASE MainStep /\ ~InterfaceDown
    BY <1>2, <2>2, MainIfConfig
  <2>3. CASE IfConfigStep
    <3>1. pc["if_config"] # "new" /\ (pc' = pc \/ pc'["if_config"] # "new")
      BY <2>0, <2>3 DEF IfConfigStep, IfConfigStarts, InterfaceIsUp, At,
         NotReadyYet, PollTimesOut, TunnelIsUp, Goto
    <3> QED
      BY <3>1
  <2>4. CASE ~MainStep /\ ~IfConfigStep
    BY <1>2, <2>4, OtherWorkers
  <2> QED
    BY <2>1, <2>2, <2>3, <2>4
<1>3. Untouched /\ UNCHANGED vars => Untouched'
  BY DEF vars, mainVars, cfgVars
<1>4. JoinInv /\ RoutesInv /\ Untouched => LeftBehindHarmless
  BY DEF JoinInv, RoutesInv, LeftBehindHarmless
<1> QED
  BY <1>1, <1>2, <1>3, <1>4, Invariant, JoinAndRoutes, PTL DEF Spec

-----------------------------------------------------------------------------
(* What can hold up the join *)

\* Where a worker can be.
Places(t) ==
  {"new"} \cup Ended \cup
  IF t \in {"pppd_read", "ssl_read"} THEN {"read", "pushLock", "push"}
  ELSE IF t = "if_config" THEN {"waitConfig", "poll", "ifup"}
  ELSE {"waitReady", "popLock", "pop", "empty", "wait", "write"}

PlaceInv == \A t \in Thread : pc[t] \in Places(t)

\* Inside pool_push or pool_pop, with the mutex and on the way to its release.
InSection == {"push"} \cup InPop

\* The mutex of a pool is free, or held by the reader or writer inside its critical
\* section, or by a writer that was cancelled in pthread_cond_wait.
OwnerInv(c) ==
  /\ owner[c] \in {"nobody", Reader[c], Writer[c]}
  /\ owner[c] = Reader[c] => pc[Reader[c]] = "push"
  /\ owner[c] = Writer[c] => pc[Writer[c]] \in InPop \cup {"cancelled"}

\* Before the cancellation every worker has begun, before the join every one was cancelled.
StopInv ==
  /\ main = "create" => \A i \in 1 .. step - 1 : pc[CreateOrder[i]] # "new"
  /\ main \in {"run", "cancel", "join"} => \A t \in Thread : pc[t] # "new"
  /\ main = "run" => step = 1
  /\ main = "cancel" => \A i \in 1 .. step - 1 : StopOrder[i] \in canceled
  /\ main = "join" => canceled = Thread

\* Whoever waits for the mutex of this pool gets it: it is free, or will be.
MutexComes(c) == owner[c] = "nobody" \/ pc[owner[c]] \in InSection

\* The worker can act upon its cancellation, goes on to its next cancellation point, or
\* waits for a mutex it will get.
GoesOn(t) ==
  \/ t \in canceled /\ pc[t] \in CancelPoint
  \/ pc[t] \in InSection
  \/ \E c \in Chan : /\ t \in {Reader[c], Writer[c]} /\ MutexComes(c)
                     /\ pc[t] \in {"pushLock", "popLock", "wait"}

\* While the workers are joined and the mutex of the log is not lost, each one
\* has ended, goes on, is a reader that waits for a mutex its writer has taken
\* with it, or, on macOS, waits for its semaphore.
OneOfThreeWays ==
  main = "join" /\ ~logLost =>
    \A t \in Thread : \/ pc[t] \in Ended \/ GoesOn(t)
                      \/ \E c \in Chan : t = Reader[c] /\ StuckReader(c)
                      \/ StuckAtSemaphore(t)

\* A step moves at most one worker, and none back to before its creation.
LEMMA OneMoves ==
  ASSUME IInv, Next
  PROVE  pc' = pc \/ \E u \in Thread : \E l \in Places(u) \ {"new"} : pc' = [pc EXCEPT ![u] = l]
<1> DEFINE Moved == \E u \in Thread : \E l \in Places(u) \ {"new"} : pc' = [pc EXCEPT ![u] = l]
<1> USE DEF Ended
<1>1. CASE CreateThread
  <2>1. StartPc(CreateOrder[step]) \in Places(CreateOrder[step]) \ {"new"}
    BY <1>1, CreatePc DEF StartPc, Places, Thread
  <2> QED
    BY <1>1, <2>1, CreatePc
<1>2. CASE MainStep /\ ~CreateThread
  BY <1>2, MainPc DEF StopRequested
<1>3. CASE PppdReady
  BY <1>3 DEF PppdReady, Goto, Places, Thread
<1>4. CASE IfConfigStep
  <2>1. pc' = pc \/ \E l \in {"poll", "ifup", "done"} : pc' = [pc EXCEPT !["if_config"] = l]
    BY <1>4 DEF IfConfigStep, IfConfigStarts, InterfaceIsUp, NotReadyYet, PollTimesOut,
                TunnelIsUp, Goto
  <2> QED
    BY <2>1 DEF Places, Thread
<1>5. CASE PppdTalks \/ PppdReadDrops \/ Signal \/ Terminated
  BY <1>5 DEF PppdTalks, PppdReadDrops, Signal, Terminated, vars
<1>6. CASE PppdRead \/ SslRead
  <2>1. PICK c \in Chan : GotPacket(c)
    BY <1>6 DEF PppdRead, SslRead, Chan
  <2>2. "pushLock" \in Places(Reader[c]) \ {"new"}
    BY DEF Places, Reader, Chan
  <2> QED
    BY <2>1, <2>2, Roles DEF GotPacket, Goto
<1>7. ASSUME NEW t \in Thread, Cancelled(t) \/ CancelledInLog(t) PROVE Moved
  BY <1>7 DEF Cancelled, CancelledInLog, Goto, Places
<1>8. ASSUME NEW c \in Chan, ReaderStep(c) PROVE Moved
  <2>1. \E l \in {"push", "read", "done"} : pc' = [pc EXCEPT ![Reader[c]] = l]
    BY <1>8 DEF ReaderStep, PushLock, Push, ReadFails, Goto
  <2>2. {"push", "read", "done"} \subseteq Places(Reader[c]) \ {"new"}
    BY DEF Places, Reader, Chan
  <2> QED
    BY <2>1, <2>2, Roles
<1>9. ASSUME NEW c \in Chan, WriterPoolStep(c) \/ WriteStep(c) PROVE Moved
  <2>1. \E l \in {"pop", "write", "empty", "wait", "popLock", "done", "cancelled"} :
          pc' = [pc EXCEPT ![Writer[c]] = l]
    BY <1>9 DEF WriterPoolStep, PopLock, Pop, PopEmpty, CondWait, Return, CancelledInWait,
                WriteStep, Write, WriteFails, PtySelectFails, Goto
  <2>2. {"pop", "write", "empty", "wait", "popLock", "done", "cancelled"}
          \subseteq Places(Writer[c]) \ {"new"}
    BY DEF Places, Writer, Chan
  <2> QED
    BY <2>1, <2>2, Roles
<1> QED
  BY <1>1, <1>2, <1>3, <1>4, <1>5, <1>6, <1>7, <1>8, <1>9, Steps

LEMMA OwnerFrame ==
  ASSUME NEW c \in Chan, OwnerInv(c), owner'[c] = owner[c],
         \A t \in {Reader[c], Writer[c]} :
           pc[t] \in {"push", "pop", "empty", "cancelled"} => pc'[t] = pc[t]
  PROVE  OwnerInv(c)'
BY DEF OwnerInv, InPop

LEMMA OwnerStep ==
  ASSUME IInv, Next, NEW c \in Chan, OwnerInv(c) PROVE OwnerInv(c)'
<1>0. /\ pc \in [Thread -> Pc] /\ owner \in [Chan -> Thread \cup {"nobody"}]
      /\ Reader[c] \in Thread /\ Writer[c] \in Thread /\ Reader[c] # Writer[c]
      /\ "nobody" \notin Thread
  BY Roles DEF IInv, TypeOK, Thread
<1>1. CASE CreateThread
  BY <1>0, <1>1, CreatePc, OwnerFrame DEF poolVars
<1>2. CASE MainStep /\ ~CreateThread
  BY <1>2, MainPc, OwnerFrame DEF StopRequested, poolVars
<1>3. CASE PppdReady \/ IfConfigStep
  <2>1. owner' = owner
    BY <1>3 DEF PppdReady, IfConfigStep, IfConfigStarts, InterfaceIsUp, NotReadyYet,
                PollTimesOut, TunnelIsUp, poolVars
  <2>2. \/ pc' = pc
        \/ \E t \in Thread, l \in Pc : /\ pc[t] \notin {"push", "pop", "empty", "cancelled"}
                                      /\ pc' = [pc EXCEPT ![t] = l]
    BY <1>3 DEF PppdReady, IfConfigStep, IfConfigStarts, InterfaceIsUp, NotReadyYet, At,
                PollTimesOut, TunnelIsUp, Goto, Thread, Pc, Ended
  <2> QED
    BY <1>0, <2>1, <2>2, OwnerFrame
<1>4. CASE PppdTalks \/ PppdReadDrops \/ Signal \/ Terminated
  BY <1>4, OwnerFrame DEF PppdTalks, PppdReadDrops, Signal, Terminated, vars,
                          poolVars
<1>5. CASE PppdRead \/ SslRead
  <2>1. PICK d \in Chan : GotPacket(d)
    BY <1>5 DEF PppdRead, SslRead, Chan
  <2>2. /\ owner' = owner /\ pc[Reader[d]] = "read" /\ Reader[d] \in Thread
        /\ pc' = [pc EXCEPT ![Reader[d]] = "pushLock"]
    BY <2>1, Roles DEF GotPacket, Goto, poolVars
  <2> QED
    BY <1>0, <2>2, OwnerFrame
<1>6. ASSUME NEW t \in Thread, Cancelled(t) \/ CancelledInLog(t)
      PROVE OwnerInv(c)'
  BY <1>0, <1>6, OwnerFrame DEF Cancelled, CancelPoint, SemWait, CancelledInLog,
                                MayLog, Goto, poolVars
<1>7. ASSUME NEW d \in Chan, d # c, ReaderStep(d) \/ WriterPoolStep(d) \/ WriteStep(d)
      PROVE OwnerInv(c)'
  <2>1. owner'[c] = owner[c]
    BY <1>0, <1>7 DEF ReaderStep, PushLock, Push, ReadFails, WriterPoolStep, PopLock, Pop,
       PopEmpty, CondWait, Return, CancelledInWait, WriteStep, Write, WriteFails,
       PtySelectFails, poolVars
  <2>2. \E u \in {Reader[d], Writer[d]} : \E l \in Pc : pc' = [pc EXCEPT ![u] = l]
    BY <1>7 DEF ReaderStep, PushLock, Push, ReadFails, WriterPoolStep, PopLock, Pop,
       PopEmpty, CondWait, Return, CancelledInWait, WriteStep, Write, WriteFails,
       PtySelectFails, Goto, Pc, Ended
  <2> QED
    BY <1>0, <1>7, <2>1, <2>2, Roles, OwnerFrame
<1>8. CASE ReaderStep(c)
  <2>1. CASE PushLock(c) \/ Push(c)
    BY <1>0, <2>1 DEF PushLock, Push, Goto, OwnerInv, InPop
  <2>2. CASE ReadFails(c)
    BY <1>0, <2>2 DEF ReadFails, Goto, OwnerInv, poolVars
  <2> QED
    BY <1>8, <2>1, <2>2 DEF ReaderStep
<1>9. CASE WriterPoolStep(c)
  BY <1>0, <1>9 DEF WriterPoolStep, PopLock, Pop, PopEmpty, CondWait, Return,
                    CancelledInWait, Goto, OwnerInv, InPop, poolVars
<1>10. CASE WriteStep(c)
  <2>1. owner' = owner /\ pc[Writer[c]] = "write" /\ \E l \in Pc : pc' = [pc EXCEPT ![Writer[c]] = l]
    BY <1>10 DEF WriteStep, Write, WriteFails, PtySelectFails, At, Goto, Pc, Ended, poolVars
  <2> QED
    BY <1>0, <2>1, OwnerFrame
<1> QED
  BY <1>1, <1>2, <1>3, <1>4, <1>5, <1>6, <1>7, <1>8, <1>9, <1>10, Steps

\* Only the main thread cancels.
LEMMA CanceledFrame ==
  ASSUME Next, ~CancelThread PROVE canceled' = canceled
<1>1. CASE MainStep
  BY <1>1 DEF MainStep, CreateThread, CreateThreadFails, StopRequested, JoinThread, InterfaceDown
<1>2. CASE \/ PppdReady \/ IfConfigStep \/ PppdTalks \/ PppdReadDrops
           \/ Signal \/ Terminated
  BY <1>2 DEF PppdReady, IfConfigStep, IfConfigStarts, InterfaceIsUp, NotReadyYet,
              PollTimesOut, TunnelIsUp, PppdTalks, PppdReadDrops, Signal,
              Terminated, vars
<1>3. CASE PppdRead \/ SslRead
  BY <1>3 DEF PppdRead, SslRead, GotPacket
<1>4. ASSUME NEW t \in Thread, Cancelled(t) \/ CancelledInLog(t)
      PROVE canceled' = canceled
  BY <1>4 DEF Cancelled, CancelledInLog
<1>5. ASSUME NEW c \in Chan, ReaderStep(c) \/ WriterPoolStep(c) \/ WriteStep(c)
      PROVE canceled' = canceled
  BY <1>5 DEF ReaderStep, PushLock, Push, ReadFails, WriterPoolStep, PopLock, Pop, PopEmpty,
              CondWait, Return, CancelledInWait, WriteStep, Write, WriteFails, PtySelectFails
<1> QED
  BY <1>1, <1>2, <1>3, <1>4, <1>5, Steps

LEMMA StopStep ==
  ASSUME IInv, StopInv, Next PROVE StopInv'
<1>0. /\ pc \in [Thread -> Pc] /\ step \in 1 .. 5 /\ canceled \subseteq Thread
      /\ \A i \in 1 .. 5 : StopOrder[i] \in Thread /\ CreateOrder[i] \in Thread
  BY Orders DEF IInv, TypeOK
<1>1. \A t \in Thread : pc[t] # "new" => pc'[t] # "new"
  BY <1>0, OneMoves
<1>2. \A t \in Thread : \E i \in 1 .. 5 : CreateOrder[i] = t /\ \E j \in 1 .. 5 : StopOrder[j] = t
  <2>1. /\ CreateOrder[1] = "pppd_read" /\ CreateOrder[2] = "pppd_write"
        /\ CreateOrder[3] = "ssl_read" /\ CreateOrder[4] = "ssl_write"
        /\ CreateOrder[5] = "if_config"
    BY DEF CreateOrder
  <2>2. /\ StopOrder[1] = "if_config" /\ StopOrder[2] = "ssl_write"
        /\ StopOrder[3] = "ssl_read" /\ StopOrder[4] = "pppd_write"
        /\ StopOrder[5] = "pppd_read"
    BY DEF StopOrder
  <2> QED
    BY <2>1, <2>2 DEF Thread
<1>3. CASE CreateThread
  <2>1. StartPc(CreateOrder[step]) # "new"
    BY <1>0 DEF StartPc, Thread
  <2>2. \A i \in 1 .. step : pc'[CreateOrder[i]] # "new"
    BY <1>0, <1>1, <1>3, <2>1, CreatePc DEF StopInv, CreateThread
  <2> QED
    BY <1>0, <1>2, <1>3, <2>2 DEF StopInv, CreateThread, Advance
<1>4. CASE CreateThreadFails \/ InterfaceDown
  BY <1>4 DEF StopInv, CreateThreadFails, InterfaceDown
<1>5. CASE StopRequested
  <2>1. main' = "cancel" /\ step' = step /\ pc' = pc /\ main = "run"
    BY <1>5 DEF StopRequested
  <2>2. step = 1
    BY <2>1 DEF StopInv
  <2> QED
    BY <2>1, <2>2 DEF StopInv
<1>6. CASE CancelThread
  <2>1. \A i \in 1 .. step : StopOrder[i] \in canceled'
    BY <1>0, <1>6 DEF StopInv, CancelThread
  <2>2. canceled' \subseteq Thread
    BY <1>0, <1>6 DEF CancelThread
  <2>3. step = 5 => canceled' = Thread
    BY <1>2, <2>1, <2>2
  <2> QED
    BY <1>0, <1>6, <2>1, <2>3 DEF StopInv, CancelThread, Advance
<1>7. CASE JoinThread
  BY <1>7 DEF StopInv, JoinThread, Advance
<1>8. CASE ~MainStep
  <2>1. UNCHANGED <<main, step, canceled>>
    BY <1>8, NewStaysNew, CanceledFrame DEF IInv, MainStep
  <2>2. main = "create" => \A i \in 1 .. step - 1 : pc'[CreateOrder[i]] # "new"
    BY <1>0, <1>1 DEF StopInv
  <2> QED
    BY <1>1, <2>1, <2>2 DEF StopInv
<1> QED
  BY <1>3, <1>4, <1>5, <1>6, <1>7, <1>8 DEF MainStep

\* How the join can hang: every thread that is being joined has ended, acts upon
\* its cancellation or gets the mutex it wants, except a reader whose writer was
\* cancelled in pthread_cond_wait and kept the mutex of their pool, on macOS a
\* thread that waits for its semaphore, and all of them once the mutex of the
\* log is lost.
THEOREM WaysToStick == Spec => []OneOfThreeWays
<1> DEFINE Inv == PlaceInv /\ StopInv /\ \A c \in Chan : OwnerInv(c)
<1>1. Init => Inv
  <2> SUFFICES ASSUME Init PROVE Inv
    OBVIOUS
  <2>1. PlaceInv
    BY DEF Init, PlaceInv, Places
  <2>2. StopInv
    BY DEF Init, StopInv
  <2>3. \A c \in Chan : OwnerInv(c)
    BY Roles DEF Init, OwnerInv, Thread
  <2> QED
    BY <2>1, <2>2, <2>3
<1>2. IInv /\ Inv /\ [Next]_vars => Inv'
  <2> SUFFICES ASSUME IInv, Inv, [Next]_vars PROVE Inv'
    OBVIOUS
  <2>1. CASE Next
    <3>1. PlaceInv'
      <4>1. pc \in [Thread -> Pc]
        BY DEF IInv, TypeOK
      <4> QED
        BY <2>1, <4>1, OneMoves DEF PlaceInv
    <3>2. StopInv' /\ \A c \in Chan : OwnerInv(c)'
      BY <2>1, StopStep, OwnerStep
    <3> QED
      BY <3>1, <3>2
  <2>2. CASE UNCHANGED vars
    BY <2>2 DEF PlaceInv, StopInv, OwnerInv, vars, mainVars, poolVars
  <2> QED
    BY <2>1, <2>2
<1>3. Inv => OneOfThreeWays
  <2> SUFFICES ASSUME Inv, main = "join", NEW t \in Thread, pc[t] \notin Ended
               PROVE  \/ GoesOn(t) \/ StuckAtSemaphore(t)
                      \/ \E c \in Chan : t = Reader[c] /\ StuckReader(c)
    BY DEF OneOfThreeWays
  <2>1. t \in canceled /\ pc[t] # "new" /\ pc[t] \in Places(t)
    BY DEF StopInv, PlaceInv
  <2>a. pc[t] \in SemWait => GoesOn(t) \/ StuckAtSemaphore(t)
    BY <2>1, BoundsAssumption DEF GoesOn, CancelPoint, StuckAtSemaphore
  <2>2. CASE \E c \in Chan : t = Reader[c]
    <3>1. PICK c \in Chan : t = Reader[c]
      BY <2>2
    <3>2. pc[t] \in {"read", "pushLock", "push"}
      BY <2>1, <3>1 DEF Places, Reader, Chan, Thread
    <3>3. CASE pc[t] = "read" \/ pc[t] = "push"
      BY <2>1, <3>3 DEF GoesOn, CancelPoint, InSection
    <3>4. CASE pc[t] = "pushLock"
      <4>1. \/ owner[c] = "nobody"
            \/ owner[c] = Writer[c] /\ pc[Writer[c]] \in InPop \cup {"cancelled"}
        BY <3>1, <3>4 DEF OwnerInv
      <4> QED
        BY <3>1, <3>4, <4>1 DEF GoesOn, MutexComes, InSection, StuckReader
    <3> QED
      BY <3>2, <3>3, <3>4
  <2>3. CASE \E c \in Chan : t = Writer[c]
    <3>1. PICK c \in Chan : t = Writer[c]
      BY <2>3
    <3>2. pc[t] \in {"waitReady", "popLock", "pop", "empty", "wait", "write"}
      BY <2>1, <3>1 DEF Places, Writer, Chan, Thread
    <3>3. CASE pc[t] \in {"waitReady", "write", "pop", "empty"}
      BY <2>1, <2>a, <3>3 DEF GoesOn, CancelPoint, SemWait, InSection, InPop
    <3>4. CASE pc[t] \in {"popLock", "wait"}
      <4>1. \/ owner[c] = "nobody"
            \/ owner[c] = Reader[c] /\ pc[Reader[c]] = "push"
        BY <3>1, <3>4 DEF OwnerInv, InPop
      <4> QED
        BY <3>1, <3>4, <4>1 DEF GoesOn, MutexComes, InSection
    <3> QED
      BY <3>2, <3>3, <3>4
  <2>4. CASE t = "if_config"
    <3>1. pc[t] \in {"waitConfig", "poll", "ifup"}
      BY <2>1, <2>4 DEF Places
    <3> QED
      BY <2>1, <2>a, <3>1 DEF GoesOn, CancelPoint, SemWait
  <2> QED
    BY <2>2, <2>3, <2>4, Roles DEF Thread, Chan
<1> QED
  BY <1>1, <1>2, <1>3, Invariant, PTL DEF Spec
=============================================================================
