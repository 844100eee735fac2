-------------------------------- MODULE Hdlc --------------------------------
(***************************************************************************)
(* PPP packets in HDLC frames (hdlc.c) and the thread that takes them out  *)
(* of what it reads from the pty (pppd_read in io.c).  The writer frames   *)
(* packets with hdlc_encode; pppd, at the other end, frames them the same  *)
(* way, but may begin any frame with a flag of its own.  The pty keeps no  *)
(* boundaries: a read returns any part of what is there.                   *)
(*                                                                         *)
(* Bytes are numbers.  The check sequence of a packet is two bytes that    *)
(* Fcs gives; no other pair passes for them.                               *)
(***************************************************************************)
EXTENDS Integers, Sequences, SequencesExt

CONSTANTS Packets,   \* payloads that are sent
          Fcs,       \* Fcs[p]: the two bytes of its checksum
          Capacity,  \* PKT_BUF_SZ
          MaxSent    \* bound: packets

Byte == 0 .. 255
Flag == 126
Escape == 125
Skipped == <<>>  \* no packet: there was no memory for it

ASSUME HdlcAssumption ==
  /\ Packets \subseteq Seq(Byte) \ {<<>>}
  /\ DOMAIN Fcs = Packets /\ \A p \in Packets : Fcs[p] \in Seq(Byte) /\ Len(Fcs[p]) = 2
  /\ Capacity \in Nat /\ MaxSent \in Nat
  \* The largest frame with the flags around it fits into the buffer.
  /\ \A p \in Packets : 2 * Len(p) + 10 <= Capacity

VARIABLES
  needFlag,  \* need_flag_sequence
  sent,      \* packets given to the encoder
  overrun,   \* the encoder wrote past the end of its buffer
  failed,    \* the encoder gave up
  pty,       \* bytes in the pty
  buf,       \* buf[0 .. off_w)
  start,     \* off_r, from 1
  pc,        \* place of pppd_read
  got        \* what became of each frame found: the packet pushed, or Skipped

vars == <<needFlag, sent, overrun, failed, pty, buf, start, pc, got>>
writer == <<needFlag, sent, overrun, failed>>

TypeOK ==
  /\ needFlag \in BOOLEAN /\ overrun \in BOOLEAN /\ failed \in BOOLEAN
  /\ sent \in Seq(Packets) /\ got \in Seq(Seq(Byte))
  /\ pty \in Seq(Byte)
  /\ buf \in Seq(Byte) /\ Len(buf) <= Capacity
  /\ start \in 1 .. Len(buf) + 1
  /\ pc \in {"read", "frames", "exit"}

Init ==
  /\ needFlag = TRUE  \* init_hdlc
  /\ sent = <<>> /\ overrun = FALSE /\ failed = FALSE
  /\ pty = <<>> /\ buf = <<>> /\ start = 1 /\ pc = "read" /\ got = <<>>

-----------------------------------------------------------------------------
(* Encoding *)

XorBit5(b) == IF (b \div 32) % 2 = 1 THEN b - 32 ELSE b + 32

InSendingAccm(b) == b < 32 \/ b % 128 \in {Escape, Flag}

\* A byte as it is sent.
Code(b) == IF InSendingAccm(b) THEN <<Escape, XorBit5(b)>> ELSE <<b>>

Escaped(s) ==
  LET escaped[k \in 0 .. Len(s)] ==
        IF k = 0 THEN <<>> ELSE escaped[k - 1] \o Code(s[k])
  IN escaped[Len(s)]

\* Mutant of EstimatedEncodedSize: the flag at the front is forgotten.
EstimateWithoutFlag(n) == 8 + 2 * n

EstimatedEncodedSize(n) == 9 + 2 * n

Opening(p, flag) == (IF flag THEN <<Flag>> ELSE <<>>) \o <<255, Escape, 35>>
Frame(p, flag) == Opening(p, flag) \o Escaped(p \o Fcs[p]) \o <<Flag>>

\* What hdlc_encode checks before each byte of the packet and before the checksum.
TooSmall(p, flag, size) ==
  \/ size < 7
  \/ \E k \in 0 .. Len(p) :
       size < Len(Opening(p, flag)) + Len(Escaped(SubSeq(p, 1, k)))
              + IF k < Len(p) THEN 2 ELSE 3

\* hdlc_encode into a buffer of the estimated size, then the bytes go to the pty.
Encode(p, flag) ==
  LET size == EstimatedEncodedSize(Len(p))
  IN /\ Len(sent) < MaxSent /\ ~failed
     /\ flag \in {needFlag, TRUE}
     /\ IF TooSmall(p, flag, size)
        THEN failed' = TRUE /\ UNCHANGED <<needFlag, sent, overrun, pty>>
        ELSE /\ sent' = Append(sent, p)
             /\ overrun' = (overrun \/ Len(Frame(p, flag)) > size)
             /\ needFlag' = FALSE
             /\ pty' = pty \o Frame(p, flag)
             /\ failed' = failed
     /\ UNCHANGED <<buf, start, pc, got>>

-----------------------------------------------------------------------------
(* Decoding *)

\* One byte of a frame.
Take(state, b) ==
  CASE b = Escape /\ state.escape   -> [state EXCEPT !.bad = TRUE]
    [] b = Escape /\ ~state.escape  -> [state EXCEPT !.escape = TRUE]
    [] b # Escape /\ state.escape   ->
         [state EXCEPT !.escape = FALSE, !.out = Append(@, XorBit5(b))]
    [] b # Escape /\ ~state.escape /\ b < 32 -> state  \* introduced by the DCE
    [] OTHER                        -> [state EXCEPT !.out = Append(@, b)]

\* The state after all of them.
Unescaped(body) ==
  LET state[k \in 0 .. Len(body)] ==
        IF k = 0 THEN [escape |-> FALSE, bad |-> FALSE, out |-> <<>>]
                 ELSE Take(state[k - 1], body[k])
  IN state[Len(body)]

Bad == [ok |-> FALSE]

\* Mutant of Decode: the checksum stays at the end of the packet.
DecodeWithChecksum(frame) ==
  LET fields == SubSeq(frame, 1, 3) = <<255, Escape, 35>>
      body == IF fields THEN SubSeq(frame, 4, Len(frame)) ELSE frame
      s == Unescaped(body)
      n == Len(s.out)
      p == SubSeq(s.out, 1, n - 2)
  IN IF Len(frame) < 5 \/ s.bad \/ s.escape \/ n < 3 \/ n > Len(frame) THEN Bad
     ELSE IF fields /\ p \in Packets /\ s.out = p \o Fcs[p]
          THEN [ok |-> TRUE, packet |-> s.out] ELSE Bad

\* hdlc_decode into a buffer as large as the frame.
Decode(frame) ==
  LET fields == SubSeq(frame, 1, 3) = <<255, Escape, 35>>
      body == IF fields THEN SubSeq(frame, 4, Len(frame)) ELSE frame
      s == Unescaped(body)
      n == Len(s.out)
      p == SubSeq(s.out, 1, n - 2)
  IN IF Len(frame) < 5 \/ s.bad \/ s.escape \/ n < 3 \/ n > Len(frame) THEN Bad
     ELSE IF fields /\ p \in Packets /\ s.out = p \o Fcs[p]
          THEN [ok |-> TRUE, packet |-> p] ELSE Bad

\* hdlc_find_frame: the bytes from first to last are the first frame from a place on.
IsFrame(b, from, first, last) ==
  /\ first > from /\ last >= first /\ last < Len(b)
  /\ b[last + 1] = Flag /\ \A k \in first .. last : b[k] # Flag
  /\ \E f \in from .. first - 1 :
       /\ \A k \in from .. f - 1 : b[k] # Flag
       /\ \A k \in f .. first - 1 : b[k] = Flag

-----------------------------------------------------------------------------
(* pppd_read *)

\* Mutant of Read: the whole size of the buffer is asked for.
ReadFullSize ==
  /\ pc = "read" /\ pty # <<>>
  /\ \E n \in 1 .. Len(pty) :
       /\ n <= Capacity
       /\ buf' = buf \o SubSeq(pty, 1, n)
       /\ pty' = SubSeq(pty, n + 1, Len(pty))
  /\ start' = 1 /\ pc' = "frames"
  /\ UNCHANGED <<writer, got>>

\* read returns some of the bytes, or 0 when the buffer is full: the thread ends.
Read ==
  /\ pc = "read" /\ pty # <<>>
  /\ IF Len(buf) = Capacity
     THEN pc' = "exit" /\ UNCHANGED <<buf, pty, start>>
     ELSE \E n \in 1 .. Len(pty) :
            /\ n <= Capacity - Len(buf)
            /\ buf' = buf \o SubSeq(pty, 1, n)
            /\ pty' = SubSeq(pty, n + 1, Len(pty))
            /\ start' = 1 /\ pc' = "frames"
  /\ UNCHANGED <<writer, got>>

\* One round of the loop that takes packets out of the buffer.
TakeFrame ==
  /\ pc = "frames"
  /\ \E first, last \in DOMAIN buf :
       /\ IsFrame(buf, start, first, last)
       /\ LET d == Decode(SubSeq(buf, first, last))
          IN IF d.ok THEN /\ got' = Append(got, d.packet)
                          /\ start' = last + 1 /\ pc' = pc
                     ELSE pc' = "exit" /\ UNCHANGED <<got, start>>
  /\ UNCHANGED <<writer, pty, buf>>

\* malloc fails: the loop is left with off_r behind the opening flag, so that the next
\* one to open a frame is the closing flag of this frame.  Or realloc fails: the
\* thread ends.
NoMemory ==
  /\ pc = "frames"
  /\ \E first, last \in DOMAIN buf :
       /\ IsFrame(buf, start, first, last)
       /\ buf' = SubSeq(buf, first, Len(buf)) /\ start' = 1
  /\ pc' \in {"read", "exit"}
  /\ got' = Append(got, Skipped)
  /\ UNCHANGED <<writer, pty>>

NoFrame == ~\E first, last \in DOMAIN buf : IsFrame(buf, start, first, last)

\* Mutant of Shift: what is left of the buffer is thrown away.
Discard ==
  /\ pc = "frames" /\ NoFrame
  /\ buf' = <<>> /\ start' = 1 /\ pc' = "read"
  /\ UNCHANGED <<writer, pty, got>>

\* No more frame: the remaining bytes move to the front of the buffer.
Shift ==
  /\ pc = "frames" /\ NoFrame
  /\ buf' = SubSeq(buf, start, Len(buf)) /\ start' = 1 /\ pc' = "read"
  /\ UNCHANGED <<writer, pty, got>>

-----------------------------------------------------------------------------
Next ==
  \/ \E p \in Packets, flag \in BOOLEAN : Encode(p, flag)
  \/ Read \/ TakeFrame \/ NoMemory \/ Shift

Spec == Init /\ [][Next]_vars

\* However the pty cuts the stream, pppd_read pushes the packets that were sent, in
\* their order and with their bytes (hdlc_encode, hdlc_find_frame, hdlc_decode).  A
\* frame there was no memory for costs its own packet and none of its neighbours'.
PacketsInOrder ==
  Len(got) <= Len(sent) /\ \A i \in DOMAIN got : got[i] \in {sent[i], Skipped}

JustSkipped == Len(got) > 0 /\ got[Len(got)] = Skipped

\* pppd_read goes on: no frame is found invalid and the buffer is never full before
\* a read, either of which would stop the tunnel.  When it has read everything it has
\* taken everything: no packet waits for the next one, and none is lost with the
\* remains of the buffer.  Only behind a skipped frame can the buffer fill up, with
\* its remains in front of the next frame, and frames wait for a further read, and
\* that is over with the next packet that is taken.
NothingLeft ==
  \/ JustSkipped
  \/ pc # "exit" /\ (pc = "read" /\ pty = <<>> => Len(got) = Len(sent))

\* A buffer of estimated_encoded_size is neither too small for hdlc_encode nor
\* overrun by it, though its last check asks for three bytes where it writes five.
EncoderFits == ~overrun /\ ~failed
=============================================================================
