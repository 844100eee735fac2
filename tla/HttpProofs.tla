----------------------------- MODULE HttpProofs -----------------------------
(***************************************************************************)
(* Machine-checked proofs about Http, for any set of responses, any size   *)
(* of the buffer and of its numbers, and any number of requests.           *)
(***************************************************************************)
EXTENDS Http, TLAPS, SequenceTheorems

-----------------------------------------------------------------------------
(* Numbers and bytes *)

\* The capacity doubles only as long as twice of it is less than MaxUint.
LEMMA GrownBounds ==
  ASSUME NEW c \in 1 .. MaxUint - 1
  PROVE  /\ Grown(c) # 0 => Grown(c) \in 1 .. MaxUint - 1 /\ Grown(c) > c
         /\ Grown(c) = 0 => (MaxUint - 1) \div 2 <= c
<1> DEFINE X == MaxUint - 1
<1> DEFINE q == X \div c
<1>1. X \in Nat /\ q \in Nat /\ c \in Nat /\ c > 0
  BY HttpAssumption
<1>2. X >= c * q /\ X < c * q + c
  BY <1>1
<1>3. CASE q < 2
  <2>1. Grown(c) = 0
    BY <1>3 DEF Grown
  <2>2. q = 0 \/ q = 1
    BY <1>1, <1>3
  <2>3. X < 2 * c
    BY <1>1, <1>2, <2>2
  <2> QED
    BY <1>1, <2>1, <2>3
<1>4. CASE q >= 2
  <2>1. Grown(c) = c * 2
    BY <1>1, <1>4 DEF Grown
  <2>2. c * q >= c * 2
    BY <1>1, <1>4
  <2> QED
    BY <1>1, <1>2, <2>1, <2>2
<1> QED
  BY <1>1, <1>3, <1>4

Byte == Nat \X Nat

\* A response and its bytes.
LEMMA ResponseType ==
  ASSUME NEW r \in Responses
  PROVE  /\ r.header \in Nat \ {0} /\ r.body \in Nat /\ r.length \in Nat \cup {-1}
         /\ r.chunked \in BOOLEAN /\ Size(r) \in Nat \ {0}
BY HttpAssumption DEF Size

LEMMA Joined ==
  ASSUME NEW s \in Seq(Byte), NEW t \in Seq(Byte), NEW n, Len(t) = n
  PROVE  /\ s \o t \in Seq(Byte) /\ Len(s \o t) = Len(s) + n
         /\ \A k \in 1 .. Len(s \o t) : (s \o t)[k] = IF k <= Len(s) THEN s[k] ELSE t[k - Len(s)]
BY ConcatProperties

LEMMA BytesType ==
  ASSUME NEW k \in Nat, NEW r \in Responses
  PROVE  /\ Bytes(k, r) \in Seq(Byte) /\ Len(Bytes(k, r)) = Size(r)
         /\ \A n \in 1 .. Size(r) : Bytes(k, r)[n] = <<k, n>>
<1>1. Size(r) \in Nat
  BY ResponseType
<1> QED
  BY <1>1, IsASeq DEF Bytes, Size, Byte

\* A piece goes from the wire to the buffer.
LEMMA Piece ==
  ASSUME buffer \in Seq(Byte), wire \in Seq(Byte), NEW n \in 1 .. Len(wire)
  PROVE  LET b == buffer \o SubSeq(wire, 1, n)
             w == SubSeq(wire, n + 1, Len(wire))
         IN /\ b \in Seq(Byte) /\ w \in Seq(Byte)
            /\ Len(b) = Len(buffer) + n /\ Len(w) = Len(wire) - n
            /\ \A k \in 1 .. Len(buffer) : b[k] = buffer[k]
            /\ \A k \in 1 .. n : b[Len(buffer) + k] = wire[k]
            /\ \A k \in 1 .. Len(w) : w[k] = wire[n + k]
<1> DEFINE p == SubSeq(wire, 1, n)
<1> DEFINE w == SubSeq(wire, n + 1, Len(wire))
<1>1. Len(wire) \in Nat /\ Len(buffer) \in Nat /\ n \in Nat
  BY LenProperties
<1>2. p \in Seq(Byte) /\ Len(p) = n /\ \A k \in 1 .. n : p[k] = wire[k]
  BY <1>1, SubSeqProperties
<1>3. w \in Seq(Byte) /\ Len(w) = Len(wire) - n /\ \A k \in 1 .. Len(w) : w[k] = wire[n + k]
  BY <1>1, SubSeqProperties
<1>4. /\ buffer \o p \in Seq(Byte) /\ Len(buffer \o p) = Len(buffer) + n
      /\ \A k \in 1 .. Len(buffer) : (buffer \o p)[k] = buffer[k]
      /\ \A k \in 1 .. n : (buffer \o p)[Len(buffer) + k] = p[k]
  <2> HIDE DEF p
  <2> QED
    <3>1. /\ buffer \o p \in Seq(Byte) /\ Len(buffer \o p) = Len(buffer) + n
          /\ \A i \in 1 .. Len(buffer) + n :
               (buffer \o p)[i] = IF i <= Len(buffer) THEN buffer[i] ELSE p[i - Len(buffer)]
      BY <1>1, <1>2, ConcatProperties
    <3>2. \A k \in 1 .. n : (buffer \o p)[Len(buffer) + k] = p[k]
      <4> TAKE k \in 1 .. n
      <4>1. /\ Len(buffer) + k \in 1 .. Len(buffer) + n /\ ~(Len(buffer) + k <= Len(buffer))
            /\ Len(buffer) + k - Len(buffer) = k
        BY <1>1
      <4> QED
        BY <3>1, <4>1
    <3> QED
      BY <1>1, <3>1, <3>2
<1> QED
  BY <1>2, <1>3, <1>4

-----------------------------------------------------------------------------
(* The inductive invariant *)

\* The bytes are those of requests that were made.
OfRequests(s) == \A n \in 1 .. Len(s) : s[n][1] \in 1 .. request

TypeInv ==
  /\ pc \in {"idle", "reading"} \cup Results
  /\ request \in 0 .. MaxRequests /\ (pc # "idle" => request > 0)
  /\ answers \in Seq(Responses) /\ Len(answers) = request
  /\ attempt \in {1, 2}
  /\ wanted \in BOOLEAN /\ framed \in BOOLEAN /\ closed \in BOOLEAN /\ chunked \in BOOLEAN
  /\ wire \in Seq(Byte) /\ OfRequests(wire)
  /\ buffer \in Seq(Byte) /\ OfRequests(buffer)

SizeInv ==
  /\ capacity \in 1 .. MaxUint - 1 /\ capacity >= BufferSize
  /\ BytesRead <= capacity /\ (pc = "reading" => BytesRead < capacity)
  /\ pc = "noMem" => BytesRead = 0 \/ BytesRead >= BufferSize
  /\ headerSize \in Nat /\ headerSize <= BytesRead
  /\ contentSize \in 0 .. MaxUint

Declared(r) == (IF r.length = -1 THEN 0 ELSE r.length) % (MaxUint + 1)

\* The bytes of s are those of the present request after the first ones.
IsPart(s, first) == \A n \in 1 .. Len(s) : s[n] = <<request, first + n>>

\* What is in the buffer and what is on the wire make up the response.
WholeInv == framed =>
  /\ pc = "idle" => wire = <<>>
  /\ pc # "idle" =>
       LET r == answers[request]
       IN /\ WellFramed(r)
          /\ BytesRead <= Size(r) /\ IsPart(buffer, 0)
          /\ closed => wire = <<>>
          /\ ~closed => Len(wire) = Size(r) - BytesRead /\ IsPart(wire, BytesRead)
          /\ headerSize # 0 => /\ headerSize = r.header /\ contentSize = Declared(r)
                               /\ chunked = r.chunked
          /\ pc \in {"done", "denied", "aborted"} =>
               BytesRead = Size(r) /\ (pc = "denied" <=> Denied(buffer))
          /\ pc = "aborted" => wanted /\ BytesRead = capacity
          /\ pc = "tooLong" => BytesRead = capacity /\ Grown(capacity) = 0

IInv == TypeInv /\ SizeInv /\ WholeInv

LEMMA FreshSizes ==
  ASSUME FreshBuffer, pc' # "noMem"
  PROVE  SizeInv' /\ buffer' \in Seq(Byte) /\ BytesRead' = 0 /\ headerSize' = 0
         /\ chunked' \in BOOLEAN /\ OfRequests(buffer)' /\ IsPart(buffer, 0)'
<1>1. chunked' \in BOOLEAN
  BY Zenon DEF FreshBuffer
<1>2. buffer' = <<>> /\ capacity' = BufferSize /\ headerSize' = 0 /\ contentSize' = 0
  BY Zenon DEF FreshBuffer
<1>3. SizeInv'
  BY <1>2, HttpAssumption DEF SizeInv, BytesRead
<1> QED
  BY <1>1, <1>2, <1>3 DEF BytesRead, OfRequests, IsPart

LEMMA EmptyWire ==
  ASSUME TypeInv, Len(wire) = 0 PROVE wire = <<>>
BY EmptySeq DEF TypeInv

LEMMA RequestStep ==
  ASSUME IInv, NEW r \in Responses, NEW v \in BOOLEAN, Request(r, v) PROVE IInv'
<1> USE DEF IInv, TypeInv, Request
<1>1. /\ request' = request + 1 /\ request' \in 1 .. MaxRequests /\ request \in Nat
      /\ answers' \in Seq(Responses) /\ Len(answers') = request' /\ answers'[request'] = r
  BY AppendProperties, HttpAssumption
<1>2. wire' = wire \o Bytes(request', r)
  OBVIOUS
<1>3. /\ Bytes(request', r) \in Seq(Byte) /\ Len(Bytes(request', r)) = Size(r)
      /\ \A n \in 1 .. Size(r) : Bytes(request', r)[n] = <<request', n>>
      /\ Size(r) \in Nat
  <2>1. request' \in Nat
    BY <1>1
  <2> HIDE DEF IInv, TypeInv, Request
  <2> QED
    BY <2>1, BytesType, ResponseType
<1>4. /\ wire' \in Seq(Byte) /\ Len(wire') = Len(wire) + Size(r)
      /\ \A k \in 1 .. Len(wire') :
           wire'[k] = IF k <= Len(wire) THEN wire[k] ELSE Bytes(request', r)[k - Len(wire)]
  <2>1. wire \in Seq(Byte)
    OBVIOUS
  <2> HIDE DEF IInv, TypeInv, Request
  <2> QED
    BY <1>2, <1>3, <2>1, Joined
<1>5. OfRequests(wire)'
  <2> SUFFICES ASSUME NEW k \in 1 .. Len(wire') PROVE wire'[k][1] \in 1 .. request'
    BY DEF OfRequests
  <2>1. Len(wire) \in Nat
    BY LenProperties
  <2>2. CASE k <= Len(wire)
    BY <1>1, <1>4, <2>1, <2>2 DEF OfRequests
  <2>3. CASE k > Len(wire)
    <3>1. k - Len(wire) \in 1 .. Size(r)
      BY <1>3, <1>4, <2>1, <2>3
    <3>2. wire'[k] = <<request', k - Len(wire)>>
      BY <1>3, <1>4, <2>1, <2>3, <3>1
    <3> QED
      BY <1>1, <3>2
  <2> QED
    BY <2>1, <1>3, <1>4, <2>2, <2>3
<1>6. TypeInv'
  BY <1>1, <1>4, <1>5, FreshSizes
<1>7. SizeInv'
  BY FreshSizes
<1>8. WholeInv'
  <2> SUFFICES ASSUME framed' PROVE WholeInv'
    BY DEF WholeInv
  <2>1. framed /\ WellFramed(r)
    OBVIOUS
  <2>2. wire = <<>>
    <3>1. CASE pc = "idle"
      BY <2>1, <3>1 DEF WholeInv
    <3>2. CASE pc = "done"
      <4>1. answers[request] \in Responses
        BY <3>2, <1>1, ElementOfSeq
      <4>2. Len(wire) = Size(answers[request]) - BytesRead /\ BytesRead = Size(answers[request])
        BY <2>1, <3>2 DEF WholeInv
      <4>3. Len(wire) = 0
        BY <4>1, <4>2, ResponseType
      <4> QED
        BY <4>3, EmptyWire
    <3> QED
      BY <3>1, <3>2
  <2>3. Len(wire') = Size(r) /\ \A k \in 1 .. Size(r) : wire'[k] = <<request', k>>
    BY <1>3, <1>4, <2>2
  <2> QED
    <3>1. BytesRead' = 0 /\ headerSize' = 0 /\ IsPart(buffer, 0)'
      BY FreshSizes
    <3>2. IsPart(wire, BytesRead)' /\ Len(wire') = Size(r) - BytesRead'
      <4>1. \A k \in 1 .. Size(r) : BytesRead' + k = k
        BY <1>3, <3>1
      <4>2. Len(wire') = Size(r) - BytesRead'
        BY <1>3, <2>3, <3>1
      <4>3. IsPart(wire, BytesRead)'
        BY <2>3, <4>1 DEF IsPart
      <4> QED
        BY <4>2, <4>3
    <3>3. pc' = "reading" /\ ~closed' /\ WellFramed(r)'
      BY <2>1 DEF WellFramed
    <3> QED
      BY <1>1, <1>3, <3>1, <3>2, <3>3 DEF WholeInv, Size
<1> QED
  BY <1>6, <1>7, <1>8

LEMMA CloseStep ==
  ASSUME IInv, Close PROVE IInv'
<1>1. TypeInv'
  BY DEF IInv, TypeInv, Close, parsed, OfRequests
<1>2. SizeInv'
  BY DEF IInv, SizeInv, BytesRead, Close, parsed
<1>3. WholeInv'
  BY DEF IInv, WholeInv, BytesRead, IsPart, Close, parsed, Declared, WellFramed, Size, Grown, Denied
<1> QED
  BY <1>1, <1>2, <1>3 DEF IInv

LEMMA NoBufferStep ==
  ASSUME IInv, NoBuffer PROVE IInv'
<1>1. TypeInv'
  BY DEF IInv, TypeInv, NoBuffer, parsed, OfRequests, Results
<1>2. SizeInv'
  BY DEF IInv, SizeInv, BytesRead, NoBuffer, parsed
<1>3. WholeInv'
  BY DEF IInv, WholeInv, BytesRead, IsPart, NoBuffer, parsed, Declared, WellFramed, Size
<1> QED
  BY <1>1, <1>2, <1>3 DEF IInv

LEMMA ReadFailsStep ==
  ASSUME IInv, ReadFails PROVE IInv'
<1> DEFINE r == answers[request]
<1>1. /\ request \in 1 .. MaxRequests /\ UNCHANGED <<request, answers>> /\ pc = "reading"
      /\ r \in Responses
  BY HttpAssumption, ElementOfSeq DEF IInv, TypeInv, ReadFails
<1>2. SizeInv'
  BY FreshSizes DEF ReadFails
<1>3. CASE attempt = 1
  <2>1. /\ pc' = "reading" /\ attempt' = 2 /\ closed' = FALSE
        /\ wire' = Bytes(request, r) /\ framed' = WellFramed(r)
    BY <1>1, <1>3 DEF ReadFails
  <2>2. /\ wire' \in Seq(Byte) /\ Len(wire') = Size(r) /\ Size(r) \in Nat
        /\ \A n \in 1 .. Size(r) : wire'[n] = <<request, n>>
    BY <1>1, <2>1, BytesType, ResponseType
  <2>3. framed' \in BOOLEAN
    BY <2>1 DEF WellFramed
  <2>4. TypeInv'
    <3>1. OfRequests(wire)'
      BY <1>1, <2>2 DEF OfRequests
    <3>2. FreshBuffer
      BY DEF ReadFails
    <3>3. buffer' \in Seq(Byte) /\ chunked' \in BOOLEAN /\ OfRequests(buffer)'
      BY <2>1, <3>2, FreshSizes
    <3>4. wanted' = wanted
      BY DEF ReadFails
    <3> QED
      BY <1>1, <2>1, <2>2, <2>3, <3>1, <3>3, <3>4 DEF IInv, TypeInv
  <2>5. WholeInv'
    <3>0. FreshBuffer
      BY DEF ReadFails
    <3>1. BytesRead' = 0 /\ headerSize' = 0 /\ IsPart(buffer, 0)'
      BY <2>1, <3>0, FreshSizes
    <3>2. IsPart(wire, BytesRead)' /\ Len(wire') = Size(r) - BytesRead'
      BY <1>1, <2>2, <3>1 DEF IsPart
    <3>3. framed' => WellFramed(r)'
      BY <2>1, <1>1 DEF WellFramed
    <3>4. ~closed' /\ pc' = "reading"
      BY <2>1
    <3> QED
      BY <1>1, <2>2, <3>1, <3>2, <3>3, <3>4 DEF WholeInv, Size
  <2> QED
    BY <1>2, <2>4, <2>5 DEF IInv
<1>4. CASE attempt # 1
  <2>1. /\ pc' = "tls" /\ UNCHANGED <<attempt, closed, wire, framed>> /\ closed
    BY <1>4 DEF ReadFails
  <2>2. TypeInv'
    <3>1. OfRequests(wire)'
      BY <1>1, <2>1 DEF OfRequests, IInv, TypeInv
    <3>2. FreshBuffer
      BY DEF ReadFails
    <3>3. buffer' \in Seq(Byte) /\ chunked' \in BOOLEAN /\ OfRequests(buffer)'
      BY <2>1, <3>2, FreshSizes
    <3>4. wanted' = wanted
      BY DEF ReadFails
    <3> QED
      BY <1>1, <2>1, <3>1, <3>3, <3>4 DEF IInv, TypeInv, Results
  <2>3. WholeInv'
    <3>0. FreshBuffer
      BY DEF ReadFails
    <3>1. BytesRead' = 0 /\ headerSize' = 0 /\ IsPart(buffer, 0)'
      BY <2>1, <3>0, FreshSizes
    <3>2. Size(r) >= 0
      BY <1>1, ResponseType
    <3>3. framed => WellFramed(r) /\ wire = <<>>
      BY <1>1, <2>1 DEF IInv, WholeInv
    <3> QED
      BY <1>1, <2>1, <3>1, <3>2, <3>3 DEF WholeInv, WellFramed, Size
  <2> QED
    BY <1>2, <2>2, <2>3 DEF IInv
<1> QED
  BY <1>3, <1>4

LEMMA SmallMod ==
  ASSUME NEW x \in Nat, x < MaxUint + 1 PROVE x % (MaxUint + 1) = x
BY HttpAssumption

\* An answer that seems complete is, if it has the size it declares.
LEMMA CompleteWhole ==
  ASSUME NEW r \in Responses, WellFramed(r), NEW b, r = answers[request],
         Len(b) \in 1 .. Size(r), b[Len(b)] = <<request, Len(b)>>,
         Complete(b, r.header, Declared(r), r.chunked)
  PROVE  Len(b) = Size(r)
<1> USE ResponseType, HttpAssumption
<1>1. CASE r.chunked
  BY <1>1 DEF Complete, WellFramed, Size
<1>2. CASE ~r.chunked
  <2>1. Declared(r) = r.body
    <3>1. r.body = (IF r.length = -1 THEN 0 ELSE r.length) /\ r.body < MaxUint + 1
      BY <1>2 DEF WellFramed
    <3> QED
      BY <3>1, SmallMod DEF Declared
  <2>2. (r.header + r.body) % (MaxUint + 1) = r.header + r.body
    <3>1. r.header + r.body < MaxUint + 1 /\ r.header + r.body \in Nat
      BY SMTT(30), <1>2 DEF WellFramed
    <3> QED
      BY <3>1, SmallMod
  <2> QED
    BY <1>2, <2>1, <2>2 DEF Complete, Size
<1> QED
  BY <1>1, <1>2

LEMMA ReadStep ==
  ASSUME IInv, NEW n \in 1 .. Len(wire), Read(n) PROVE IInv'
<1> DEFINE b == buffer \o SubSeq(wire, 1, n)
<1> DEFINE w == SubSeq(wire, n + 1, Len(wire))
<1>1. /\ buffer' = b /\ wire' = w /\ pc = "reading" /\ n <= capacity - BytesRead
      /\ UNCHANGED <<request, answers, attempt, wanted, framed, closed>>
  BY DEF Read
<1>2. /\ b \in Seq(Byte) /\ w \in Seq(Byte)
      /\ Len(b) = Len(buffer) + n /\ Len(w) = Len(wire) - n
      /\ \A k \in 1 .. Len(buffer) : b[k] = buffer[k]
      /\ \A k \in 1 .. n : b[Len(buffer) + k] = wire[k]
      /\ \A k \in 1 .. Len(w) : w[k] = wire[n + k]
  BY Piece DEF IInv, TypeInv
<1> HIDE DEF b, w
<1>3. /\ Len(buffer) \in Nat /\ Len(wire) \in Nat /\ n \in Nat \ {0}
      /\ Len(b) \in Nat /\ Len(w) \in Nat
  BY <1>2, LenProperties DEF IInv, TypeInv
<1>4. \A k \in 1 .. Len(b) :
        \/ k \in 1 .. Len(buffer)
        \/ k - Len(buffer) \in 1 .. n /\ b[k] = wire[k - Len(buffer)]
  <2> SUFFICES ASSUME NEW k \in 1 .. Len(b), k \notin 1 .. Len(buffer)
               PROVE k - Len(buffer) \in 1 .. n /\ b[k] = wire[k - Len(buffer)]
    BY <1>3
  <2>1. k - Len(buffer) \in 1 .. n /\ Len(buffer) + (k - Len(buffer)) = k
    BY <1>2, <1>3
  <2> QED
    BY <1>2, <2>1
<1>5. OfRequests(buffer)' /\ OfRequests(wire)'
  <2>1. \A k \in 1 .. Len(b) : b[k][1] \in 1 .. request
    <3> TAKE k \in 1 .. Len(b)
    <3>1. (\A j \in 1 .. Len(buffer) : buffer[j][1] \in 1 .. request)
            /\ (\A j \in 1 .. Len(wire) : wire[j][1] \in 1 .. request)
      BY DEF IInv, TypeInv, OfRequests
    <3>2. CASE k \in 1 .. Len(buffer)
      BY <1>2, <3>1, <3>2
    <3>3. CASE k - Len(buffer) \in 1 .. n /\ b[k] = wire[k - Len(buffer)]
      <4>1. k - Len(buffer) \in 1 .. Len(wire)
        BY <1>3, <3>3
      <4> QED
        BY <3>1, <3>3, <4>1
    <3> QED
      BY <1>4, <3>2, <3>3
  <2>2. \A k \in 1 .. Len(w) : w[k][1] \in 1 .. request
    <3> TAKE k \in 1 .. Len(w)
    <3>1. n + k \in 1 .. Len(wire) /\ w[k] = wire[n + k]
      BY <1>2, <1>3
    <3> QED
      BY <3>1 DEF IInv, TypeInv, OfRequests
  <2> QED
    BY <1>1, <2>1, <2>2 DEF OfRequests
<1>6. /\ pc' \in {"reading", "done", "denied", "aborted", "tooLong", "noMem"}
      /\ \/ capacity' = capacity /\ pc' # "noMem"
         \/ /\ pc' \in {"reading", "noMem"} /\ Len(b) = capacity
            /\ capacity' = Grown(capacity) /\ Grown(capacity) # 0
      /\ pc' = "reading" => Len(b) < capacity'
      /\ pc' \in {"done", "denied", "aborted"} =>
           Complete(b, headerSize', contentSize', chunked') /\ (pc' = "denied" <=> Denied(b))
      /\ pc' = "aborted" => wanted /\ Len(b) = capacity
      /\ pc' = "tooLong" => Len(b) = capacity /\ Grown(capacity) = 0
  <2>1. Received(b)
    BY <1>1 DEF Read, b
  <2>2. capacity \in 1 .. MaxUint - 1 /\ Len(b) <= capacity /\ capacity \in Nat
    BY <1>1, <1>2, <1>3, HttpAssumption DEF IInv, SizeInv, BytesRead
  <2>3. Grown(capacity) # 0 => Grown(capacity) \in Nat /\ Grown(capacity) > capacity
    BY <2>2, GrownBounds, HttpAssumption
  <2>4. CASE Complete(b, headerSize', contentSize', chunked')
    <3>1. Finish(b)
      BY <2>1, <2>4 DEF Received
    <3> QED
      BY <2>4, <3>1 DEF Finish
  <2>5. CASE ~Complete(b, headerSize', contentSize', chunked') /\ Len(b) = capacity
    <3>0. ~(Len(b) < capacity)
      BY <2>2, <2>5
    <3>1. CASE Grown(capacity) = 0
      BY <1>1, <2>1, <2>5, <3>0, <3>1 DEF Received
    <3>2. CASE Grown(capacity) # 0
      <4>1. capacity' = Grown(capacity) /\ pc' \in {"reading", "noMem"}
        BY <1>1, <2>1, <2>5, <3>0, <3>2 DEF Received
      <4>2. Len(b) < capacity'
        BY <2>2, <2>3, <2>5, <3>2, <4>1
      <4> QED
        BY <2>5, <3>2, <4>1, <4>2
    <3> QED
      BY <3>1, <3>2
  <2>6. CASE ~Complete(b, headerSize', contentSize', chunked') /\ Len(b) # capacity
    <3>1. Len(b) < capacity
      BY <1>3, <2>2, <2>6
    <3>2. pc' = pc /\ capacity' = capacity
      BY <2>1, <2>6, <3>1 DEF Received
    <3> QED
      BY <1>1, <3>1, <3>2
  <2> QED
    BY <2>4, <2>5, <2>6
\* What is known of the header afterwards.
<1>7. /\ chunked' \in BOOLEAN /\ headerSize' \in Nat /\ headerSize' <= Len(b)
      /\ contentSize' \in 0 .. MaxUint
      /\ \/ UNCHANGED parsed
         \/ \E k \in Headers(b) : Parse(k, answers[b[k][1]])
  <2>1. CASE UNCHANGED parsed
    <3>1. chunked' \in BOOLEAN
      BY <2>1 DEF parsed, IInv, TypeInv
    <3> QED
      BY <1>2, <1>3, <2>1, <3>1 DEF parsed, IInv, SizeInv, BytesRead
  <2>2. CASE \E k \in Headers(b) : Parse(k, answers[b[k][1]])
    <3>1. PICK k \in Headers(b) : Parse(k, answers[b[k][1]])
      BY <2>2
    <3>2. k \in 1 .. Len(b)
      BY <1>2, LenProperties DEF Headers
    <3>3. answers[b[k][1]] \in Responses
      <4>1. b[k][1] \in 1 .. Len(answers) /\ answers \in Seq(Responses)
        BY <1>1, <1>5, <3>2 DEF OfRequests, IInv, TypeInv
      <4> QED
        BY <4>1, ElementOfSeq
    <3>4. answers[b[k][1]].chunked \in BOOLEAN
      BY <3>3, ResponseType
    <3>5. chunked' \in BOOLEAN
      BY <3>1, <3>4, Zenon DEF Parse
    <3>6. headerSize' \in Nat /\ headerSize' <= Len(b)
      BY <1>3, <3>1, <3>2 DEF Parse
    <3>7. contentSize' \in 0 .. MaxUint
      BY <3>1, <3>3, ResponseType, HttpAssumption DEF Parse
    <3> QED
      BY <2>2, <3>5, <3>6, <3>7
  <2> QED
    BY <2>1, <2>2 DEF Read, b
<1>8. TypeInv'
  <2>1. chunked' \in BOOLEAN
    BY <1>7
  <2> QED
    BY <1>1, <1>2, <1>5, <1>6, <2>1 DEF IInv, TypeInv, Results
<1>9. SizeInv'
  <2>1. capacity' \in 1 .. MaxUint - 1 /\ Len(b) <= capacity'
    <3>1. capacity \in 1 .. MaxUint - 1 /\ Len(b) <= capacity /\ capacity \in Nat
      BY <1>1, <1>2, <1>3, HttpAssumption DEF IInv, SizeInv, BytesRead
    <3>2. Grown(capacity) # 0 => Grown(capacity) \in 1 .. MaxUint - 1 /\ Grown(capacity) > capacity
      BY <3>1, GrownBounds
    <3> QED
      BY <1>3, <1>6, <3>1, <3>2, HttpAssumption
  <2>2. capacity' >= BufferSize /\ (pc' = "noMem" => Len(b) >= BufferSize)
    <3>1. capacity \in Nat /\ capacity >= BufferSize /\ BufferSize \in Nat
      BY HttpAssumption DEF IInv, SizeInv
    <3>2. Grown(capacity) # 0 => Grown(capacity) \in Nat /\ Grown(capacity) > capacity
      BY GrownBounds, HttpAssumption DEF IInv, SizeInv
    <3> QED
      BY <1>6, <3>1, <3>2
  <2>3. pc' = "reading" => Len(b) < capacity'
    BY <1>6
  <2> QED
    BY <1>1, <1>7, <2>1, <2>2, <2>3 DEF SizeInv, BytesRead
<1>10. WholeInv'
  <2> SUFFICES ASSUME framed PROVE WholeInv'
    BY <1>1 DEF WholeInv
  <2> DEFINE r == answers[request]
  <2>1. r \in Responses /\ request > 0
    <3>1. request \in 1 .. Len(answers) /\ answers \in Seq(Responses)
      BY <1>1, HttpAssumption DEF IInv, TypeInv
    <3> QED
      BY <3>1, ElementOfSeq, HttpAssumption DEF IInv, TypeInv
  <2>2. ~closed
    BY <1>1, <1>3 DEF IInv, WholeInv
  <2>3. /\ WellFramed(r) /\ BytesRead <= Size(r) /\ IsPart(buffer, 0)
        /\ Len(wire) = Size(r) - BytesRead /\ IsPart(wire, BytesRead)
        /\ headerSize # 0 => /\ headerSize = r.header /\ contentSize = Declared(r)
                             /\ chunked = r.chunked
    BY <1>1, <2>2 DEF IInv, WholeInv
  <2>4. Size(r) \in Nat \ {0} /\ r.header \in Nat \ {0}
    BY <2>1, ResponseType
  <2>5. Len(b) \in 1 .. Size(r) /\ Len(w) = Size(r) - Len(b)
    BY <1>2, <1>3, <2>3, <2>4 DEF BytesRead
  <2>6. \A k \in 1 .. Len(b) : b[k] = <<request, k>>
    <3> TAKE k \in 1 .. Len(b)
    <3>1. CASE k \in 1 .. Len(buffer)
      <4>1. b[k] = buffer[k] /\ buffer[k] = <<request, 0 + k>> /\ 0 + k = k
        BY <1>2, <1>3, <2>3, <3>1 DEF IsPart
      <4> QED
        BY <4>1
    <3>2. CASE k - Len(buffer) \in 1 .. n /\ b[k] = wire[k - Len(buffer)]
      <4>1. k - Len(buffer) \in 1 .. Len(wire) /\ Len(buffer) + (k - Len(buffer)) = k
        BY <1>3, <3>2
      <4>2. wire[k - Len(buffer)] = <<request, Len(buffer) + (k - Len(buffer))>>
        BY <2>3, <4>1 DEF IsPart, BytesRead
      <4> QED
        BY <3>2, <4>1, <4>2
    <3> QED
      BY <1>4, <3>1, <3>2
  <2>7. \A k \in 1 .. Len(w) : w[k] = <<request, Len(b) + k>>
    <3> TAKE k \in 1 .. Len(w)
    <3>1. n + k \in 1 .. Len(wire) /\ w[k] = wire[n + k] /\ Len(buffer) + (n + k) = Len(b) + k
      BY <1>2, <1>3
    <3> QED
      BY <2>3, <3>1 DEF IsPart, BytesRead
  <2>8. IsPart(buffer, 0)' /\ IsPart(wire, BytesRead)'
    <3>1. \A k \in 1 .. Len(b) : 0 + k = k
      BY <1>3
    <3> QED
      BY <1>1, <2>6, <2>7, <3>1 DEF IsPart, BytesRead
  <2>9. headerSize' # 0 => /\ headerSize' = r.header /\ contentSize' = Declared(r)
                           /\ chunked' = r.chunked
    <3>1. CASE UNCHANGED parsed
      BY <2>3, <3>1 DEF parsed
    <3>2. CASE \E k \in Headers(b) : Parse(k, answers[b[k][1]])
      <4>1. PICK k \in Headers(b) : Parse(k, answers[b[k][1]])
        BY <3>2
      <4>2. k \in 1 .. Len(b) /\ b[k][2] = answers[b[k][1]].header
        BY <1>2, LenProperties DEF Headers
      <4>3. b[k] = <<request, k>>
        BY <2>6, <4>2
      <4>4. k = r.header /\ Parse(k, r)
        BY <4>1, <4>2, <4>3
      <4> QED
        BY <4>4 DEF Parse, Declared
    <3> QED
      BY <1>7, <3>1, <3>2
  <2>10. pc' \in {"done", "denied", "aborted"} => Len(b) = Size(r)
    <3> SUFFICES ASSUME pc' \in {"done", "denied", "aborted"} PROVE Len(b) = Size(r)
      OBVIOUS
    <3>1. Complete(b, headerSize', contentSize', chunked')
      BY <1>6
    <3>2. headerSize' # 0
      BY <3>1 DEF Complete
    <3>3. Complete(b, r.header, Declared(r), r.chunked)
      BY <2>9, <3>1, <3>2
    <3>4. b[Len(b)] = <<request, Len(b)>>
      BY <2>5, <2>6
    <3> QED
      BY <2>1, <2>3, <2>5, <3>3, <3>4, CompleteWhole
  <2>11. pc' \in {"aborted", "tooLong"} => Len(b) = capacity /\ capacity' = capacity
    <3>1. Len(b) <= capacity /\ capacity \in Nat
      BY <1>1, <1>2, <1>3, HttpAssumption DEF IInv, SizeInv, BytesRead
    <3> QED
      BY <1>3, <1>6, <3>1
  <2>12. WellFramed(r)'
    BY <1>1, <2>3 DEF WellFramed
  <2>13. Len(buffer') = Len(b) /\ Len(b) <= Size(r) /\ Len(wire') = Size(r) - Len(b)
    BY <1>1, <2>5
  <2>14. pc' = "tooLong" => Grown(capacity') = 0
    BY <1>6, <2>11
  <2>15. pc' \in {"done", "denied", "aborted"} => (pc' = "denied" <=> Denied(buffer)')
    BY <1>1, <1>6 DEF Denied
  <2>16. pc' = "aborted" => wanted'
    BY <1>1, <1>6
  <2>17. pc' # "idle" /\ (closed => w = <<>>)
    BY <1>6, <2>2
  <2> QED
    BY <1>1, <2>2, <2>8, <2>9, <2>10, <2>11, <2>12, <2>13, <2>14, <2>15, <2>16, <2>17
       DEF WholeInv, BytesRead, Size, Declared
<1> QED
  BY <1>8, <1>9, <1>10 DEF IInv

LEMMA InitInv == Init => IInv
<1> SUFFICES ASSUME Init PROVE IInv
  OBVIOUS
<1>1. TypeInv
  <2>1. /\ wire = <<>> /\ buffer = <<>> /\ answers = <<>> /\ request = 0 /\ pc = "idle"
        /\ attempt = 1 /\ wanted = TRUE /\ framed = TRUE /\ closed = FALSE /\ chunked = FALSE
    BY DEF Init
  <2>2. wanted \in BOOLEAN /\ framed \in BOOLEAN /\ closed \in BOOLEAN /\ chunked \in BOOLEAN
    BY <2>1
  <2>3. OfRequests(wire) /\ OfRequests(buffer)
    BY <2>1 DEF OfRequests
  <2>4. <<>> \in Seq(Byte) /\ <<>> \in Seq(Responses) /\ Len(<<>>) = 0
    OBVIOUS
  <2>5. /\ wire \in Seq(Byte) /\ buffer \in Seq(Byte) /\ answers \in Seq(Responses)
        /\ Len(answers) = request
    BY <2>1, <2>4
  <2>6. request \in 0 .. MaxRequests /\ attempt \in {1, 2}
    BY <2>1, HttpAssumption
  <2> QED
    BY <2>1, <2>2, <2>3, <2>5, <2>6 DEF TypeInv
<1>2. SizeInv
  BY HttpAssumption DEF Init, SizeInv, BytesRead
<1>3. WholeInv
  BY DEF Init, WholeInv
<1> QED
  BY <1>1, <1>2, <1>3 DEF IInv

LEMMA StepInv == IInv /\ [Next]_vars => IInv'
<1> SUFFICES ASSUME IInv, [Next]_vars PROVE IInv'
  OBVIOUS
<1>1. CASE \E r \in Responses, v \in BOOLEAN : Request(r, v)
  BY <1>1, RequestStep
<1>2. CASE \E n \in 1 .. Len(wire) : Read(n)
  BY <1>2, ReadStep
<1>3. CASE ReadFails
  BY <1>3, ReadFailsStep
<1>4. CASE Close
  BY <1>4, CloseStep
<1>6. CASE NoBuffer
  BY <1>6, NoBufferStep
<1>5. CASE UNCHANGED vars
  BY <1>5 DEF vars, IInv, TypeInv, SizeInv, WholeInv, BytesRead, OfRequests, IsPart,
              Declared, WellFramed, Size, Grown, Denied
<1> QED
  BY <1>1, <1>2, <1>3, <1>4, <1>5, <1>6 DEF Next

-----------------------------------------------------------------------------
(* The theorems *)

\* The buffer never holds more than its capacity, what is on the wire follows it in
\* the response of the present request, and the header's fields are its.
THEOREM Invariant == Spec => []IInv
<1> QED
  BY InitInv, StepInv, PTL DEF Spec

\* http_receive never writes past its buffer, and its sizes do not overflow.
THEOREM TypeCorrect == Spec => []TypeOK
<1>1. IInv => TypeOK
  BY DEF IInv, TypeInv, SizeInv, TypeOK
<1> QED
  BY <1>1, Invariant, PTL

\* The buffer of a complete answer is the response.
LEMMA BufferIsAnswer ==
  ASSUME IInv, framed, pc \in {"done", "denied", "aborted"}
  PROVE  /\ buffer = Bytes(request, answers[request])
         /\ BytesRead = Size(answers[request])
<1> DEFINE r == answers[request]
<1>1. r \in Responses /\ request \in Nat
  <2>1. request \in 1 .. Len(answers) /\ answers \in Seq(Responses) /\ request \in Nat
    BY HttpAssumption DEF IInv, TypeInv
  <2> QED
    BY <2>1, ElementOfSeq
<1>2. Len(buffer) = Size(r) /\ \A n \in 1 .. Len(buffer) : buffer[n] = <<request, 0 + n>>
  BY DEF IInv, WholeInv, IsPart, BytesRead
<1>3. /\ Bytes(request, r) \in Seq(Byte) /\ Len(Bytes(request, r)) = Size(r)
      /\ \A n \in 1 .. Size(r) : Bytes(request, r)[n] = <<request, n>>
  BY <1>1, BytesType
<1>4. \A n \in 1 .. Len(buffer) : 0 + n = n
  OBVIOUS
<1>5. buffer \in Seq(Byte)
  BY DEF IInv, TypeInv
<1>6. buffer = Bytes(request, r)
  <2> HIDE DEF r
  <2> QED
    BY <1>2, <1>3, <1>4, <1>5, SeqEqual
<1> QED
  BY <1>2, <1>6 DEF BytesRead

\* The texts of a denial are found in the buffer of a complete answer just when they
\* are in the response.
LEMMA DeniedDenies ==
  ASSUME IInv, framed, pc \in {"done", "denied", "aborted"}
  PROVE  Denied(buffer) <=> Denies(answers[request])
<1> DEFINE r == answers[request]
<1>1. r \in Responses /\ r.denial \in Nat /\ Size(r) \in Nat
  <2>1. request \in 1 .. Len(answers) /\ answers \in Seq(Responses)
    BY HttpAssumption DEF IInv, TypeInv
  <2> QED
    BY <2>1, ElementOfSeq, ResponseType, HttpAssumption
<1>2. buffer \in Seq(Byte) /\ Len(buffer) = Size(r) /\ \A n \in 1 .. Len(buffer) : buffer[n] = <<request, 0 + n>>
  BY DEF IInv, TypeInv, WholeInv, IsPart, BytesRead
<1>3. DOMAIN buffer = 1 .. Size(r)
  BY <1>2, LenProperties
<1>4. \A n \in 1 .. Size(r) : buffer[n] = <<request, n>>
  BY <1>1, <1>2
<1> HIDE DEF r
<1>5. Denied(buffer) <=> \E n \in 1 .. Size(r) : n = r.denial
  BY <1>3, <1>4 DEF Denied, r
<1> QED
  BY <1>1, <1>5 DEF Denies, r

\* http_request returns its own answer, and all of it, for any responses the gateway
\* frames, in any pieces and with one new attempt; never one that denies the user.
THEOREM Answer == Spec => []AnswerIsWhole
<1>1. IInv => AnswerIsWhole
  <2> SUFFICES ASSUME IInv, pc = "done", framed
               PROVE  buffer = Bytes(request, answers[request]) /\ ~Denies(answers[request])
    BY DEF AnswerIsWhole
  <2>1. ~Denied(buffer)
    BY DEF IInv, WholeInv
  <2> QED
    BY <2>1, BufferIsAnswer, DeniedDenies
<1> QED
  BY <1>1, Invariant, PTL

\* Only an answer that denies the user, one of half of the largest number, one that
\* somebody wants and that fills the buffer as it is, or one there is no memory for is
\* lost; and memory is asked for again only by an answer as large as the first buffer.
THEOREM Failures == Spec => []LossesHaveReasons
<1>1. IInv => LossesHaveReasons
  <2> SUFFICES ASSUME IInv, framed PROVE LossesHaveReasons
    BY DEF LossesHaveReasons
  <2>0. pc # "idle" => Size(answers[request]) \in Nat /\ answers[request] \in Responses
    <3> SUFFICES ASSUME pc # "idle" PROVE answers[request] \in Responses
      BY ResponseType
    <3>1. request \in 1 .. Len(answers) /\ answers \in Seq(Responses)
      BY HttpAssumption DEF IInv, TypeInv
    <3> QED
      BY <3>1, ElementOfSeq
  <2>1. ASSUME pc = "tooLong" PROVE Size(answers[request]) >= (MaxUint - 1) \div 2
    <3>1. /\ BytesRead <= Size(answers[request]) /\ BytesRead = capacity
          /\ Grown(capacity) = 0
      BY <2>1 DEF IInv, WholeInv
    <3>2. capacity \in 1 .. MaxUint - 1
      BY DEF IInv, SizeInv
    <3>4. Size(answers[request]) \in Nat /\ (MaxUint - 1) \div 2 \in Int
      BY <2>0, <2>1, HttpAssumption
    <3> QED
      BY <3>1, <3>2, <3>4, GrownBounds
  <2>2. ASSUME pc = "aborted"
        PROVE  /\ wanted /\ Size(answers[request]) = capacity
               /\ buffer = Bytes(request, answers[request])
    BY <2>2, BufferIsAnswer DEF IInv, WholeInv
  <2>3. ASSUME pc = "denied"
        PROVE  Denies(answers[request]) /\ buffer = Bytes(request, answers[request])
    <3>1. Denied(buffer)
      BY <2>3 DEF IInv, WholeInv
    <3> QED
      BY <2>3, <3>1, BufferIsAnswer, DeniedDenies
  <2>4. ASSUME pc = "noMem" PROVE buffer = <<>> \/ Size(answers[request]) >= BufferSize
    <3>1. BytesRead = 0 \/ BytesRead >= BufferSize
      BY <2>4 DEF IInv, SizeInv
    <3>2. BytesRead <= Size(answers[request]) /\ buffer \in Seq(Byte)
      BY <2>4 DEF IInv, WholeInv, TypeInv
    <3>3. BytesRead \in Nat /\ Size(answers[request]) \in Nat /\ BufferSize \in Nat
      BY <2>0, <2>4, <3>2, LenProperties, HttpAssumption DEF BytesRead
    <3>4. BytesRead = 0 => buffer = <<>>
      BY <3>2, EmptySeq DEF BytesRead
    <3> QED
      BY <3>1, <3>2, <3>3, <3>4
  <2> QED
    BY <2>1, <2>2, <2>3, <2>4 DEF LossesHaveReasons
<1> QED
  BY <1>1, Invariant, PTL

-----------------------------------------------------------------------------
(* What EveryRequestEnds rests on *)

\* http_receive stops at the last byte of a response.
StopsInv == pc = "reading" /\ framed => BytesRead < Size(answers[request])

\* Whoever waits for bytes of the gateway can read one, or will see the connection end.
BytesToCome == pc = "reading" /\ framed => closed \/ (wire # <<>> /\ BytesRead < capacity)

\* A response whose bytes are all there seems complete.
LEMMA WholeComplete ==
  ASSUME NEW r \in Responses, WellFramed(r), NEW b, r = answers[request],
         Len(b) = Size(r), b[Len(b)] = <<request, Len(b)>>
  PROVE  Complete(b, r.header, Declared(r), r.chunked)
<1> USE ResponseType, HttpAssumption
<1>1. CASE r.chunked
  BY <1>1 DEF Complete, WellFramed, Size
<1>2. CASE ~r.chunked
  <2>1. Declared(r) = r.body
    <3>1. r.body = (IF r.length = -1 THEN 0 ELSE r.length) /\ r.body < MaxUint + 1
      BY <1>2 DEF WellFramed
    <3> QED
      BY <3>1, SmallMod DEF Declared
  <2>2. (r.header + r.body) % (MaxUint + 1) = r.header + r.body
    <3>1. r.header + r.body < MaxUint + 1 /\ r.header + r.body \in Nat
      BY SMTT(30), <1>2 DEF WellFramed
    <3> QED
      BY <3>1, SmallMod
  <2> QED
    BY SMTT(30), <1>2, <2>1, <2>2 DEF Complete, Size
<1> QED
  BY <1>1, <1>2

LEMMA PresentAnswer ==
  ASSUME IInv, pc # "idle" PROVE answers[request] \in Responses /\ request \in Nat
<1>1. request \in 1 .. Len(answers) /\ answers \in Seq(Responses) /\ request \in Nat
  BY HttpAssumption DEF IInv, TypeInv
<1> QED
  BY <1>1, ElementOfSeq

LEMMA StopsAtRead ==
  ASSUME IInv, NEW n \in 1 .. Len(wire), Read(n) PROVE StopsInv'
<1> DEFINE b == buffer \o SubSeq(wire, 1, n)
<1> DEFINE r == answers[request]
<1>1. /\ buffer' = b /\ pc = "reading" /\ UNCHANGED <<request, answers, framed>>
      /\ Received(b)
      /\ \/ \E k \in Headers(b) : headerSize = 0 /\ Parse(k, answers[b[k][1]])
         \/ (headerSize = 0 => Headers(b) = {}) /\ UNCHANGED parsed
  BY DEF Read
<1> SUFFICES ASSUME pc' = "reading", framed, ~(Len(b) < Size(r)) PROVE FALSE
  BY <1>1 DEF StopsInv, BytesRead, Size
<1>2. IInv'
  BY ReadStep
<1>3. /\ WellFramed(r) /\ Len(b) <= Size(r)
      /\ \A k \in 1 .. Len(b) : b[k] = <<request, 0 + k>>
      /\ headerSize' # 0 => /\ headerSize' = r.header /\ contentSize' = Declared(r)
                            /\ chunked' = r.chunked
  <2>1. WholeInv' /\ framed' /\ pc' # "idle"
    BY <1>1, <1>2 DEF IInv
  <2> HIDE DEF b
  <2>2. /\ WellFramed(r)' /\ BytesRead' <= Size(r)' /\ IsPart(buffer, 0)'
        /\ headerSize' # 0 => /\ headerSize' = r' .header /\ contentSize' = Declared(r)'
                              /\ chunked' = r' .chunked
    BY <2>1 DEF WholeInv
  <2> QED
    BY <1>1, <2>2 DEF BytesRead, IsPart, WellFramed, Size, Declared
<1>4. r \in Responses /\ Size(r) \in Nat \ {0} /\ r.header \in Nat \ {0} /\ r.header <= Size(r)
  <2>1. r \in Responses
    BY <1>1, PresentAnswer
  <2> QED
    BY <2>1, ResponseType DEF Size
<1>5. b \in Seq(Byte)
  BY <1>1, <1>2 DEF IInv, TypeInv
<1> HIDE DEF b
<1>6. Len(b) = Size(r) /\ DOMAIN b = 1 .. Len(b)
  BY <1>3, <1>4, <1>5, LenProperties
<1>7. \A k \in 1 .. Len(b) : b[k] = <<request, k>>
  <2>1. \A k \in 1 .. Len(b) : 0 + k = k
    BY <1>6
  <2> QED
    BY <1>3, <2>1
<1>8. headerSize' # 0
  <2>1. CASE headerSize # 0 /\ UNCHANGED parsed
    BY <2>1 DEF parsed
  <2>2. CASE headerSize = 0 /\ Headers(b) = {}
    <3>1. r.header \in DOMAIN b /\ b[r.header] = <<request, r.header>>
      BY <1>4, <1>6, <1>7
    <3>2. r.header \in Headers(b)
      BY <3>1 DEF Headers
    <3> QED
      BY <2>2, <3>2
  <2>3. CASE \E k \in Headers(b) : headerSize = 0 /\ Parse(k, answers[b[k][1]])
    <3>1. PICK k \in Headers(b) : headerSize' = k
      BY <2>3 DEF Parse
    <3>2. k \in 1 .. Len(b)
      BY <1>6, <3>1 DEF Headers
    <3> QED
      BY <3>1, <3>2
  <2> QED
    BY <1>1, <2>1, <2>2, <2>3
<1>9. Complete(b, headerSize', contentSize', chunked')
  <2>1. b[Len(b)] = <<request, Len(b)>>
    BY <1>4, <1>6, <1>7
  <2> QED
    BY <1>3, <1>4, <1>6, <1>8, <2>1, WholeComplete
<1>10. Finish(b)
  BY <1>1, <1>9 DEF Received
<1> QED
  BY <1>1, <1>10 DEF Finish

LEMMA StopsStep == IInv /\ StopsInv /\ [Next]_vars => StopsInv'
<1> SUFFICES ASSUME IInv, StopsInv, [Next]_vars PROVE StopsInv'
  OBVIOUS
<1>1. ASSUME NEW r \in Responses, NEW v \in BOOLEAN, Request(r, v) PROVE StopsInv'
  <2>1. IInv' /\ BytesRead' = 0 /\ pc' # "idle"
    BY <1>1, RequestStep, FreshSizes DEF Request
  <2>2. Size(answers[request])' \in Nat \ {0}
    <3>1. answers'[request'] = r
      BY <1>1, AppendProperties, HttpAssumption DEF Request, IInv, TypeInv
    <3> QED
      BY <3>1, ResponseType DEF Size
  <2> QED
    BY <2>1, <2>2 DEF StopsInv
<1>2. ASSUME NEW n \in 1 .. Len(wire), Read(n) PROVE StopsInv'
  BY <1>2, StopsAtRead
<1>3. CASE ReadFails
  <2>1. BytesRead' = 0 /\ UNCHANGED <<request, answers>> /\ pc # "idle"
    BY <1>3, FreshSizes DEF ReadFails
  <2>2. Size(answers[request]) \in Nat \ {0}
    BY <2>1, PresentAnswer, ResponseType
  <2> QED
    BY <2>1, <2>2 DEF StopsInv, Size
<1>4. CASE Close \/ UNCHANGED vars
  BY <1>4 DEF Close, vars, StopsInv, BytesRead, Size
<1>5. CASE NoBuffer
  BY <1>5 DEF NoBuffer, StopsInv
<1> QED
  BY <1>1, <1>2, <1>3, <1>4, <1>5 DEF Next

\* http_receive never goes back to safe_ssl_read for an answer it has: while it reads,
\* either the gateway has bytes for it and the buffer has room, or the connection is
\* closed and the read fails.  Only a gateway that sends less than it declared makes
\* it wait.
THEOREM ReadsNeverWait == Spec => []BytesToCome
<1>1. Init => StopsInv
  BY DEF Init, StopsInv
<1>2. IInv /\ StopsInv => BytesToCome
  <2> SUFFICES ASSUME IInv, StopsInv, pc = "reading", framed, ~closed
               PROVE wire # <<>> /\ BytesRead < capacity
    BY DEF BytesToCome
  <2>1. Len(wire) = Size(answers[request]) - BytesRead /\ BytesRead < Size(answers[request])
        /\ BytesRead < capacity
    BY DEF IInv, WholeInv, SizeInv, StopsInv
  <2>2. Size(answers[request]) \in Nat /\ BytesRead \in Nat
    <3>1. BytesRead \in Nat
      BY LenProperties DEF IInv, TypeInv, BytesRead
    <3> QED
      BY <3>1, PresentAnswer, ResponseType
  <2>3. Len(wire) # 0
    BY <2>1, <2>2
  <2> QED
    BY <2>1, <2>3
<1> QED
  BY <1>1, <1>2, StopsStep, Invariant, PTL DEF Spec

\* How much a call of http_request has left to do: an attempt, a close, bytes to read.
Rounds == [attempts |-> 2 - attempt, open |-> IF closed THEN 0 ELSE 1, bytes |-> Len(wire)]

Less(x, y) == \/ x.attempts < y.attempts
              \/ x.attempts = y.attempts /\ x.open < y.open
              \/ x.attempts = y.attempts /\ x.open = y.open /\ x.bytes < y.bytes

\* The rounds of http_receive and the attempts of http_request are bounded: each step
\* of a call that goes on leaves less to do, in the lexicographic order.
EachRoundCounts == [][pc = "reading" /\ pc' = "reading" => Less(Rounds', Rounds)]_vars

\* No sequence of pieces, closes and attempts keeps a call reading for ever.
THEOREM RoundsAreBounded == Spec => EachRoundCounts
<1>1. IInv /\ [Next]_vars
      => [pc = "reading" /\ pc' = "reading" => Less(Rounds', Rounds)]_vars
  <2> SUFFICES ASSUME IInv, Next, pc = "reading", pc' = "reading" PROVE Less(Rounds', Rounds)
    OBVIOUS
  <2>1. ASSUME NEW n \in 1 .. Len(wire), Read(n) PROVE Less(Rounds', Rounds)
    <3>1. Len(wire') = Len(wire) - n /\ Len(wire) \in Nat /\ UNCHANGED <<attempt, closed>>
      BY <2>1, Piece, LenProperties DEF Read, IInv, TypeInv
    <3> QED
      BY <3>1 DEF Less, Rounds
  <2>2. CASE ReadFails
    <3>1. attempt = 1 /\ attempt' = 2
      BY <2>2 DEF ReadFails
    <3> QED
      BY <3>1 DEF Less, Rounds
  <2>3. CASE Close
    BY <2>3 DEF Close, Less, Rounds
  <2>4. ~NoBuffer
    BY DEF NoBuffer
  <2>5. ASSUME NEW r \in Responses, NEW v \in BOOLEAN, Request(r, v) PROVE FALSE
    BY <2>5 DEF Request
  <2> QED
    BY <2>1, <2>2, <2>3, <2>4, <2>5 DEF Next
<1> QED
  BY <1>1, Invariant, PTL DEF Spec, EachRoundCounts
=============================================================================
