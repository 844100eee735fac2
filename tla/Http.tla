-------------------------------- MODULE Http --------------------------------
(***************************************************************************)
(* How http.c receives the answers of the gateway: http_receive reads what *)
(* TLS gives it into a buffer that doubles when it is full, until the      *)
(* answer seems complete; http_request tries a second time on a new        *)
(* connection.  Sizes are counted modulo MaxUint + 1, as uint32_t is.      *)
(*                                                                         *)
(* A response is its sizes: of its header, the length it declares (-1 for  *)
(* none), the size its body has, for a chunked one the positions at which  *)
(* the bytes of the last chunk have just been seen, and the position at    *)
(* which a text ends that says the user is denied (0 for none).  A byte is *)
(* the number of its request and its position.  The gateway answers in any *)
(* pieces and may close the connection at any time; memory may be missing. *)
(***************************************************************************)
EXTENDS Integers, Sequences

CONSTANTS Responses,
          BufferSize,   \* HTTP_BUFFER_SIZE
          MaxUint,      \* UINT32_MAX
          MaxRequests   \* bound: requests

ASSUME HttpAssumption ==
  /\ BufferSize \in Nat \ {0} /\ MaxUint \in Nat /\ BufferSize < MaxUint
  /\ MaxRequests \in Nat
  /\ \A r \in Responses : /\ r.header \in Nat \ {0} /\ r.body \in Nat
                          /\ r.length \in Nat \cup {-1}
                          /\ r.chunked \in BOOLEAN /\ r.ends \subseteq Nat
                          /\ r.denial \in Nat

VARIABLES
  pc,        \* "idle", "reading", or how http_request ended
  request,   \* number of the request
  answers,   \* answers[k]: the response the gateway has for request k
  attempt,   \* of do_http_request
  wanted,    \* the caller has a place for the response
  wire,      \* bytes of the connection that were not read
  framed,    \* the responses of this connection have the size they seem to have
  closed,    \* the gateway closed the connection
  buffer,    \* the bytes_read bytes of the buffer
  capacity,
  headerSize, contentSize, chunked

vars == <<pc, request, answers, attempt, wanted, wire, framed, closed, buffer,
          capacity, headerSize, contentSize, chunked>>
parsed == <<headerSize, contentSize, chunked>>

BytesRead == Len(buffer)
Results == {"done", "denied", "tooLong", "noMem", "tls", "aborted"}

\* The buffer has one byte more than its capacity, for the terminal zero.
TypeOK ==
  /\ pc \in {"idle", "reading"} \cup Results
  /\ request \in 0 .. MaxRequests /\ answers \in Seq(Responses)
  /\ attempt \in {1, 2}
  /\ wanted \in BOOLEAN /\ framed \in BOOLEAN /\ closed \in BOOLEAN /\ chunked \in BOOLEAN
  /\ capacity \in 1 .. MaxUint - 1 /\ BytesRead <= capacity
  /\ headerSize \in Nat /\ headerSize <= BytesRead
  /\ contentSize \in 0 .. MaxUint

Bytes(k, r) == [n \in 1 .. r.header + r.body |-> <<k, n>>]

\* The end of the response can be told from its header or its chunks.
WellFramed(r) ==
  IF r.chunked THEN r.ends = {r.header + r.body}
  ELSE r.body = (IF r.length = -1 THEN 0 ELSE r.length)
       /\ r.header + r.body <= MaxUint

Init ==
  /\ pc = "idle" /\ request = 0 /\ answers = <<>> /\ attempt = 1 /\ wanted = TRUE
  /\ wire = <<>> /\ framed = TRUE /\ closed = FALSE
  /\ buffer = <<>> /\ capacity = BufferSize
  /\ headerSize = 0 /\ contentSize = 0 /\ chunked = FALSE

FreshBuffer ==
  /\ buffer' = <<>> /\ capacity' = BufferSize
  /\ headerSize' = 0 /\ contentSize' = 0 /\ chunked' = FALSE

-----------------------------------------------------------------------------
\* http_request is called, with a place for the response or without; the gateway has
\* a response for it.  After an error run_tunnel leaves this connection.
Request(r, w) ==
  /\ pc \in {"idle", "done"} /\ request < MaxRequests /\ ~closed
  /\ pc' = "reading" /\ request' = request + 1 /\ attempt' = 1 /\ wanted' = w
  /\ answers' = Append(answers, r)
  /\ wire' = wire \o Bytes(request', r)
  /\ framed' = (framed /\ WellFramed(r)) /\ closed' = closed
  /\ FreshBuffer

\* The gateway closes: what it still had to send is lost.
Close ==
  /\ pc = "reading" /\ ~closed
  /\ closed' = TRUE
  /\ wire' = <<>>
  /\ UNCHANGED <<pc, request, answers, attempt, wanted, framed, buffer, capacity, parsed>>

\* safe_ssl_read fails: http_request connects and sends the request again, once.
ReadFails ==
  /\ pc = "reading" /\ closed
  /\ IF attempt = 1
     THEN /\ pc' = pc /\ attempt' = 2 /\ closed' = FALSE
          /\ wire' = Bytes(request, answers[request])
          /\ framed' = WellFramed(answers[request])
     ELSE pc' = "tls" /\ UNCHANGED <<attempt, closed, wire, framed>>
  /\ FreshBuffer
  /\ UNCHANGED <<request, answers, wanted>>

\* The malloc before the loop fails.
NoBuffer ==
  /\ pc = "reading" /\ buffer = <<>>
  /\ pc' = "noMem"
  /\ UNCHANGED <<request, answers, attempt, wanted, wire, framed, closed, buffer,
                 capacity, parsed>>

\* Where a header ends in the buffer, and what the first one tells.
Headers(b) == {n \in DOMAIN b : b[n][2] = answers[b[n][1]].header}

Parse(size, r) ==
  /\ headerSize' = size /\ chunked' = r.chunked
  /\ contentSize' = (IF r.length = -1 THEN 0 ELSE r.length) % (MaxUint + 1)

\* Mutant of Complete: the header is not counted.
CompleteWithoutHeader(b, header, content, inChunks) ==
  /\ header > 0
  /\ IF inChunks THEN LET last == b[Len(b)] IN last[2] \in answers[last[1]].ends
                 ELSE Len(b) >= content

\* Is the answer complete?  The last chunk is looked for at the end of what was
\* read, wherever that is.
Complete(b, header, content, inChunks) ==
  /\ header > 0
  /\ IF inChunks THEN LET last == b[Len(b)] IN last[2] \in answers[last[1]].ends
                 ELSE Len(b) >= (header + content) % (MaxUint + 1)

\* Mutant of Grown: the limit is one doubling too far.
GrownTooFar(c) == IF (MaxUint - 1) \div c < 1 THEN 0 ELSE c * 2

\* The capacity after it was reached, 0 if it cannot grow.
Grown(c) == IF (MaxUint - 1) \div c < 2 THEN 0 ELSE c * 2

\* What follows the loop: the texts of a denial are looked for, then a caller that
\* wants the response gets it, if the terminal zero is not the byte after the capacity.
Denied(b) == \E n \in DOMAIN b : b[n][2] = answers[b[n][1]].denial

\* Mutant of Finish: the terminal zero is counted twice.
FinishStrictly(b) ==
  /\ pc' = IF Denied(b) THEN "denied"
           ELSE IF wanted /\ Len(b) + 1 >= capacity THEN "aborted" ELSE "done"
  /\ capacity' = capacity

Finish(b) ==
  /\ pc' = IF Denied(b) THEN "denied"
           ELSE IF wanted /\ Len(b) = capacity THEN "aborted" ELSE "done"
  /\ capacity' = capacity

\* Mutant of Received: the buffer grows only when there are more bytes than fit.
ReceivedGrowsLate(b) ==
  IF Complete(b, headerSize', contentSize', chunked') THEN Finish(b)
  ELSE UNCHANGED <<pc, capacity>>

\* The end of a round of http_receive's loop, and what follows the loop.
Received(b) ==
  IF Complete(b, headerSize', contentSize', chunked') THEN Finish(b)
  ELSE IF Len(b) < capacity THEN UNCHANGED <<pc, capacity>>
  ELSE IF Grown(capacity) = 0 THEN pc' = "tooLong" /\ capacity' = capacity
  ELSE capacity' = Grown(capacity) /\ pc' \in {pc, "noMem"}

\* One round of the loop: a piece of what is on the wire is read.
Read(n) ==
  LET b == buffer \o SubSeq(wire, 1, n)
  IN /\ pc = "reading" /\ n <= capacity - BytesRead
     /\ buffer' = b /\ wire' = SubSeq(wire, n + 1, Len(wire))
     /\ \/ \E k \in Headers(b) :
             /\ headerSize = 0 /\ \A m \in Headers(b) : k <= m
             /\ Parse(k, answers[b[k][1]])
        \/ (headerSize = 0 => Headers(b) = {}) /\ UNCHANGED parsed
     /\ Received(b)
     /\ UNCHANGED <<request, answers, attempt, wanted, framed, closed>>

-----------------------------------------------------------------------------
Next ==
  \/ \E r \in Responses, w \in BOOLEAN : Request(r, w)
  \/ \E n \in 1 .. Len(wire) : Read(n)
  \/ ReadFails \/ NoBuffer \/ Close

\* The loop goes on as long as TLS has something for it.
Fairness ==
  WF_vars((\E n \in 1 .. Len(wire) : Read(n)) \/ ReadFails)

Spec == Init /\ [][Next]_vars /\ Fairness

-----------------------------------------------------------------------------
Size(r) == r.header + r.body

\* On a connection whose responses can be told from each other, http_request returns
\* the response to its own request, and all of it, whatever the pieces and the
\* attempts: no byte of the one before, and never a response that denies the user,
\* which ERR_HTTP_PERMISSION stands for.  (Without Content-Length the rest of a body is
\* left for the next request to read.)
Denies(r) == r.denial \in 1 .. Size(r)

AnswerIsWhole ==
  pc = "done" /\ framed => /\ buffer = Bytes(request, answers[request])
                           /\ ~Denies(answers[request])

\* An answer that came is lost for one of four reasons only: it denies the user, the
\* largest buffer (half of MaxUint at least) cannot hold it, there is no memory for the
\* first buffer or, if it is as large as that one, for a larger one; and the assertion
\* at the end of http_receive fails for a response somebody wants that fills the buffer,
\* as large as it has become, to its last byte.
LossesHaveReasons == framed =>
  LET r == answers[request]
  IN /\ pc = "denied" => Denies(r) /\ buffer = Bytes(request, r)
     /\ pc = "tooLong" => Size(r) >= (MaxUint - 1) \div 2
     /\ pc = "noMem" => buffer = <<>> \/ Size(r) >= BufferSize
     /\ pc = "aborted" => wanted /\ Size(r) = capacity /\ buffer = Bytes(request, r)

\* A call of http_request ends once the gateway has answered, or closed twice; there
\* is no time limit for a gateway that sends less than it declared.
EveryRequestEnds ==
  [](pc = "reading" /\ framed => <>(pc # "reading" \/ ~framed))
=============================================================================
