----------------------------- MODULE HdlcProofs -----------------------------
(***************************************************************************)
(* Machine-checked proofs about Hdlc, for any packets, check sequences,    *)
(* size of the buffer that holds the largest frame, and number of packets. *)
(*                                                                         *)
(* What the two loops over bytes compute is shown by induction on the      *)
(* place in the sequence, in the form of SetInduction.                     *)
(***************************************************************************)
EXTENDS Hdlc, SequenceTheorems, WellFoundedInduction, TLAPS

-----------------------------------------------------------------------------
(* Induction and recursion on the natural numbers *)

\* Induction on the natural numbers rests on their order.
LEMMA LessIsWellFounded == IsWellFoundedOn({ss \in Nat \X Nat : ss[1] < ss[2]}, Nat)
  BY NatLessThanWellFounded DEF OpToRel

\* A set of numbers that is not empty has a least one.
LEMMA Least ==
  ASSUME NEW T \in SUBSET Nat, T # {}
  PROVE  \E n \in T : \A m \in T : n <= m
<1> DEFINE R == {ss \in Nat \X Nat : ss[1] < ss[2]}
<1>1. PICK n \in T : \A m \in T : ~(<<m, n>> \in R)
  <2>1. IsWellFoundedOn(R, Nat)
    BY LessIsWellFounded
  <2> HIDE DEF R
  <2> QED
    BY <2>1, WFMin
<1>2. \A m \in T : ~(m < n)
  BY <1>1
<1> QED
  BY <1>2

\* A set that has 0 and with a number the next one has all of them.
LEMMA SetInduction ==
  ASSUME NEW T, 0 \in T, \A n \in Nat : n \in T => n + 1 \in T
  PROVE  \A n \in Nat : n \in T
<1> SUFFICES ASSUME Nat \ T # {} PROVE FALSE
  OBVIOUS
<1>1. PICK n \in Nat \ T : \A m \in Nat \ T : n <= m
  BY Least
<1>2. n - 1 \in Nat /\ n - 1 \in T
  BY <1>1
<1> QED
  BY <1>1, <1>2

\* f has the values of a loop over n places that starts from d.
Iterates(f, n, d, step) == f[0] = d /\ \A k \in 1 .. n : f[k] = step[<<f[k - 1], k>>]

\* Such a loop has a value at each place.
LEMMA Iteration ==
  ASSUME NEW n \in Nat, NEW D, NEW d \in D, NEW step \in [D \X (1 .. n) -> D]
  PROVE  \E f \in [0 .. n -> D] : Iterates(f, n, d, step)
<1> DEFINE Runs(f, m) == f[0] = d /\ \A k \in 1 .. m : f[k] = step[<<f[k - 1], k>>]
           T == {m \in Nat : m <= n => \E f \in [0 .. m -> D] : Runs(f, m)}
<1>1. 0 \in T
  <2>1. [k \in 0 .. 0 |-> d] \in [0 .. 0 -> D] /\ Runs([k \in 0 .. 0 |-> d], 0)
    OBVIOUS
  <2> QED
    BY <2>1
<1>2. ASSUME NEW m \in Nat, m \in T PROVE m + 1 \in T
  <2> SUFFICES ASSUME m + 1 <= n PROVE \E g \in [0 .. m + 1 -> D] : Runs(g, m + 1)
    OBVIOUS
  <2>1. PICK f \in [0 .. m -> D] : Runs(f, m)
    BY <1>2
  <2> DEFINE g == [k \in 0 .. m + 1 |-> IF k <= m THEN f[k] ELSE step[<<f[m], m + 1>>]]
  <2>2. f[m] \in D /\ m + 1 \in 1 .. n
    OBVIOUS
  <2>3. g \in [0 .. m + 1 -> D]
    BY <2>2
  <2>4. \A k \in 1 .. m + 1 : g[k] = step[<<g[k - 1], k>>]
    <3> TAKE k \in 1 .. m + 1
    <3>1. CASE k <= m
      <4>1. k \in 1 .. m /\ k - 1 \in 0 .. m /\ g[k] = f[k] /\ g[k - 1] = f[k - 1]
        BY <3>1
      <4> QED
        BY <4>1, <2>1
    <3>2. CASE k = m + 1
      <4>1. g[k] = step[<<f[m], m + 1>>] /\ g[k - 1] = f[m]
        BY <3>2
      <4> QED
        BY <4>1, <3>2
    <3> QED
      BY <3>1, <3>2
  <2>5. g[0] = d
    BY <2>1
  <2> HIDE DEF g
  <2> QED
    BY <2>3, <2>4, <2>5
<1>3. n \in T
  <2> HIDE DEF T
  <2> QED
    BY <1>1, <1>2, SetInduction
<1> QED
  BY <1>3 DEF Iterates

-----------------------------------------------------------------------------
(* Escaping *)

\* Inverting bit 5 twice gives the byte back.
LEMMA XorBit5Facts ==
  ASSUME NEW b \in Byte
  PROVE  /\ XorBit5(b) \in Byte /\ XorBit5(XorBit5(b)) = b
         /\ InSendingAccm(b) => XorBit5(b) \notin {Escape, Flag}
BY DEF Byte, XorBit5, InSendingAccm, Escape, Flag

\* A byte is sent as itself or as two bytes; neither form has a flag in it.
LEMMA CodeFacts ==
  ASSUME NEW b \in Byte
  PROVE  /\ Code(b) \in Seq(Byte) /\ Len(Code(b)) \in {1, 2}
         /\ \A j \in 1 .. Len(Code(b)) : Code(b)[j] # Flag
<1>1. CASE InSendingAccm(b)
  <2>1. Code(b) = <<Escape, XorBit5(b)>>
    BY <1>1 DEF Code
  <2>2. XorBit5(b) \in Byte /\ Escape \in Byte /\ XorBit5(b) # Flag /\ Escape # Flag
    <3>1. XorBit5(b) \in Byte /\ XorBit5(b) \notin {Escape, Flag}
      BY <1>1, XorBit5Facts
    <3> QED
      BY <3>1 DEF Byte, Escape, Flag
  <2> QED
    BY <2>1, <2>2
<1>2. CASE ~InSendingAccm(b)
  <2>1. Code(b) = <<b>> /\ b # Flag
    BY <1>2 DEF Code, InSendingAccm, Flag, Byte
  <2> QED
    BY <2>1
<1> QED
  BY <1>1, <1>2

\* The loop of hdlc_encode over the bytes of a packet.
EscapesBy(f, s) ==
  /\ f \in [0 .. Len(s) -> Seq(Byte)] /\ f[0] = <<>>
  /\ \A k \in 1 .. Len(s) : f[k] = f[k - 1] \o Code(s[k])
  /\ Escaped(s) = f[Len(s)]

\* The loop of Escaped, place by place.
LEMMA EscapedRun ==
  ASSUME NEW s \in Seq(Byte)
  PROVE  \E f : EscapesBy(f, s)
<1> DEFINE n == Len(s)
           step == [x \in Seq(Byte) \X (1 .. n) |-> x[1] \o Code(s[x[2]])]
           h(g) == [k \in 0 .. Len(s) |-> IF k = 0 THEN <<>> ELSE g[k - 1] \o Code(s[k])]
           f == CHOOSE g : g = h(g)
<1>1. n \in Nat /\ \A k \in 1 .. n : s[k] \in Byte
  BY LenProperties, ElementOfSeq
<1>2. step \in [Seq(Byte) \X (1 .. n) -> Seq(Byte)]
  BY <1>1, CodeFacts, ConcatProperties
<1>3. PICK g \in [0 .. n -> Seq(Byte)] :
        g[0] = <<>> /\ \A k \in 1 .. n : g[k] = step[<<g[k - 1], k>>]
  <2>1. <<>> \in Seq(Byte)
    OBVIOUS
  <2>2. \E g \in [0 .. n -> Seq(Byte)] : Iterates(g, n, <<>>, step)
    <3> HIDE DEF step, n
    <3> QED
      BY <1>1, <1>2, <2>1, Iteration
  <2> QED
    BY <2>2 DEF Iterates
<1>4. \A k \in 1 .. n : g[k] = g[k - 1] \o Code(s[k])
  <2> TAKE k \in 1 .. n
  <2>1. k - 1 \in 0 .. n
    BY <1>1
  <2>2. <<g[k - 1], k>> \in Seq(Byte) \X (1 .. n)
    BY <2>1
  <2> QED
    BY <1>3, <2>2
<1>5. g = h(g)
  <2>1. \A k \in 0 .. n : g[k] = IF k = 0 THEN <<>> ELSE g[k - 1] \o Code(s[k])
    <3> TAKE k \in 0 .. n
    <3>1. CASE k = 0
      BY <1>3, <3>1
    <3>2. CASE k # 0
      <4>1. k \in 1 .. n
        BY <1>1, <3>2
      <4> QED
        BY <1>4, <3>2, <4>1
    <3> QED
      BY <3>1, <3>2
  <2> QED
    BY <2>1
<1>6. f = h(f)
  BY <1>5, Zenon
<1>7. Escaped(s) = f[Len(s)]
  BY Zenon DEF Escaped
<1>8. /\ DOMAIN f = 0 .. n /\ f[0] = <<>>
      /\ \A k \in 1 .. n : f[k] = f[k - 1] \o Code(s[k])
  <2> HIDE DEF f
  <2>1. /\ DOMAIN f = 0 .. n
        /\ \A k \in 0 .. n : f[k] = IF k = 0 THEN <<>> ELSE f[k - 1] \o Code(s[k])
    BY <1>6
  <2>2. \A k \in 1 .. n : k \in 0 .. n /\ k # 0
    BY <1>1
  <2> QED
    BY <1>1, <2>1, <2>2
<1>9. f \in [0 .. n -> Seq(Byte)]
  <2> HIDE DEF f
  <2> DEFINE T == {k \in Nat : k <= n => f[k] \in Seq(Byte)}
  <2>1. 0 \in T
    BY <1>8
  <2>2. ASSUME NEW k \in Nat, k \in T PROVE k + 1 \in T
    <3> SUFFICES ASSUME k + 1 <= n PROVE f[k + 1] \in Seq(Byte)
      OBVIOUS
    <3>1. k + 1 \in 1 .. n /\ (k + 1) - 1 = k /\ f[k] \in Seq(Byte)
      BY <1>1, <2>2
    <3>2. f[k + 1] = f[k] \o Code(s[k + 1]) /\ s[k + 1] \in Byte
      BY <1>1, <1>8, <3>1
    <3> QED
      BY <3>1, <3>2, CodeFacts, ConcatProperties
  <2>3. \A k \in Nat : k \in T
    <3> HIDE DEF T
    <3> QED
      BY <2>1, <2>2, SetInduction
  <2>4. \A k \in 0 .. n : f[k] \in Seq(Byte)
    BY <1>1, <2>3
  <2> QED
    BY <1>6, <1>8, <2>4
<1> QED
  <2> HIDE DEF f
  <2> QED
    BY <1>7, <1>8, <1>9 DEF EscapesBy

\* What is escaped has no flag, and at most two bytes for one.
LEMMA EscapedFacts ==
  ASSUME NEW s \in Seq(Byte)
  PROVE  /\ Escaped(s) \in Seq(Byte)
         /\ Len(Escaped(s)) >= Len(s) /\ Len(Escaped(s)) <= 2 * Len(s)
         /\ \A j \in 1 .. Len(Escaped(s)) : Escaped(s)[j] # Flag
<1>1. PICK f : EscapesBy(f, s)
  BY EscapedRun
<1>2. Len(s) \in Nat /\ \A k \in 1 .. Len(s) : s[k] \in Byte
  BY LenProperties, ElementOfSeq
<1> DEFINE Good(k) == /\ Len(f[k]) >= k /\ Len(f[k]) <= 2 * k
                      /\ \A j \in 1 .. Len(f[k]) : f[k][j] # Flag
           T == {k \in Nat : k <= Len(s) => Good(k)}
<1>3. 0 \in T
  BY <1>1 DEF EscapesBy
<1>4. ASSUME NEW k \in Nat, k \in T PROVE k + 1 \in T
  <2> SUFFICES ASSUME k + 1 <= Len(s) PROVE Good(k + 1)
    OBVIOUS
  <2> DEFINE c == Code(s[k + 1])
  <2>1. /\ k + 1 \in 1 .. Len(s) /\ f[k] \in Seq(Byte) /\ Good(k)
        /\ f[k + 1] = f[k] \o c
    <3>1. k + 1 \in 1 .. Len(s) /\ k \in 0 .. Len(s) /\ (k + 1) - 1 = k
      BY <1>2
    <3>2. Good(k)
      BY <1>2, <1>4
    <3>3. f[k] \in Seq(Byte) /\ f[k + 1] = f[(k + 1) - 1] \o Code(s[k + 1])
      BY <1>1, <3>1 DEF EscapesBy
    <3> QED
      BY <3>1, <3>2, <3>3
  <2>2. /\ c \in Seq(Byte) /\ Len(c) \in {1, 2}
        /\ \A j \in 1 .. Len(c) : c[j] # Flag
    BY <1>2, <2>1, CodeFacts
  <2> HIDE DEF c
  <2>3. /\ Len(f[k + 1]) = Len(f[k]) + Len(c) /\ Len(f[k]) \in Nat
        /\ \A j \in 1 .. Len(f[k]) + Len(c) :
             f[k + 1][j] = IF j <= Len(f[k]) THEN f[k][j] ELSE c[j - Len(f[k])]
    BY <2>1, <2>2, ConcatProperties, LenProperties
  <2>4. Len(f[k + 1]) >= k + 1 /\ Len(f[k + 1]) <= 2 * (k + 1)
    <3>1. Len(f[k]) >= k /\ Len(f[k]) <= 2 * k
      BY <2>1
    <3>2. Len(f[k + 1]) = Len(f[k]) + Len(c) /\ Len(f[k]) \in Nat
      BY <2>3
    <3>3. Len(c) \in {1, 2}
      BY <2>2
    <3>4. CASE Len(c) = 1
      BY <3>1, <3>2, <3>4
    <3>5. CASE Len(c) = 2
      BY <3>1, <3>2, <3>5
    <3> QED
      BY <3>3, <3>4, <3>5
  <2>5. ASSUME NEW j \in 1 .. Len(f[k + 1]) PROVE f[k + 1][j] # Flag
    <3>1. CASE j <= Len(f[k])
      <4>1. j \in 1 .. Len(f[k])
        BY <3>1, <2>3
      <4> QED
        BY <4>1, <2>1, <2>3, <3>1
    <3>2. CASE j > Len(f[k])
      <4>1. j - Len(f[k]) \in 1 .. Len(c) /\ ~(j <= Len(f[k])) /\ j \in 1 .. Len(f[k]) + Len(c)
        BY <3>2, <2>2, <2>3
      <4> QED
        BY <4>1, <2>2, <2>3
    <3> QED
      BY <3>1, <3>2, <2>3
  <2> QED
    BY <2>4, <2>5
<1>5. \A k \in Nat : k \in T
  <2> HIDE DEF T
  <2> QED
    BY <1>3, <1>4, SetInduction
<1>6. Good(Len(s)) /\ f[Len(s)] \in Seq(Byte) /\ Escaped(s) = f[Len(s)]
  BY <1>1, <1>2, <1>5 DEF EscapesBy
<1> QED
  BY <1>6

-----------------------------------------------------------------------------
(* Taking the escapes out again *)

State == [escape : BOOLEAN, bad : BOOLEAN, out : Seq(Byte)]
Started == [escape |-> FALSE, bad |-> FALSE, out |-> <<>>]

\* The decoder keeps bytes.
LEMMA TakeType ==
  ASSUME NEW state \in State, NEW b \in Byte
  PROVE  Take(state, b) \in State
<1>1. Append(state.out, XorBit5(b)) \in Seq(Byte) /\ Append(state.out, b) \in Seq(Byte)
  BY XorBit5Facts, AppendProperties DEF State
<1> QED
  BY <1>1 DEF Take, State

\* The loop of hdlc_decode over the bytes of a frame.
TakesBy(u, body) ==
  /\ u[0] = Started
  /\ \A k \in 1 .. Len(body) : u[k] = Take(u[k - 1], body[k])
  /\ Unescaped(body) = u[Len(body)]

\* The loop of Unescaped, place by place.
LEMMA UnescapedRun ==
  ASSUME NEW body \in Seq(Byte)
  PROVE  \E u : TakesBy(u, body)
<1> DEFINE n == Len(body)
           step == [x \in State \X (1 .. n) |-> Take(x[1], body[x[2]])]
           h(g) == [k \in 0 .. Len(body) |->
                      IF k = 0 THEN [escape |-> FALSE, bad |-> FALSE, out |-> <<>>]
                               ELSE Take(g[k - 1], body[k])]
           u == CHOOSE g : g = h(g)
<1>1. n \in Nat /\ \A k \in 1 .. n : body[k] \in Byte
  BY LenProperties, ElementOfSeq
<1>2. step \in [State \X (1 .. n) -> State]
  BY <1>1, TakeType
<1>3. PICK g \in [0 .. n -> State] :
        g[0] = Started /\ \A k \in 1 .. n : g[k] = step[<<g[k - 1], k>>]
  <2>1. Started \in State
    BY DEF Started, State
  <2>2. \E g \in [0 .. n -> State] : Iterates(g, n, Started, step)
    <3> HIDE DEF step, n
    <3> QED
      BY <1>1, <1>2, <2>1, Iteration
  <2> QED
    BY <2>2 DEF Iterates
<1>4. \A k \in 1 .. n : g[k] = Take(g[k - 1], body[k])
  <2> TAKE k \in 1 .. n
  <2>1. k - 1 \in 0 .. n
    BY <1>1
  <2>2. <<g[k - 1], k>> \in State \X (1 .. n)
    BY <2>1
  <2> QED
    BY <1>3, <2>2
<1>5. g = h(g)
  <2>1. \A k \in 0 .. n : g[k] = IF k = 0 THEN Started ELSE Take(g[k - 1], body[k])
    <3> TAKE k \in 0 .. n
    <3>1. CASE k = 0
      BY <1>3, <3>1
    <3>2. CASE k # 0
      <4>1. k \in 1 .. n
        BY <1>1, <3>2
      <4> QED
        BY <1>4, <3>2, <4>1
    <3> QED
      BY <3>1, <3>2
  <2> QED
    BY <2>1 DEF Started
<1>6. u = h(u)
  BY <1>5, Zenon
<1>7. Unescaped(body) = u[Len(body)]
  BY Zenon DEF Unescaped
<1>8. u[0] = Started /\ \A k \in 1 .. n : u[k] = Take(u[k - 1], body[k])
  <2> HIDE DEF u
  <2>1. \A k \in 0 .. n : u[k] = IF k = 0 THEN Started ELSE Take(u[k - 1], body[k])
    BY <1>6 DEF Started
  <2>2. \A k \in 1 .. n : k \in 0 .. n /\ k # 0
    BY <1>1
  <2> QED
    BY <1>1, <2>1, <2>2
<1> QED
  <2> HIDE DEF u
  <2> QED
    BY <1>7, <1>8 DEF TakesBy

\* What the bytes of an escaped one do to the state.
LEMMA TakeCode ==
  ASSUME NEW b \in Byte, NEW o \in Seq(Byte), NEW state,
         state = [escape |-> FALSE, bad |-> FALSE, out |-> o]
  PROVE  LET after == [escape |-> FALSE, bad |-> FALSE, out |-> Append(o, b)]
         IN /\ Len(Code(b)) = 1 => Take(state, Code(b)[1]) = after
            /\ Len(Code(b)) = 2 => Take(Take(state, Code(b)[1]), Code(b)[2]) = after
<1>1. CASE InSendingAccm(b)
  <2>1. Code(b) = <<Escape, XorBit5(b)>>
    BY <1>1 DEF Code
  <2>2. Take(state, Escape) = [escape |-> TRUE, bad |-> FALSE, out |-> o]
    BY DEF Take
  <2>3. XorBit5(b) # Escape /\ XorBit5(XorBit5(b)) = b
    BY <1>1, XorBit5Facts
  <2>4. Take([escape |-> TRUE, bad |-> FALSE, out |-> o], XorBit5(b))
          = [escape |-> FALSE, bad |-> FALSE, out |-> Append(o, b)]
    BY <2>3 DEF Take
  <2> QED
    BY <2>1, <2>2, <2>4
<1>2. CASE ~InSendingAccm(b)
  <2>1. Code(b) = <<b>> /\ b # Escape /\ ~(b < 32)
    BY <1>2 DEF Code, InSendingAccm, Escape, Byte
  <2>2. Take(state, b) = [escape |-> FALSE, bad |-> FALSE, out |-> Append(o, b)]
    BY <2>1 DEF Take
  <2> QED
    BY <2>1, <2>2
<1> QED
  BY <1>1, <1>2

\* The values of the loop of the encoder are beginnings of one another.
LEMMA EscapesGrow ==
  ASSUME NEW s \in Seq(Byte), NEW f, EscapesBy(f, s), NEW k \in 0 .. Len(s)
  PROVE  /\ Len(f[k]) \in Nat /\ Len(f[k]) <= Len(Escaped(s))
         /\ \A j \in 1 .. Len(f[k]) : Escaped(s)[j] = f[k][j]
<1>1. Len(s) \in Nat /\ \A m \in 1 .. Len(s) : s[m] \in Byte
  BY LenProperties, ElementOfSeq
<1> DEFINE Begins(m) == /\ Len(f[k]) <= Len(f[m])
                        /\ \A j \in 1 .. Len(f[k]) : f[m][j] = f[k][j]
           T == {m \in Nat : k <= m /\ m <= Len(s) => Begins(m)}
<1>2. Len(f[k]) \in Nat
  BY LenProperties DEF EscapesBy
<1>3. 0 \in T
  BY <1>2
<1>4. ASSUME NEW m \in Nat, m \in T PROVE m + 1 \in T
  <2> SUFFICES ASSUME k <= m + 1, m + 1 <= Len(s) PROVE Begins(m + 1)
    OBVIOUS
  <2>1. CASE k = m + 1
    BY <1>2, <2>1
  <2>2. CASE k <= m
    <3>1. m + 1 \in 1 .. Len(s) /\ m \in 0 .. Len(s) /\ (m + 1) - 1 = m
      BY <1>1
    <3>2. f[m] \in Seq(Byte) /\ f[m + 1] = f[(m + 1) - 1] \o Code(s[m + 1])
      BY <3>1 DEF EscapesBy
    <3>3. Begins(m)
      BY <1>1, <1>4, <2>2
    <3>4. Code(s[m + 1]) \in Seq(Byte)
      BY <1>1, <3>1, CodeFacts
    <3>5. /\ Len(f[m]) \in Nat /\ Len(f[m]) <= Len(f[m + 1])
          /\ \A j \in 1 .. Len(f[m]) : f[m + 1][j] = f[m][j]
      <4> DEFINE c == Code(s[m + 1])
      <4> HIDE DEF c
      <4>1. c \in Seq(Byte) /\ Len(c) \in Nat /\ f[m + 1] = f[m] \o c
        BY <3>1, <3>2, <3>4, LenProperties DEF c
      <4>2. /\ Len(f[m]) \in Nat /\ Len(f[m] \o c) = Len(f[m]) + Len(c)
            /\ \A j \in 1 .. Len(f[m]) + Len(c) :
                 (f[m] \o c)[j] = IF j <= Len(f[m]) THEN f[m][j] ELSE c[j - Len(f[m])]
        BY <3>2, <4>1, ConcatProperties, LenProperties
      <4>3. \A j \in 1 .. Len(f[m]) : j \in 1 .. Len(f[m]) + Len(c) /\ j <= Len(f[m])
        BY <4>1, <4>2
      <4> QED
        BY <4>1, <4>2, <4>3
    <3>6. \A j \in 1 .. Len(f[k]) : j \in 1 .. Len(f[m])
      BY <1>2, <3>3, <3>5
    <3> QED
      BY <1>2, <3>3, <3>5, <3>6
  <2> QED
    BY <2>1, <2>2
<1>5. \A m \in Nat : m \in T
  <2> HIDE DEF T
  <2> QED
    BY <1>3, <1>4, SetInduction
<1>6. Begins(Len(s)) /\ Escaped(s) = f[Len(s)]
  BY <1>1, <1>5 DEF EscapesBy
<1> QED
  BY <1>2, <1>6

\* hdlc_decode undoes what hdlc_encode did.
LEMMA UnescapedInverse ==
  ASSUME NEW s \in Seq(Byte)
  PROVE  Unescaped(Escaped(s)) = [escape |-> FALSE, bad |-> FALSE, out |-> s]
<1> DEFINE e == Escaped(s)
<1>1. PICK f : EscapesBy(f, s)
  BY EscapedRun
<1>2. PICK u : TakesBy(u, e)
  BY EscapedFacts, UnescapedRun
<1>3. Len(s) \in Nat /\ \A k \in 1 .. Len(s) : s[k] \in Byte
  BY LenProperties, ElementOfSeq
<1>4. \A k \in 1 .. Len(e) : u[k] = Take(u[k - 1], e[k])
  BY <1>2 DEF TakesBy
<1> HIDE DEF e
<1> DEFINE After(k) == [escape |-> FALSE, bad |-> FALSE, out |-> SubSeq(s, 1, k)]
           T == {k \in Nat : k <= Len(s) => u[Len(f[k])] = After(k)}
<1>5. 0 \in T
  <2>1. f[0] = <<>> /\ u[0] = Started
    BY <1>1, <1>2 DEF EscapesBy, TakesBy
  <2>2. SubSeq(s, 1, 0) = <<>> /\ Len(<<>>) = 0
    BY SubSeqEmpty
  <2> QED
    BY <2>1, <2>2 DEF Started
<1>6. ASSUME NEW k \in Nat, k \in T PROVE k + 1 \in T
  <2> SUFFICES ASSUME k + 1 <= Len(s) PROVE u[Len(f[k + 1])] = After(k + 1)
    OBVIOUS
  <2> DEFINE b == s[k + 1]
             c == Code(b)
             l == Len(f[k])
  <2>1. k + 1 \in 1 .. Len(s) /\ k \in 0 .. Len(s) /\ k + 1 \in 0 .. Len(s) /\ (k + 1) - 1 = k
    BY <1>3
  <2>2. b \in Byte /\ u[l] = After(k)
    BY <1>3, <1>6, <2>1
  <2>3. c \in Seq(Byte) /\ Len(c) \in {1, 2}
    BY <2>2, CodeFacts
  <2>4. f[k] \in Seq(Byte) /\ f[k + 1] = f[k] \o c
    <3>1. f[k] \in Seq(Byte) /\ f[k + 1] = f[(k + 1) - 1] \o c
      BY <1>1, <2>1 DEF EscapesBy
    <3> QED
      BY <2>1, <3>1
  <2>5. /\ l \in Nat /\ Len(f[k + 1]) = l + Len(c)
        /\ \A j \in 1 .. Len(c) : f[k + 1][l + j] = c[j]
    <3> HIDE DEF c
    <3>1. /\ l \in Nat /\ Len(f[k + 1]) = l + Len(c)
          /\ \A j \in 1 .. l + Len(c) : f[k + 1][j] = IF j <= l THEN f[k][j] ELSE c[j - l]
      BY <2>3, <2>4, ConcatProperties, LenProperties
    <3>2. ASSUME NEW j \in 1 .. Len(c) PROVE f[k + 1][l + j] = c[j]
      <4>1. l + j \in 1 .. l + Len(c) /\ ~(l + j <= l) /\ (l + j) - l = j
        BY <2>3, <3>1
      <4> QED
        BY <3>1, <4>1
    <3> QED
      BY <3>1, <3>2
  <2>6. Len(f[k + 1]) <= Len(e) /\ \A j \in 1 .. Len(f[k + 1]) : e[j] = f[k + 1][j]
    BY <1>1, <2>1, EscapesGrow DEF e
  <2>7. Len(e) \in Nat
    BY EscapedFacts, LenProperties DEF e
  <2>8. \A j \in 1 .. Len(c) : e[l + j] = c[j] /\ u[l + j] = Take(u[(l + j) - 1], c[j])
    <3> HIDE DEF c, l
    <3> TAKE j \in 1 .. Len(c)
    <3>1. l + j \in 1 .. Len(f[k + 1]) /\ l + j \in 1 .. Len(e)
      BY <2>3, <2>5, <2>6, <2>7
    <3> QED
      BY <1>4, <2>5, <2>6, <3>1
  <2>9. Append(SubSeq(s, 1, k), b) = SubSeq(s, 1, k + 1) /\ SubSeq(s, 1, k) \in Seq(Byte)
    BY <2>1, <1>3, SubSeqRecursiveSecond, SubSeqProperties
  <2>10. CASE Len(c) = 1
    <3>1. Take(u[l], c[1]) = After(k + 1)
      BY <2>2, <2>9, <2>10, TakeCode
    <3>2. u[l + 1] = Take(u[l], c[1])
      <4> HIDE DEF c, l
      <4>1. 1 \in 1 .. Len(c) /\ (l + 1) - 1 = l
        BY <2>5, <2>10
      <4> QED
        BY <2>8, <4>1
    <3> QED
      BY <2>5, <2>10, <3>1, <3>2
  <2>11. CASE Len(c) = 2
    <3>1. Take(Take(u[l], c[1]), c[2]) = After(k + 1)
      BY <2>2, <2>9, <2>11, TakeCode
    <3>2. u[l + 1] = Take(u[l], c[1]) /\ u[l + 2] = Take(u[l + 1], c[2])
      <4> HIDE DEF c, l
      <4>1. /\ 1 \in 1 .. Len(c) /\ 2 \in 1 .. Len(c)
            /\ (l + 1) - 1 = l /\ (l + 2) - 1 = l + 1
        BY <2>5, <2>11
      <4>2. u[l + 1] = Take(u[(l + 1) - 1], c[1]) /\ u[l + 2] = Take(u[(l + 2) - 1], c[2])
        BY <2>8, <4>1
      <4> QED
        BY <4>1, <4>2
    <3> QED
      BY <2>5, <2>11, <3>1, <3>2
  <2> QED
    BY <2>3, <2>10, <2>11
<1>7. \A k \in Nat : k \in T
  <2> HIDE DEF T
  <2> QED
    BY <1>5, <1>6, SetInduction
<1>8. u[Len(f[Len(s)])] = After(Len(s)) /\ e = f[Len(s)] /\ Unescaped(e) = u[Len(e)]
  <2>1. u[Len(f[Len(s)])] = After(Len(s))
    BY <1>3, <1>7
  <2>2. e = f[Len(s)]
    BY <1>1 DEF EscapesBy, e
  <2>3. Unescaped(e) = u[Len(e)]
    BY <1>2 DEF TakesBy
  <2> QED
    BY <2>1, <2>2, <2>3
<1>9. SubSeq(s, 1, Len(s)) = s
  BY SubSeqFull
<1> QED
  BY <1>8, <1>9 DEF e

-----------------------------------------------------------------------------
(* Frames *)

\* The places of two sequences put together, and parts of a sequence.
LEMMA Joined ==
  ASSUME NEW a \in Seq(Byte), NEW b \in Seq(Byte)
  PROVE  /\ a \o b \in Seq(Byte) /\ Len(a) \in Nat /\ Len(b) \in Nat
         /\ Len(a \o b) = Len(a) + Len(b)
         /\ \A j \in 1 .. Len(a) : (a \o b)[j] = a[j]
         /\ \A j \in 1 .. Len(b) : (a \o b)[Len(a) + j] = b[j]
<1>1. a \o b \in Seq(Byte) /\ Len(a) \in Nat /\ Len(b) \in Nat /\ Len(a \o b) = Len(a) + Len(b)
  OBVIOUS
<1>2. \A j \in 1 .. Len(a) : (a \o b)[j] = a[j]
  OBVIOUS
<1>3. \A j \in 1 .. Len(b) : (a \o b)[Len(a) + j] = b[j]
  OBVIOUS
<1> QED
  BY <1>1, <1>2, <1>3

LEMMA ThreeParts ==
  ASSUME NEW a \in Seq(Byte), NEW b \in Seq(Byte), NEW c \in Seq(Byte)
  PROVE  (a \o b) \o c = a \o (b \o c)
BY ConcatAssociative

LEMMA Beginning ==
  ASSUME NEW s \in Seq(Byte), NEW n \in 0 .. Len(s)
  PROVE  LET t == SubSeq(s, 1, n)
         IN t \in Seq(Byte) /\ Len(t) = n /\ \A j \in 1 .. n : t[j] = s[j]
OBVIOUS

LEMMA Part ==
  ASSUME NEW s \in Seq(Byte), NEW m \in 1 .. Len(s) + 1
  PROVE  LET t == SubSeq(s, m, Len(s))
         IN /\ t \in Seq(Byte) /\ Len(t) = Len(s) - m + 1
            /\ \A j \in 1 .. Len(s) - m + 1 : t[j] = s[m + j - 1]
OBVIOUS

LEMMA SameBytes ==
  ASSUME NEW a \in Seq(Byte), NEW b \in Seq(Byte), Len(a) = Len(b),
         \A j \in 1 .. Len(a) : a[j] = b[j]
  PROVE  a = b
BY SeqEqual

LEMMA BeginningOfJoined ==
  ASSUME NEW a \in Seq(Byte), NEW b \in Seq(Byte)
  PROVE  SubSeq(a \o b, 1, Len(a)) = a /\ SubSeq(a \o b, Len(a) + 1, Len(a \o b)) = b
<1> DEFINE s == a \o b
<1>1. /\ s \in Seq(Byte) /\ Len(a) \in Nat /\ Len(b) \in Nat /\ Len(s) = Len(a) + Len(b)
      /\ \A j \in 1 .. Len(a) : s[j] = a[j]
      /\ \A j \in 1 .. Len(b) : s[Len(a) + j] = b[j]
  BY Joined
<1> HIDE DEF s
<1>2. SubSeq(s, 1, Len(a)) = a
  <2>1. Len(a) \in 0 .. Len(s)
    BY <1>1
  <2>2. /\ SubSeq(s, 1, Len(a)) \in Seq(Byte) /\ Len(SubSeq(s, 1, Len(a))) = Len(a)
        /\ \A j \in 1 .. Len(a) : SubSeq(s, 1, Len(a))[j] = a[j]
    BY <1>1, <2>1, Beginning
  <2> QED
    BY <2>2, SameBytes
<1>3. SubSeq(s, Len(a) + 1, Len(s)) = b
  <2> DEFINE m == Len(a) + 1
             t == SubSeq(s, m, Len(s))
  <2>1. m \in 1 .. Len(s) + 1 /\ Len(s) - m + 1 = Len(b)
    BY <1>1
  <2>2. /\ t \in Seq(Byte) /\ Len(t) = Len(b)
        /\ \A j \in 1 .. Len(b) : t[j] = s[m + j - 1]
    <3> HIDE DEF m
    <3>1. /\ t \in Seq(Byte) /\ Len(t) = Len(s) - m + 1
          /\ \A j \in 1 .. Len(s) - m + 1 : t[j] = s[m + j - 1]
      BY <1>1, <2>1, Part
    <3> HIDE DEF t
    <3> QED
      BY <2>1, <3>1
  <2>3. \A j \in 1 .. Len(b) : m + j - 1 = Len(a) + j
    BY <1>1
  <2>4. \A j \in 1 .. Len(b) : t[j] = b[j]
    <3> HIDE DEF t, m
    <3> QED
      BY <1>1, <2>2, <2>3
  <2> HIDE DEF t
  <2>5. t = b
    BY <2>2, <2>4, SameBytes
  <2> QED
    BY <2>5 DEF t
<1> QED
  BY <1>2, <1>3 DEF s


Body(p) == <<255, Escape, 35>> \o Escaped(p \o Fcs[p])

\* Whether a frame begins with a flag, as a number of bytes.
Flags(flag) == IF flag THEN 1 ELSE 0

\* A packet with its check sequence.
LEMMA PacketFacts ==
  ASSUME NEW p \in Packets
  PROVE  /\ p \in Seq(Byte) /\ Len(p) \in Nat /\ Len(p) >= 1 /\ 2 * Len(p) + 10 <= Capacity
         /\ Fcs[p] \in Seq(Byte) /\ Len(Fcs[p]) = 2
         /\ p \o Fcs[p] \in Seq(Byte) /\ Len(p \o Fcs[p]) = Len(p) + 2
         /\ SubSeq(p \o Fcs[p], 1, Len(p)) = p
<1>1. p \in Seq(Byte) /\ p # <<>> /\ 2 * Len(p) + 10 <= Capacity
  BY HdlcAssumption
<1>2. Len(p) \in Nat /\ Len(p) >= 1
  BY <1>1, LenProperties, EmptySeq
<1>3. Fcs[p] \in Seq(Byte) /\ Len(Fcs[p]) = 2
  BY HdlcAssumption
<1>4. p \o Fcs[p] \in Seq(Byte) /\ Len(p \o Fcs[p]) = Len(p) + 2
  <2>1. p \o Fcs[p] \in Seq(Byte) /\ Len(p \o Fcs[p]) = Len(p) + Len(Fcs[p])
    BY <1>1, <1>3, Joined, Zenon
  <2> QED
    BY <1>3, <2>1
<1>5. SubSeq(p \o Fcs[p], 1, Len(p)) = p
  BY <1>1, <1>3, BeginningOfJoined
<1> QED
  BY <1>1, <1>2, <1>3, <1>4, <1>5

\* What is between the flags of a frame: at most two bytes for each of the packet,
\* and no flag.
LEMMA BodyFacts ==
  ASSUME NEW p \in Packets
  PROVE  /\ Body(p) \in Seq(Byte) /\ Len(Body(p)) \in Nat
         /\ Len(Body(p)) >= 6
         /\ Len(Body(p)) >= Len(p) + 5 /\ Len(Body(p)) <= 2 * Len(p) + 7
         /\ \A j \in 1 .. Len(Body(p)) : Body(p)[j] # Flag
         /\ SubSeq(Body(p), 1, 3) = <<255, Escape, 35>>
         /\ SubSeq(Body(p), 4, Len(Body(p))) = Escaped(p \o Fcs[p])
<1> DEFINE h == <<255, Escape, 35>>
           e == Escaped(p \o Fcs[p])
<1>1. h \in Seq(Byte) /\ Len(h) = 3 /\ \A j \in 1 .. 3 : h[j] # Flag
  BY DEF Byte, Escape, Flag
<1>2. /\ e \in Seq(Byte) /\ Len(e) \in Nat /\ \A j \in 1 .. Len(e) : e[j] # Flag
      /\ Len(e) >= 3 /\ Len(e) >= Len(p) + 2 /\ Len(e) <= 2 * Len(p) + 4
  <2>1. /\ p \o Fcs[p] \in Seq(Byte) /\ Len(p \o Fcs[p]) = Len(p) + 2
        /\ Len(p) \in Nat /\ Len(p) >= 1
    BY PacketFacts
  <2>2. /\ e \in Seq(Byte) /\ \A j \in 1 .. Len(e) : e[j] # Flag
        /\ Len(e) >= Len(p) + 2 /\ Len(e) <= 2 * (Len(p) + 2)
    BY <2>1, EscapedFacts
  <2>3. Len(e) \in Nat
    BY <2>2, LenProperties
  <2> HIDE DEF e
  <2> QED
    BY <2>1, <2>2, <2>3
<1>3. Body(p) = h \o e
  BY DEF Body
<1> HIDE DEF h, e
<1>4. /\ Body(p) \in Seq(Byte) /\ Len(Body(p)) = 3 + Len(e)
      /\ \A j \in 1 .. 3 : Body(p)[j] = h[j]
      /\ \A j \in 1 .. Len(e) : Body(p)[3 + j] = e[j]
  <2>1. h \in Seq(Byte) /\ e \in Seq(Byte)
    BY <1>1, <1>2
  <2>2. /\ h \o e \in Seq(Byte) /\ Len(h \o e) = Len(h) + Len(e)
        /\ \A j \in 1 .. Len(h) : (h \o e)[j] = h[j]
        /\ \A j \in 1 .. Len(e) : (h \o e)[Len(h) + j] = e[j]
    BY <2>1, Joined, Zenon
  <2>3. Len(h) = 3
    BY <1>1
  <2> QED
    BY <1>3, <2>2, <2>3, Zenon
<1>5. ASSUME NEW j \in 1 .. Len(Body(p)) PROVE Body(p)[j] # Flag
  <2>1. CASE j <= 3
    <3>1. j \in 1 .. 3
      BY <2>1
    <3> QED
      BY <1>1, <1>4, <3>1
  <2>2. CASE j > 3
    <3>1. j - 3 \in 1 .. Len(e) /\ 3 + (j - 3) = j
      BY <1>2, <1>4, <2>2
    <3> QED
      BY <1>2, <1>4, <3>1
  <2> QED
    BY <2>1, <2>2, <1>2, <1>4
<1>6. SubSeq(Body(p), 1, 3) = h /\ SubSeq(Body(p), 4, Len(Body(p))) = e
  <2>1. h \in Seq(Byte) /\ e \in Seq(Byte) /\ Len(h) = 3
    BY <1>1, <1>2
  <2>2. SubSeq(h \o e, 1, Len(h)) = h /\ SubSeq(h \o e, Len(h) + 1, Len(h \o e)) = e
    BY <2>1, BeginningOfJoined
  <2> QED
    <3>1. Len(h) + 1 = 4
      BY <2>1
    <3> QED
      BY <1>3, <2>1, <2>2, <3>1, Zenon
<1>8. /\ Len(Body(p)) \in Nat /\ Len(Body(p)) >= 6
      /\ Len(Body(p)) >= Len(p) + 5 /\ Len(Body(p)) <= 2 * Len(p) + 7
  BY <1>2, <1>4, PacketFacts
<1> QED
  BY <1>4, <1>5, <1>6, <1>8 DEF h, e

\* A frame is the flag that may open it, its body, and the flag that ends it.
LEMMA FrameFacts ==
  ASSUME NEW p \in Packets, NEW flag \in BOOLEAN
  PROVE  /\ Frame(p, flag) \in Seq(Byte)
         /\ Len(Frame(p, flag)) = Flags(flag) + Len(Body(p)) + 1
         /\ flag => Frame(p, flag)[1] = Flag
         /\ \A j \in 1 .. Len(Body(p)) : Frame(p, flag)[Flags(flag) + j] = Body(p)[j]
         /\ Frame(p, flag)[Flags(flag) + Len(Body(p)) + 1] = Flag
<1> DEFINE a == IF flag THEN <<Flag>> ELSE <<>>
           e == Escaped(p \o Fcs[p])
           h == <<255, Escape, 35>>
<1>1. /\ a \in Seq(Byte) /\ Len(a) = Flags(flag) /\ (flag => a[1] = Flag)
      /\ <<Flag>> \in Seq(Byte) /\ Len(<<Flag>>) = 1 /\ <<Flag>>[1] = Flag
      /\ h \in Seq(Byte) /\ e \in Seq(Byte)
  <2>1. e \in Seq(Byte)
    BY PacketFacts, EscapedFacts
  <2>2. h \in Seq(Byte) /\ Flag \in Byte
    BY DEF Byte, Escape, Flag
  <2>3. CASE flag
    BY <2>1, <2>2, <2>3 DEF Flags
  <2>4. CASE ~flag
    BY <2>1, <2>2, <2>4 DEF Flags
  <2> QED
    BY <2>3, <2>4
<1>2. Frame(p, flag) = ((a \o h) \o e) \o <<Flag>> /\ Body(p) = h \o e
  BY DEF Frame, Opening, Body
<1>3. Body(p) \in Seq(Byte) /\ Len(Body(p)) \in Nat
  BY BodyFacts
<1> DEFINE f == <<Flag>>
           b == Body(p)
<1> HIDE DEF a, e, h, f, b
<1>4. Frame(p, flag) = (a \o b) \o f
  <2>1. Frame(p, flag) = ((a \o h) \o e) \o f /\ b = h \o e
    BY <1>2 DEF f, b
  <2>2. (a \o h) \o e = a \o (h \o e)
    BY SMTT(30), <1>1, ConcatAssociative
  <2> QED
    BY <2>1, <2>2
<1>5. f \in Seq(Byte) /\ Len(f) = 1 /\ f[1] = Flag /\ b \in Seq(Byte) /\ Len(b) \in Nat
  BY <1>1, <1>3 DEF f, b
<1> DEFINE g == a \o b
<1>6. /\ g \in Seq(Byte) /\ Len(a) \in Nat /\ Len(g) = Len(a) + Len(b)
      /\ \A j \in 1 .. Len(a) : g[j] = a[j]
      /\ \A j \in 1 .. Len(b) : g[Len(a) + j] = b[j]
  BY ZenonT(40), <1>1, <1>5, Joined
<1> HIDE DEF g
<1>7. /\ g \o f \in Seq(Byte) /\ Len(g \o f) = Len(g) + Len(f)
      /\ \A j \in 1 .. Len(g) : (g \o f)[j] = g[j]
      /\ \A j \in 1 .. Len(f) : (g \o f)[Len(g) + j] = f[j]
  BY <1>5, <1>6, Joined
<1>8. Len(a) = Flags(flag)
  BY <1>1
<1>9. ASSUME flag PROVE (g \o f)[1] = Flag
  <2>1. Len(a) = 1
    BY <1>8, <1>9 DEF Flags
  <2>2. 1 \in 1 .. Len(g) /\ 1 \in 1 .. Len(a)
    BY <2>1, <1>5, <1>6
  <2> QED
    BY <1>1, <1>6, <1>7, <1>9, <2>2
<1>10. ASSUME NEW j \in 1 .. Len(b) PROVE (g \o f)[Len(a) + j] = b[j]
  <2>1. Len(a) \in Nat /\ Len(b) \in Nat /\ Len(g) = Len(a) + Len(b)
    BY <1>5, <1>6
  <2>2. Len(a) + j \in 1 .. Len(g)
    BY <2>1
  <2> QED
    BY <1>6, <1>7, <2>2
<1>11. (g \o f)[Len(a) + Len(b) + 1] = Flag
  <2>1. 1 \in 1 .. Len(f)
    BY <1>5
  <2> QED
    BY <1>5, <1>6, <1>7, <2>1
<1>12. Len(g \o f) = Len(a) + Len(b) + 1
  BY <1>5, <1>6, <1>7
<1>13. Frame(p, flag) = g \o f
  BY <1>4 DEF g
<1> QED
  BY <1>7, <1>8, <1>9, <1>10, <1>11, <1>12, <1>13 DEF b

\* hdlc_decode gives the packet back.
THEOREM Decoded ==
  ASSUME NEW p \in Packets
  PROVE  Decode(Body(p)).ok /\ Decode(Body(p)).packet = p
<1> DEFINE b == Body(p)
           q == p \o Fcs[p]
<1>1. /\ SubSeq(b, 1, 3) = <<255, Escape, 35>> /\ SubSeq(b, 4, Len(b)) = Escaped(q)
      /\ Len(b) \in Nat /\ Len(b) >= 6 /\ Len(b) >= Len(p) + 5
  BY BodyFacts
<1>2. Unescaped(Escaped(q)) = [escape |-> FALSE, bad |-> FALSE, out |-> q]
  BY PacketFacts, UnescapedInverse
<1>3. Len(q) = Len(p) + 2 /\ SubSeq(q, 1, Len(q) - 2) = p /\ Len(p) \in Nat /\ Len(p) >= 1
  BY PacketFacts
<1>4. Decode(b) = [ok |-> TRUE, packet |-> p]
  <2> HIDE DEF b, q
  <2>1. ~(Len(b) < 5) /\ ~(Len(q) < 3) /\ ~(Len(q) > Len(b))
    BY <1>1, <1>3
  <2>2. q = p \o Fcs[p]
    BY DEF q
  <2> DEFINE u == Unescaped(SubSeq(b, 4, Len(b)))
  <2>3. u.escape = FALSE /\ u.bad = FALSE /\ u.out = q
    <3>1. u = [escape |-> FALSE, bad |-> FALSE, out |-> q]
      BY <1>1, <1>2, Zenon
    <3> HIDE DEF u
    <3> QED
      BY <3>1
  <2> HIDE DEF u
  <2>4. ~(Len(b) < 5 \/ u.bad \/ u.escape \/ Len(u.out) < 3 \/ Len(u.out) > Len(b))
    BY <2>1, <2>3
  <2>5. SubSeq(u.out, 1, Len(u.out) - 2) = p /\ u.out = p \o Fcs[p]
    BY <1>3, <2>2, <2>3
  <2> QED
    BY <1>1, <2>4, <2>5, Zenon DEF Decode, u
<1> QED
  BY <1>4

\* The estimate of the size is enough for each check and for what is written.
LEMMA SizeSuffices ==
  ASSUME NEW p \in Packets, NEW flag \in BOOLEAN
  PROVE  /\ ~TooSmall(p, flag, EstimatedEncodedSize(Len(p)))
         /\ Len(Frame(p, flag)) <= EstimatedEncodedSize(Len(p))
<1>1. p \in Seq(Byte) /\ Len(p) \in Nat /\ Len(p) >= 1
  BY PacketFacts
<1>2. Len(Opening(p, flag)) \in {3, 4}
  <2>1. CASE flag
    BY <2>1 DEF Opening
  <2>2. CASE ~flag
    BY <2>2 DEF Opening
  <2> QED
    BY <2>1, <2>2
<1>3. ASSUME NEW k \in 0 .. Len(p)
      PROVE  Len(Opening(p, flag)) + Len(Escaped(SubSeq(p, 1, k)))
               + (IF k < Len(p) THEN 2 ELSE 3) <= 9 + 2 * Len(p)
  <2>1. SubSeq(p, 1, k) \in Seq(Byte) /\ Len(SubSeq(p, 1, k)) = k
    BY <1>1, Beginning
  <2>2. Len(Escaped(SubSeq(p, 1, k))) <= 2 * k /\ Len(Escaped(SubSeq(p, 1, k))) \in Nat
    BY <2>1, EscapedFacts, LenProperties
  <2> DEFINE e == Len(Escaped(SubSeq(p, 1, k)))
             o == Len(Opening(p, flag))
  <2> HIDE DEF e, o
  <2>3. e \in Nat /\ e <= 2 * k /\ o \in {3, 4}
    BY <1>2, <2>2 DEF e, o
  <2>4. o + e + (IF k < Len(p) THEN 2 ELSE 3) <= 9 + 2 * Len(p)
    BY <1>1, <2>3
  <2> QED
    BY <2>4 DEF e, o
<1>4. \A k \in 0 .. Len(p) :
        ~(9 + 2 * Len(p) < Len(Opening(p, flag)) + Len(Escaped(SubSeq(p, 1, k)))
                             + IF k < Len(p) THEN 2 ELSE 3)
  <2> TAKE k \in 0 .. Len(p)
  <2>1. Len(Escaped(SubSeq(p, 1, k))) \in Nat
    BY <1>1, Beginning, EscapedFacts, LenProperties
  <2> DEFINE e == Len(Escaped(SubSeq(p, 1, k)))
             o == Len(Opening(p, flag))
  <2>2. o + e + (IF k < Len(p) THEN 2 ELSE 3) <= 9 + 2 * Len(p) /\ e \in Nat /\ o \in {3, 4}
    BY <1>2, <1>3, <2>1
  <2> HIDE DEF e, o
  <2>3. ~(9 + 2 * Len(p) < o + e + IF k < Len(p) THEN 2 ELSE 3)
    BY <1>1, <2>2
  <2> QED
    BY <2>3 DEF e, o
<1>5. ~(9 + 2 * Len(p) < 7)
  BY <1>1
<1>6. ~TooSmall(p, flag, EstimatedEncodedSize(Len(p)))
  BY <1>4, <1>5 DEF TooSmall, EstimatedEncodedSize
<1>7. Len(Frame(p, flag)) <= 9 + 2 * Len(p)
  <2>1. Len(Frame(p, flag)) = Flags(flag) + Len(Body(p)) + 1 /\ Flags(flag) \in {0, 1}
    BY FrameFacts DEF Flags
  <2>2. Len(Body(p)) \in Nat /\ Len(Body(p)) <= 2 * Len(p) + 7
    BY BodyFacts
  <2> QED
    BY <1>1, <2>1, <2>2
<1> QED
  BY <1>6, <1>7 DEF EstimatedEncodedSize

-----------------------------------------------------------------------------
(* The stream between the encoder and the decoder *)

\* The frame of p lies behind the first from bytes of the stream and ends at to.
FrameAt(stream, from, to, p, flag) ==
  /\ from = 0 => flag
  /\ to = from + Len(Frame(p, flag)) /\ to <= Len(stream)
  /\ \A j \in 1 .. Len(Frame(p, flag)) : stream[from + j] = Frame(p, flag)[j]

\* The stream has the frames of the packets after the first m of s, one after the
\* other, each beginning where the one before it ends: the first at its start, or
\* after what the decoder has left there: a flag, or all of a frame it skipped.
Laid(stream, s, m, end) ==
  /\ end \in [m .. Len(s) -> Nat] /\ end[Len(s)] = Len(stream)
  /\ \A j \in 1 .. end[m] - 1 : stream[j] # Flag
  /\ end[m] # 0 => stream[end[m]] = Flag
  /\ \A i \in m + 1 .. Len(s) : \E flag \in BOOLEAN :
       FrameAt(stream, end[i - 1], end[i], s[i], flag)

\* The buffer from a place on is the beginning of the stream.
Begun(b, from, stream) ==
  /\ b \in Seq(Byte) /\ stream \in Seq(Byte) /\ from \in 1 .. Len(b) + 1
  /\ Len(b) - from + 1 <= Len(stream)
  /\ \A j \in 1 .. Len(b) - from + 1 : stream[j] = b[from + j - 1]

\* The first frame: flags from y to z and none before, then its bytes, then a flag.
FirstAt(stream, b, y, z, e) ==
  /\ \A j \in 1 .. y - 1 : stream[j] # Flag
  /\ \A j \in y .. z : stream[j] = Flag
  /\ \A j \in 1 .. Len(b) : stream[z + j] = b[j]
  /\ stream[z + Len(b) + 1] = Flag
  /\ e = z + Len(b) + 1 /\ e <= Len(stream)

\* Where it is.
LEMMA FirstLaid ==
  ASSUME NEW stream, NEW s \in Seq(Packets), NEW m \in Nat, m < Len(s), NEW end,
         Laid(stream, s, m, end)
  PROVE  /\ s[m + 1] \in Packets /\ end[m] \in Nat
         /\ \E y \in Nat \ {0} : \E z \in {y, y + 1} :
              /\ FirstAt(stream, Body(s[m + 1]), y, z, end[m + 1])
              /\ end[m] <= y /\ y <= end[m] + 1 /\ z <= end[m] + 1
<1> DEFINE p == s[m + 1]
           b == Body(p)
<1>1. Len(s) \in Nat /\ m + 1 \in m + 1 .. Len(s) /\ (m + 1) - 1 = m /\ p \in Packets
  BY LenProperties, ElementOfSeq
<1>2. PICK flag \in BOOLEAN : FrameAt(stream, end[m], end[m + 1], p, flag)
  BY <1>1 DEF Laid
<1>3. /\ end[m] \in Nat /\ \A j \in 1 .. end[m] - 1 : stream[j] # Flag
      /\ end[m] # 0 => stream[end[m]] = Flag
  <2>1. m \in m .. Len(s)
    BY <1>1
  <2> QED
    BY <2>1 DEF Laid
<1> DEFINE f == Frame(p, flag)
           o == Flags(flag)
           z == end[m] + o
           y == IF end[m] = 0 THEN 1 ELSE end[m]
           k == end[m]
<1>4. /\ Len(f) = o + Len(b) + 1 /\ (flag => f[1] = Flag) /\ o \in {0, 1} /\ (flag <=> o = 1)
      /\ \A j \in 1 .. Len(b) : f[o + j] = b[j]
      /\ f[o + Len(b) + 1] = Flag /\ Len(b) \in Nat
  <2>1. o \in {0, 1} /\ (flag <=> o = 1)
    BY DEF Flags
  <2>2. Len(b) \in Nat
    BY <1>1, BodyFacts
  <2> HIDE DEF p
  <2>3. /\ Len(f) = o + Len(b) + 1 /\ (flag => f[1] = Flag)
        /\ \A j \in 1 .. Len(b) : f[o + j] = b[j]
        /\ f[o + Len(b) + 1] = Flag
    BY <1>1, FrameFacts, Zenon
  <2> QED
    BY <2>1, <2>2, <2>3
<1>5. /\ end[m] = 0 => flag
      /\ end[m + 1] = end[m] + Len(f) /\ end[m + 1] <= Len(stream)
      /\ \A j \in 1 .. Len(f) : stream[end[m] + j] = f[j]
  BY <1>2 DEF FrameAt
<1> HIDE DEF p, b, f, o
<1>10. /\ k \in Nat /\ o \in {0, 1} /\ Len(b) \in Nat /\ Len(f) = o + Len(b) + 1
       /\ k = 0 => o = 1
       /\ end[m + 1] = k + Len(f)
  BY <1>3, <1>4, <1>5
<1>6. /\ y \in Nat \ {0} /\ z \in {y, y + 1} /\ end[m + 1] = z + Len(b) + 1
      /\ end[m] <= y /\ y <= end[m] + 1 /\ z <= end[m] + 1
  <2>1. y = (IF k = 0 THEN 1 ELSE k) /\ z = k + o
    OBVIOUS
  <2> HIDE DEF y, z, k
  <2>2. /\ y \in Nat \ {0} /\ z \in {y, y + 1} /\ end[m + 1] = z + Len(b) + 1
        /\ k <= y /\ y <= k + 1 /\ z <= k + 1
    BY <1>10, <2>1
  <2> QED
    BY <2>2 DEF k
<1>7. ASSUME NEW j \in y .. z PROVE stream[j] = Flag
  <2>1. CASE j <= end[m]
    <3>1. j = end[m] /\ end[m] # 0
      BY <1>3, <1>6, <2>1
    <3> QED
      BY <1>3, <3>1
  <2>2. CASE j > end[m]
    <3>1. flag /\ j = end[m] + 1 /\ 1 \in 1 .. Len(f)
      BY SMTT(30), <1>3, <1>4, <1>5, <1>6, <2>2
    <3> QED
      BY <1>4, <1>5, <3>1
  <2> QED
    BY <1>3, <1>6, <2>1, <2>2
<1>11. \A j \in 1 .. y - 1 : stream[j] # Flag
  BY <1>3, <1>6
<1>8. ASSUME NEW j \in 1 .. Len(b) PROVE stream[z + j] = b[j]
  <2>1. o + j \in 1 .. Len(f) /\ z + j = end[m] + (o + j)
    <3> HIDE DEF k
    <3>1. o + j \in 1 .. Len(f) /\ (k + o) + j = k + (o + j)
      BY <1>10
    <3> QED
      BY <3>1 DEF k
  <2> QED
    BY <1>4, <1>5, <2>1
<1>9. stream[z + Len(b) + 1] = Flag
  <2>1. o + Len(b) + 1 \in 1 .. Len(f) /\ z + Len(b) + 1 = end[m] + (o + Len(b) + 1)
    <3> HIDE DEF k
    <3>1. o + Len(b) + 1 \in 1 .. Len(f) /\ (k + o) + Len(b) + 1 = k + (o + Len(b) + 1)
      BY <1>10
    <3> QED
      BY <3>1 DEF k
  <2> QED
    BY <1>4, <1>5, <2>1
<1> HIDE DEF z, y
<1>12. FirstAt(stream, b, y, z, end[m + 1])
  BY <1>5, <1>6, <1>7, <1>8, <1>9, <1>11 DEF FirstAt
<1> QED
  BY <1>1, <1>3, <1>6, <1>12 DEF p, b

\* The frame that hdlc_find_frame finds is the first that the stream has: no flag is
\* inside it, and no byte of it is taken for one.
LEMMA FirstFound ==
  ASSUME NEW stream, NEW s \in Seq(Packets), NEW m \in Nat, m <= Len(s), NEW end,
         Laid(stream, s, m, end),
         NEW b, NEW from, Begun(b, from, stream),
         NEW first \in DOMAIN b, NEW last \in DOMAIN b, IsFrame(b, from, first, last)
  PROVE  /\ m < Len(s) /\ s[m + 1] \in Packets
         /\ SubSeq(b, first, last) = Body(s[m + 1])
         /\ last + 1 = from + end[m + 1] - 1 /\ end[m + 1] >= 1
<1>1. /\ Len(b) \in Nat /\ from \in Nat /\ from >= 1 /\ DOMAIN b = 1 .. Len(b)
      /\ first \in Nat /\ last \in Nat /\ first > from /\ first <= last /\ last < Len(b)
      /\ Len(stream) \in Nat /\ Len(s) \in Nat
  <2>1. /\ Len(b) \in Nat /\ DOMAIN b = 1 .. Len(b) /\ from \in 1 .. Len(b) + 1
        /\ Len(stream) \in Nat /\ Len(s) \in Nat
    BY LenProperties DEF Begun
  <2>2. first > from /\ last >= first /\ last < Len(b)
    BY DEF IsFrame
  <2> QED
    BY <2>1, <2>2
<1> DEFINE x(j) == b[from + j - 1]
           F == first - from + 1
           L == last - from + 1
           N == Len(b) - from + 1
<1>2. F \in Nat /\ L \in Nat /\ N \in Nat /\ 2 <= F /\ F <= L /\ L < N
  BY <1>1
<1>3. N <= Len(stream) /\ \A j \in 1 .. N : stream[j] = x(j)
  BY DEF Begun
<1>4. b[last + 1] = Flag /\ \A k \in first .. last : b[k] # Flag
  BY DEF IsFrame
<1>5. PICK g \in from .. first - 1 : /\ \A k \in from .. g - 1 : b[k] # Flag
                                     /\ \A k \in g .. first - 1 : b[k] = Flag
  BY DEF IsFrame
<1>6. x(L + 1) = Flag /\ (\A j \in F .. L : x(j) # Flag) /\ F \in F .. L
  <2>1. from + (L + 1) - 1 = last + 1
    BY <1>1
  <2>2. ASSUME NEW j \in F .. L PROVE from + j - 1 \in first .. last
    BY <1>1
  <2>3. F \in F .. L
    BY <1>2
  <2> HIDE DEF F, L
  <2> QED
    BY <1>4, <2>1, <2>2, <2>3
<1>7. m < Len(s)
  <2>1. CASE m = Len(s)
    \* A flag at the end of the stream opens nothing.
    <3>1. end[m] = Len(stream)
      BY <2>1 DEF Laid
    <3>2. \A j \in 1 .. Len(stream) - 1 : stream[j] # Flag
      BY <3>1 DEF Laid
    <3>6. g - from + 1 \in Nat /\ 1 <= g - from + 1 /\ g - from + 1 < F
      BY <1>1
    <3>7. Len(stream) \in Nat /\ N <= Len(stream)
      BY <1>1, <1>3
    <3>3. g - from + 1 \in 1 .. Len(stream) - 1 /\ g - from + 1 \in 1 .. N
      <4> DEFINE h == g - from + 1
      <4> HIDE DEF h, F, L, N
      <4>1. h \in 1 .. Len(stream) - 1 /\ h \in 1 .. N
        BY <1>2, <3>6, <3>7 DEF h
      <4> QED
        BY <4>1 DEF h
    <3>4. b[g] = Flag /\ from + (g - from + 1) - 1 = g
      BY <1>1, <1>5
    <3>5. stream[g - from + 1] = Flag
      BY <1>3, <3>3, <3>4
    <3> QED
      BY <3>2, <3>3, <3>5
  <2> QED
    BY <1>1, <2>1
<1> DEFINE B == Body(s[m + 1])
<1>8. s[m + 1] \in Packets /\ \E y \in Nat \ {0} : \E z \in {y, y + 1} :
        FirstAt(stream, B, y, z, end[m + 1])
  BY <1>7, FirstLaid
<1>9. PICK y \in Nat \ {0} : \E z \in {y, y + 1} : FirstAt(stream, B, y, z, end[m + 1])
  BY <1>8
<1>17. PICK z \in {y, y + 1} : FirstAt(stream, B, y, z, end[m + 1])
  BY <1>9
<1>18. /\ z \in Nat /\ y <= z
       /\ \A j \in 1 .. y - 1 : stream[j] # Flag
       /\ \A j \in y .. z : stream[j] = Flag
       /\ \A j \in 1 .. Len(B) : stream[z + j] = B[j]
       /\ stream[z + Len(B) + 1] = Flag
       /\ end[m + 1] = z + Len(B) + 1 /\ end[m + 1] <= Len(stream)
  BY <1>17 DEF FirstAt
<1>10. B \in Seq(Byte) /\ Len(B) \in Nat /\ Len(B) >= 6 /\ \A j \in 1 .. Len(B) : B[j] # Flag
  BY <1>8, BodyFacts
<1> HIDE DEF x, F, L, N, B
<1>20. z \in Nat /\ y \in Nat /\ Len(B) \in Nat /\ Len(B) >= 6
  BY <1>10, <1>18
<1>21. x(F) # Flag
  <2> HIDE DEF x
  <2> QED
    BY <1>6, Zenon
\* The flags that open the frame are those of the stream.
<1> DEFINE G == g - from + 1
<1>19. /\ G \in Nat /\ 1 <= G /\ G < F /\ from + G - 1 = g
       /\ \A j \in 1 .. G - 1 : x(j) # Flag
       /\ \A j \in G .. F - 1 : x(j) = Flag
  <2>1. G \in Nat /\ 1 <= G /\ G < F /\ from + G - 1 = g
    BY <1>1 DEF F
  <2>2. \A j \in 1 .. G - 1 : from + j - 1 \in from .. g - 1
    BY <1>1, <2>1
  <2>3. \A j \in G .. F - 1 : from + j - 1 \in g .. first - 1
    BY <1>1, <2>1 DEF F
  <2> HIDE DEF G
  <2> QED
    BY <1>5, <2>1, <2>2, <2>3 DEF x
<1> HIDE DEF G
<1>11. G = y
  <2>1. CASE G < y
    <3>1. G \in 1 .. y - 1 /\ G \in 1 .. N /\ G \in G .. F - 1
      BY <1>2, <1>19, <2>1
    <3> QED
      BY <1>3, <1>18, <1>19, <3>1
  <2>2. CASE G > y
    <3>1. y \in 1 .. G - 1 /\ y \in 1 .. N /\ y \in y .. z
      BY <1>2, <1>18, <1>19, <2>2
    <3> QED
      BY <1>3, <1>18, <1>19, <3>1
  <2> QED
    BY <1>19, <2>1, <2>2
<1>13. F = z + 1
  <2>1. CASE F <= z
    <3>1. F \in y .. z /\ F \in 1 .. N
      BY <1>2, <1>11, <1>18, <1>19, <2>1
    <3>2. stream[F] = Flag /\ stream[F] = x(F)
      BY <1>3, <1>18, <3>1
    <3> QED
      BY <1>21, <3>2
  <2>2. CASE F > z + 1
    <3>1. z + 1 \in G .. F - 1 /\ z + 1 \in 1 .. N /\ 1 \in 1 .. Len(B)
      <4>1. y <= z
        BY <1>18
      <4> QED
        BY <1>2, <1>11, <1>20, <2>2, <4>1
    <3> QED
      BY SMTT(30), <1>3, <1>10, <1>18, <1>19, <3>1
  <2>3. F \in Int /\ z \in Int
    BY <1>2, <1>20
  <2> QED
    BY <2>1, <2>2, <2>3
<1>14. L = z + Len(B)
  <2>1. CASE L < z + Len(B)
    <3>1. /\ L + 1 \in 1 .. N /\ (L + 1) - z \in 1 .. Len(B) /\ z + ((L + 1) - z) = L + 1
      BY <1>2, <1>10, <1>13, <1>18, <2>1
    <3>2. x(L + 1) = Flag /\ stream[L + 1] = x(L + 1)
      BY <1>3, <1>6, <3>1
    <3>3. stream[L + 1] = B[(L + 1) - z] /\ B[(L + 1) - z] # Flag
      BY <1>10, <1>18, <3>1
    <3> QED
      BY <3>2, <3>3
  <2>2. CASE L > z + Len(B)
    <3>1. z + Len(B) + 1 \in F .. L /\ z + Len(B) + 1 \in 1 .. N
      BY <1>2, <1>13, <1>20, <2>2
    <3>2. stream[z + Len(B) + 1] = x(z + Len(B) + 1)
      BY <1>3, <3>1
    <3>3. x(z + Len(B) + 1) # Flag
      BY <1>6, <3>1, Zenon
    <3> QED
      BY <1>18, <3>2, <3>3
  <2> QED
    BY <1>2, <1>20, <2>1, <2>2
<1>15. last + 1 = from + end[m + 1] - 1 /\ end[m + 1] >= 1
  <2>1. end[m + 1] = z + Len(B) + 1 /\ Len(B) \in Nat /\ z \in Nat
    BY <1>10, <1>18
  <2>2. last - from + 1 = z + Len(B) /\ last \in Nat /\ from \in Nat
    BY <1>1, <1>14 DEF L
  <2> QED
    BY SMTT(30), <2>1, <2>2
<1>16. SubSeq(b, first, last) = B
  <2> DEFINE t == SubSeq(b, first, last)
  <2>1. last - first + 1 = Len(B) /\ first <= last
    <3>1. first - from + 1 = z + 1 /\ last - from + 1 = z + Len(B)
      BY <1>13, <1>14 DEF F, L
    <3>2. first \in Nat /\ last \in Nat /\ from \in Nat /\ first <= last
      BY <1>1
    <3>3. Len(B) \in Nat /\ z \in Nat
      BY <1>10, <1>18
    <3> QED
      BY ONLY SMTT(30), <3>1, <3>2, <3>3
  <2>2. /\ t \in Seq(Byte) /\ Len(t) = last - first + 1
        /\ \A j \in 1 .. last - first + 1 : t[j] = b[first + j - 1]
    <3>1. \A k \in first .. last : k \in 1 .. Len(b)
      BY <1>1
    <3>2. \A k \in first .. last : b[k] \in Byte
      BY <3>1, ElementOfSeq DEF Begun
    <3>3. b \in Seq(Byte) /\ first \in Int /\ last \in Int /\ first <= last
      BY <1>1 DEF Begun
    <3> QED
      BY SMTT(30), <3>2, <3>3, SubSeqProperties
  <2>3. ASSUME NEW j \in 1 .. Len(B) PROVE t[j] = B[j]
    <3>1. /\ first + j - 1 = from + (z + j) - 1 /\ z + j \in 1 .. N
          /\ j \in 1 .. last - first + 1
      <4>1. /\ z \in Nat /\ Len(B) \in Nat /\ first \in Nat /\ from \in Nat
            /\ first - from + 1 = z + 1 /\ z + Len(B) < N /\ N \in Nat
        BY <1>1, <1>2, <1>10, <1>13, <1>14, <1>18 DEF F
      <4>2. last \in Nat /\ j \in Nat /\ 1 <= j /\ j <= Len(B)
        BY <1>1, <4>1
      <4>3. j \in 1 .. last - first + 1
        BY <2>1, <4>1, <4>2
      <4>4. z + j \in 1 .. N
        BY <4>1, <4>2
      <4>5. first + j - 1 = from + (z + j) - 1
        <5>1. first = from + z
          BY SMTT(30), <4>1
        <5> QED
          BY <4>1, <4>2, <5>1
      <4> QED
        BY <4>3, <4>4, <4>5
    <3>2. t[j] = x(z + j)
      BY <2>2, <3>1 DEF x
    <3> QED
      BY <1>3, <1>18, <3>1, <3>2
  <2> HIDE DEF t
  <2>4. t = B
    BY <1>10, <2>1, <2>2, <2>3, SameBytes
  <2> QED
    BY <2>4 DEF t
<1> QED
  BY <1>7, <1>8, <1>15, <1>16 DEF B

\* A frame that the buffer has as a whole is found.
LEMMA CompleteFound ==
  ASSUME NEW stream, NEW s \in Seq(Packets), NEW m \in Nat, m < Len(s), NEW end,
         Laid(stream, s, m, end),
         NEW b, NEW from, Begun(b, from, stream),
         end[m + 1] <= Len(b) - from + 1
  PROVE  \E first, last \in DOMAIN b : IsFrame(b, from, first, last)
<1> DEFINE B == Body(s[m + 1])
<1>1. Len(b) \in Nat /\ from \in Nat /\ from >= 1 /\ DOMAIN b = 1 .. Len(b)
  <2>1. Len(b) \in Nat /\ DOMAIN b = 1 .. Len(b) /\ from \in 1 .. Len(b) + 1
    BY LenProperties DEF Begun
  <2> QED
    BY <2>1
<1>2. s[m + 1] \in Packets /\ \E y \in Nat \ {0} : \E z \in {y, y + 1} :
        FirstAt(stream, B, y, z, end[m + 1])
  BY FirstLaid
<1>13. PICK y \in Nat \ {0} : \E z \in {y, y + 1} : FirstAt(stream, B, y, z, end[m + 1])
  BY <1>2
<1>14. PICK z \in {y, y + 1} : FirstAt(stream, B, y, z, end[m + 1])
  BY <1>13
<1>3. /\ z \in Nat /\ y <= z
      /\ \A j \in 1 .. y - 1 : stream[j] # Flag
      /\ \A j \in y .. z : stream[j] = Flag
      /\ \A j \in 1 .. Len(B) : stream[z + j] = B[j]
      /\ stream[z + Len(B) + 1] = Flag
      /\ end[m + 1] = z + Len(B) + 1 /\ end[m + 1] <= Len(stream)
  BY <1>14 DEF FirstAt
<1>4. Len(B) \in Nat /\ Len(B) >= 6 /\ \A j \in 1 .. Len(B) : B[j] # Flag
  BY <1>2, BodyFacts
<1> HIDE DEF B
<1> DEFINE first == from + z
           last == from + z + Len(B) - 1
           g == from + y - 1
<1>5. z + Len(B) + 1 <= Len(b) - from + 1
  BY <1>3
<1>6. \A j \in 1 .. z + Len(B) + 1 : stream[j] = b[from + j - 1]
  <2>1. \A j \in 1 .. z + Len(B) + 1 : j \in 1 .. Len(b) - from + 1
    BY <1>1, <1>3, <1>4, <1>5
  <2> QED
    BY <2>1 DEF Begun
<1>7. /\ first \in 1 .. Len(b) /\ last \in 1 .. Len(b)
      /\ first > from /\ last >= first /\ last < Len(b)
  BY <1>1, <1>3, <1>4, <1>5
<1>8. ASSUME NEW k \in g .. first - 1 PROVE b[k] = Flag
  <2>1. /\ k - from + 1 \in y .. z /\ k - from + 1 \in 1 .. z + Len(B) + 1
        /\ from + (k - from + 1) - 1 = k
    BY <1>1, <1>3, <1>4
  <2> QED
    BY <1>3, <1>6, <2>1
<1>9. ASSUME NEW k \in first .. last PROVE b[k] # Flag
  <2>1. /\ k - first + 1 \in 1 .. Len(B) /\ z + (k - first + 1) \in 1 .. z + Len(B) + 1
        /\ from + (z + (k - first + 1)) - 1 = k
    BY <1>1, <1>3, <1>4
  <2> DEFINE j == k - first + 1
  <2>2. j \in 1 .. Len(B) /\ b[k] = stream[z + j]
    <3>1. z + j \in 1 .. z + Len(B) + 1 /\ from + (z + j) - 1 = k
      BY <2>1
    <3> HIDE DEF j
    <3> QED
      BY <1>6, <2>1, <3>1 DEF j
  <2> HIDE DEF j
  <2> QED
    BY <1>3, <1>4, <2>2
<1>10. b[last + 1] = Flag
  <2>1. z + Len(B) + 1 \in 1 .. z + Len(B) + 1 /\ from + (z + Len(B) + 1) - 1 = last + 1
    BY <1>1, <1>3, <1>4
  <2> QED
    BY <1>3, <1>6, <2>1
<1>11. g \in from .. first - 1
  BY <1>1, <1>3
<1>15. ASSUME NEW k \in from .. g - 1 PROVE b[k] # Flag
  <2>1. /\ k - from + 1 \in 1 .. y - 1 /\ k - from + 1 \in 1 .. z + Len(B) + 1
        /\ from + (k - from + 1) - 1 = k
    BY <1>1, <1>3, <1>4
  <2> QED
    BY <1>3, <1>6, <2>1
<1> HIDE DEF first, last, g
<1>12. IsFrame(b, from, first, last)
  BY <1>7, <1>8, <1>9, <1>10, <1>11, <1>15 DEF IsFrame
<1> QED
  BY <1>1, <1>7, <1>12

\* A frame more at the end of the stream.
LEMMA LaidAppend ==
  ASSUME NEW stream \in Seq(Byte), NEW s \in Seq(Packets), NEW m \in Nat, m <= Len(s),
         NEW end, Laid(stream, s, m, end), NEW p \in Packets, NEW flag \in BOOLEAN,
         Len(stream) = 0 => flag
  PROVE  \E grown : /\ Laid(stream \o Frame(p, flag), Append(s, p), m, grown)
                    /\ \A i \in m .. Len(s) : grown[i] = end[i]
                    /\ grown[Len(s) + 1] = Len(stream \o Frame(p, flag))
<1> DEFINE f == Frame(p, flag)
           t == stream \o f
           u == Append(s, p)
           grown == [i \in m .. Len(s) + 1 |-> IF i <= Len(s) THEN end[i] ELSE Len(t)]
<1>1. f \in Seq(Byte) /\ Len(f) \in Nat /\ Len(f) >= 1
  <2>1. f \in Seq(Byte) /\ Len(f) = Flags(flag) + Len(Body(p)) + 1
    BY FrameFacts
  <2>2. Len(Body(p)) \in Nat /\ Flags(flag) \in Nat
    BY BodyFacts DEF Flags
  <2> QED
    BY <2>1, <2>2
<1> HIDE DEF f
<1>2. /\ t \in Seq(Byte) /\ Len(t) = Len(stream) + Len(f) /\ Len(stream) \in Nat
      /\ \A j \in 1 .. Len(stream) : t[j] = stream[j]
      /\ \A j \in 1 .. Len(f) : t[Len(stream) + j] = f[j]
  BY <1>1, Joined
<1> HIDE DEF t
<1>3. /\ Len(s) \in Nat /\ Len(u) = Len(s) + 1
      /\ \A i \in 1 .. Len(s) : u[i] = s[i]
      /\ u[Len(s) + 1] = p
  BY LenProperties, AppendProperties
<1> HIDE DEF u
<1>4. /\ end \in [m .. Len(s) -> Nat] /\ end[Len(s)] = Len(stream)
      /\ \A k \in 1 .. end[m] - 1 : stream[k] # Flag
      /\ end[m] # 0 => stream[end[m]] = Flag
  BY DEF Laid
<1>5. /\ grown \in [m .. Len(u) -> Nat] /\ grown[Len(u)] = Len(t)
      /\ \A i \in m .. Len(s) : grown[i] = end[i]
  <2>1. ASSUME NEW i \in m .. Len(s) + 1 PROVE (IF i <= Len(s) THEN end[i] ELSE Len(t)) \in Nat
    <3>1. Len(t) \in Nat
      BY <1>2, LenProperties
    <3>2. CASE i <= Len(s)
      <4>1. i \in m .. Len(s)
        BY <1>3, <3>2
      <4> QED
        BY <1>4, <3>2, <4>1
    <3> QED
      BY <3>1, <3>2
  <2>2. Len(u) = Len(s) + 1 /\ Len(s) + 1 \in m .. Len(s) + 1 /\ ~(Len(s) + 1 <= Len(s))
    BY <1>3
  <2>3. \A i \in m .. Len(s) : i \in m .. Len(s) + 1 /\ i <= Len(s)
    BY <1>3
  <2> QED
    BY <2>1, <2>2, <2>3
<1> HIDE DEF grown
<1>6. /\ \A k \in 1 .. grown[m] - 1 : t[k] # Flag
      /\ grown[m] # 0 => t[grown[m]] = Flag
  <2>1. grown[m] = end[m] /\ end[m] \in Nat
    BY <1>3, <1>4, <1>5
  <2>2. end[m] <= Len(stream)
    <3>1. CASE m < Len(s)
      <4>1. s[m + 1] \in Packets
        BY <3>1, FirstLaid
      <4>2. PICK y \in Nat \ {0} : \E z \in {y, y + 1} :
              /\ FirstAt(stream, Body(s[m + 1]), y, z, end[m + 1])
              /\ end[m] <= y /\ y <= end[m] + 1 /\ z <= end[m] + 1
        BY <3>1, FirstLaid
      <4>3. PICK z \in {y, y + 1} :
              /\ end[m + 1] = z + Len(Body(s[m + 1])) + 1 /\ end[m + 1] <= Len(stream)
              /\ end[m] <= y
        BY <4>2 DEF FirstAt
      <4>4. Len(Body(s[m + 1])) \in Nat
        BY <4>1, BodyFacts
      <4> QED
        BY <1>2, <2>1, <4>3, <4>4
    <3>2. CASE m = Len(s)
      BY <1>2, <1>4, <3>2
    <3> QED
      BY <1>3, <3>1, <3>2
  <2>3. \A k \in 1 .. end[m] : k \in 1 .. Len(stream)
    BY <1>2, <2>1, <2>2
  <2> QED
    BY <1>2, <1>4, <2>1, <2>3
<1>7. ASSUME NEW i \in m + 1 .. Len(u)
      PROVE  \E fl \in BOOLEAN : FrameAt(t, grown[i - 1], grown[i], u[i], fl)
  <2>1. CASE i <= Len(s)
    <3>1. /\ i \in m + 1 .. Len(s) /\ i \in m .. Len(s) /\ i - 1 \in m .. Len(s)
          /\ i \in 1 .. Len(s)
      BY <1>3, <2>1
    <3>2. PICK fl \in BOOLEAN : FrameAt(stream, end[i - 1], end[i], s[i], fl)
      BY <3>1 DEF Laid
    <3>3. s[i] \in Packets
      BY <3>1, ElementOfSeq
    <3>4. /\ grown[i] = end[i] /\ grown[i - 1] = end[i - 1] /\ u[i] = s[i]
          /\ end[i] \in Nat /\ end[i - 1] \in Nat
      BY <1>3, <1>4, <1>5, <3>1
    <3> DEFINE g == Frame(s[i], fl)
    <3>5. /\ end[i - 1] = 0 => fl
          /\ end[i] = end[i - 1] + Len(g) /\ end[i] <= Len(stream)
          /\ \A j \in 1 .. Len(g) : stream[end[i - 1] + j] = g[j]
      BY <3>2 DEF FrameAt
    <3>6. Len(g) \in Nat
      BY <3>3, FrameFacts, LenProperties
    <3> HIDE DEF g
    <3>7. \A j \in 1 .. Len(g) : end[i - 1] + j \in 1 .. Len(stream)
      <4>1. Len(stream) \in Nat /\ end[i - 1] \in Nat /\ end[i - 1] + Len(g) <= Len(stream)
        BY <1>2, <3>4, <3>5
      <4> QED
        BY <3>6, <4>1
    <3>8. end[i] <= Len(t)
      BY SMTT(30), <1>1, <1>2, <3>4, <3>5
    <3>9. ASSUME NEW j \in 1 .. Len(g) PROVE t[end[i - 1] + j] = g[j]
      BY <1>2, <3>5, <3>7
    <3> QED
      BY <3>4, <3>5, <3>8, <3>9 DEF FrameAt, g
  <2>2. CASE i = Len(s) + 1
    <3>1. /\ grown[i - 1] = Len(stream) /\ grown[i] = Len(stream) + Len(f) /\ u[i] = p
          /\ grown[i] <= Len(t)
      <4>1. i - 1 = Len(s) /\ Len(s) \in m .. Len(s)
        BY <1>3, <2>2
      <4>2. grown[i - 1] = Len(stream)
        BY <1>4, <1>5, <4>1
      <4>3. grown[i] = Len(t) /\ u[i] = p /\ Len(t) = Len(stream) + Len(f)
        BY <1>2, <1>3, <1>5, <2>2
      <4>4. Len(t) <= Len(t)
        BY <1>1, <1>2
      <4> QED
        BY <4>2, <4>3, <4>4
    <3>2. FrameAt(t, Len(stream), Len(stream) + Len(f), p, flag)
      BY <1>1, <1>2, <3>1 DEF FrameAt, f
    <3> QED
      BY <3>1, <3>2
  <2> QED
    BY <1>3, <2>1, <2>2
<1>8. Laid(t, u, m, grown)
  BY <1>5, <1>6, <1>7 DEF Laid
<1> QED
  BY <1>3, <1>5, <1>8 DEF t, u, f

\* What is left of the stream from a place inside its first frame, or from the flag at
\* the end of that.
LEMMA LaidTail ==
  ASSUME NEW stream \in Seq(Byte), NEW s \in Seq(Packets), NEW m \in Nat, m < Len(s),
         NEW end, Laid(stream, s, m, end),
         NEW c \in Nat, c >= 1, c <= end[m + 1],
         \A j \in c .. end[m + 1] - 1 : stream[j] # Flag
  PROVE  /\ end[m + 1] \in 1 .. Len(stream)
         /\ \E left : /\ Laid(SubSeq(stream, c, Len(stream)), s, m + 1, left)
                       /\ left[m + 1] = end[m + 1] - c + 1
<1> DEFINE e == end[m + 1]
           n == Len(stream)
           t == SubSeq(stream, c, n)
           left == [i \in m + 1 .. Len(s) |-> end[i] - c + 1]
<1>1. Len(s) \in Nat /\ n \in Nat /\ end \in [m .. Len(s) -> Nat] /\ end[Len(s)] = n
  BY LenProperties DEF Laid
<1>2. e \in 1 .. n /\ stream[e] = Flag
  <2>1. s[m + 1] \in Packets
    BY FirstLaid
  <2>2. PICK y \in Nat \ {0} : \E z \in {y, y + 1} :
          FirstAt(stream, Body(s[m + 1]), y, z, e)
    BY FirstLaid
  <2>3. PICK z \in {y, y + 1} : /\ stream[z + Len(Body(s[m + 1])) + 1] = Flag
                                /\ e = z + Len(Body(s[m + 1])) + 1 /\ e <= n
    BY <2>2 DEF FirstAt
  <2>4. Len(Body(s[m + 1])) \in Nat
    BY <2>1, BodyFacts
  <2>5. e \in Nat /\ e >= 1
    BY <2>3, <2>4
  <2> HIDE DEF e, n
  <2> QED
    BY <1>1, <2>3, <2>5
<1>10. c \in 1 .. e /\ c <= n /\ \A j \in c .. e - 1 : stream[j] # Flag
  BY <1>1, <1>2
<1> HIDE DEF e, n
<1>3. /\ t \in Seq(Byte) /\ Len(t) = n - c + 1
      /\ \A j \in 1 .. n - c + 1 : t[j] = stream[c + j - 1]
  <2>1. c \in 1 .. Len(stream) + 1
    BY <1>1, <1>2, <1>10 DEF n
  <2> QED
    BY <2>1, Part DEF n
<1> HIDE DEF t
<1>4. \A i \in m + 1 .. Len(s) : \E flag \in BOOLEAN :
        FrameAt(stream, end[i - 1], end[i], s[i], flag) /\ Len(Frame(s[i], flag)) \in Nat
  <2> TAKE i \in m + 1 .. Len(s)
  <2>1. s[i] \in Packets
    BY <1>1, ElementOfSeq
  <2> QED
    BY <2>1, FrameFacts, LenProperties DEF Laid
<1>5. \A i \in m + 1 .. Len(s) : end[i] \in Nat /\ end[i] >= e
  <2> DEFINE T == {i \in Nat : i \in m + 1 .. Len(s) => end[i] >= e}
  <2>1. 0 \in T
    OBVIOUS
  <2>2. ASSUME NEW i \in Nat, i \in T PROVE i + 1 \in T
    <3> SUFFICES ASSUME i + 1 \in m + 1 .. Len(s) PROVE end[i + 1] >= e
      OBVIOUS
    <3>1. CASE i = m
      BY <1>1, <1>2, <3>1 DEF e
    <3>2. CASE i # m
      <4>1. i \in m + 1 .. Len(s) /\ (i + 1) - 1 = i /\ end[i] >= e /\ end[i] \in Nat
        BY <1>1, <2>2, <3>2
      <4>2. PICK flag \in BOOLEAN : /\ FrameAt(stream, end[(i + 1) - 1], end[i + 1], s[i + 1], flag)
                                    /\ Len(Frame(s[i + 1], flag)) \in Nat
        BY <1>4
      <4>3. end[i + 1] = end[i] + Len(Frame(s[i + 1], flag))
        BY <4>1, <4>2 DEF FrameAt
      <4> QED
        BY <1>2, <4>1, <4>2, <4>3
    <3> QED
      BY <3>1, <3>2
  <2>3. \A i \in Nat : i \in T
    <3> HIDE DEF T
    <3> QED
      BY <2>1, <2>2, SetInduction
  <2> QED
    BY <1>1, <2>3
<1>6. left \in [m + 1 .. Len(s) -> Nat] /\ left[Len(s)] = Len(t)
  <2>1. \A i \in m + 1 .. Len(s) : end[i] - c + 1 \in Nat
    BY <1>2, <1>5, <1>10
  <2>2. Len(s) \in m + 1 .. Len(s)
    BY <1>1
  <2> QED
    BY <1>1, <1>3, <2>1, <2>2
<1>7. /\ left[m + 1] = e - c + 1
      /\ \A j \in 1 .. left[m + 1] - 1 : t[j] # Flag
      /\ t[left[m + 1]] = Flag
  <2>1. left[m + 1] = e - c + 1
    BY <1>1 DEF e
  <2>2. e - c + 1 \in 1 .. n - c + 1 /\ c + (e - c + 1) - 1 = e
    BY <1>1, <1>2, <1>10
  <2>3. ASSUME NEW j \in 1 .. (e - c + 1) - 1 PROVE t[j] # Flag
    <3>1. j \in 1 .. n - c + 1 /\ c + j - 1 \in c .. e - 1
      BY <1>1, <1>2, <1>10
    <3> QED
      BY <1>3, <1>10, <3>1
  <2> HIDE DEF left
  <2> QED
    BY <1>2, <1>3, <2>1, <2>2, <2>3
<1>8. ASSUME NEW i \in (m + 1) + 1 .. Len(s)
      PROVE  \E flag \in BOOLEAN : FrameAt(t, left[i - 1], left[i], s[i], flag)
  <2>1. i \in m + 1 .. Len(s) /\ i - 1 \in m + 1 .. Len(s)
    BY <1>1
  <2>2. PICK flag \in BOOLEAN : /\ FrameAt(stream, end[i - 1], end[i], s[i], flag)
                                /\ Len(Frame(s[i], flag)) \in Nat
    BY <1>4, <2>1
  <2> DEFINE g == Frame(s[i], flag)
  <2>3. /\ end[i] = end[i - 1] + Len(g) /\ end[i] <= n
        /\ \A j \in 1 .. Len(g) : stream[end[i - 1] + j] = g[j]
    BY <2>2 DEF FrameAt, n
  <2>4. /\ left[i] = end[i] - c + 1 /\ left[i - 1] = end[i - 1] - c + 1
        /\ end[i] >= c /\ end[i - 1] >= c /\ end[i] \in Nat /\ end[i - 1] \in Nat
    BY SMTT(30), <1>1, <1>2, <1>5, <1>10, <2>1
  <2> HIDE DEF left
  <2>5. Len(g) \in Nat
    BY <2>2
  <2> HIDE DEF g
  <2>6. left[i] = left[i - 1] + Len(g) /\ left[i] <= Len(t) /\ left[i - 1] # 0
    <3>1. /\ c \in Nat /\ n \in Nat /\ end[i] = end[i - 1] + Len(g) /\ end[i] <= n
          /\ Len(t) = n - c + 1
      BY <1>1, <1>2, <1>3, <2>3
    <3>2. (end[i - 1] + Len(g)) - c + 1 = (end[i - 1] - c + 1) + Len(g)
      BY SMTT(30), <2>4, <2>5, <3>1
    <3>3. end[i] - c + 1 <= n - c + 1 /\ end[i - 1] - c + 1 # 0
      <4>1. \A x \in Nat : x <= n => x - c + 1 <= n - c + 1
        BY <3>1
      <4>2. \A x \in Nat : x >= c => x - c + 1 # 0
        BY <3>1
      <4> QED
        BY <2>4, <3>1, <4>1, <4>2
    <3> QED
      BY <2>4, <3>1, <3>2, <3>3
  <2>7. ASSUME NEW j \in 1 .. Len(g) PROVE t[left[i - 1] + j] = g[j]
    <3>1. /\ left[i - 1] + j \in 1 .. n - c + 1
          /\ c + (left[i - 1] + j) - 1 = end[i - 1] + j
      <4>1. /\ c \in Nat /\ n \in Nat /\ end[i - 1] + Len(g) <= n /\ j \in Nat
            /\ 1 <= j /\ j <= Len(g) /\ end[i - 1] \in Nat /\ end[i - 1] >= c
        BY <1>1, <1>2, <2>3, <2>4, <2>5
      <4>2. (end[i - 1] - c + 1) + j \in 1 .. n - c + 1
        BY SMTT(30), <2>5, <4>1
      <4>3. c + ((end[i - 1] - c + 1) + j) - 1 = end[i - 1] + j
        BY SMTT(30), <4>1
      <4> QED
        BY <2>4, <4>2, <4>3
    <3> QED
      BY <1>3, <2>3, <3>1
  <2> QED
    BY <2>6, <2>7 DEF FrameAt, g
<1> HIDE DEF left
<1>9. Laid(t, s, m + 1, left)
  BY <1>6, <1>7, <1>8 DEF Laid
<1> QED
  BY <1>2, <1>7, <1>9 DEF t, e, n

-----------------------------------------------------------------------------
(* What the decoder has not taken yet *)

\* The bytes of the buffer from a place on, then those of the pty.
Rest(b, from, t) == SubSeq(b, from, Len(b)) \o t

\* The stream begins with what the buffer has.
LEMMA RestFacts ==
  ASSUME NEW b \in Seq(Byte), NEW from \in 1 .. Len(b) + 1, NEW t \in Seq(Byte)
  PROVE  /\ Rest(b, from, t) \in Seq(Byte) /\ Begun(b, from, Rest(b, from, t))
         /\ Len(Rest(b, from, t)) = Len(b) - from + 1 + Len(t)
         /\ Len(b) \in Nat /\ from \in Nat /\ Len(t) \in Nat
         /\ \A j \in 1 .. Len(t) : Rest(b, from, t)[Len(b) - from + 1 + j] = t[j]
<1> DEFINE c == SubSeq(b, from, Len(b))
           r == c \o t
<1>1. /\ c \in Seq(Byte) /\ Len(c) = Len(b) - from + 1
      /\ \A j \in 1 .. Len(b) - from + 1 : c[j] = b[from + j - 1]
  BY Part
<1> HIDE DEF c
<1>2. /\ r \in Seq(Byte) /\ Len(c) \in Nat /\ Len(t) \in Nat /\ Len(r) = Len(c) + Len(t)
      /\ \A j \in 1 .. Len(c) : r[j] = c[j]
      /\ \A j \in 1 .. Len(t) : r[Len(c) + j] = t[j]
  BY <1>1, Joined
<1> HIDE DEF r
<1>3. Len(b) \in Nat /\ from \in Nat
  BY LenProperties
<1>4. \A j \in 1 .. Len(b) - from + 1 : r[j] = b[from + j - 1]
  BY <1>1, <1>2
<1>5. Len(b) - from + 1 <= Len(r)
  BY <1>1, <1>2
<1>6. Begun(b, from, r)
  BY <1>2, <1>4, <1>5 DEF Begun
<1>7. Rest(b, from, t) = r
  BY DEF Rest, r, c
<1> QED
  BY <1>1, <1>2, <1>3, <1>6, <1>7

\* A read moves bytes from the pty to the buffer.
LEMMA RestOfRead ==
  ASSUME NEW b \in Seq(Byte), NEW t \in Seq(Byte), NEW n \in 1 .. Len(t)
  PROVE  /\ Rest(b \o SubSeq(t, 1, n), 1, SubSeq(t, n + 1, Len(t))) = Rest(b, 1, t)
         /\ b \o SubSeq(t, 1, n) \in Seq(Byte) /\ SubSeq(t, n + 1, Len(t)) \in Seq(Byte)
         /\ Len(b \o SubSeq(t, 1, n)) = Len(b) + n
<1> DEFINE x == SubSeq(t, 1, n)
           y == SubSeq(t, n + 1, Len(t))
<1>1. Len(t) \in Nat /\ n \in 0 .. Len(t) /\ n + 1 \in 1 .. Len(t) + 1
  BY LenProperties
<1>2. x \in Seq(Byte) /\ Len(x) = n /\ y \in Seq(Byte)
  BY <1>1, Beginning, Part
<1>3. x \o y = t
  <2>1. 1 \in 1 .. Len(t) + 1 /\ n \in 1 - 1 .. Len(t) /\ Len(t) \in n .. Len(t)
    BY <1>1
  <2>2. x \o y = SubSeq(t, 1, Len(t))
    BY <2>1, ConcatAdjacentSubSeq
  <2> QED
    BY <2>2, SubSeqFull
<1> HIDE DEF x, y
<1>4. b \o x \in Seq(Byte) /\ Len(b \o x) = Len(b) + n
  BY <1>2, Joined
<1>5. (b \o x) \o y = b \o t
  <2>1. (b \o x) \o y = b \o (x \o y)
    BY <1>2, ThreeParts
  <2> QED
    BY <1>3, <2>1
<1>6. SubSeq(b \o x, 1, Len(b \o x)) = b \o x /\ SubSeq(b, 1, Len(b)) = b
  BY <1>4, SubSeqFull
<1>7. Rest(b \o x, 1, y) = Rest(b, 1, t)
  BY <1>5, <1>6 DEF Rest
<1> QED
  BY <1>2, <1>4, <1>7 DEF x, y

\* Moving the remains to the front of the buffer changes nothing.
LEMMA RestOfShift ==
  ASSUME NEW b \in Seq(Byte), NEW from \in 1 .. Len(b) + 1, NEW t
  PROVE  /\ Rest(SubSeq(b, from, Len(b)), 1, t) = Rest(b, from, t)
         /\ SubSeq(b, from, Len(b)) \in Seq(Byte)
         /\ Len(SubSeq(b, from, Len(b))) = Len(b) - from + 1
<1> DEFINE c == SubSeq(b, from, Len(b))
<1>1. c \in Seq(Byte) /\ Len(c) = Len(b) - from + 1
  BY Part
<1> HIDE DEF c
<1>2. SubSeq(c, 1, Len(c)) = c
  BY <1>1, SubSeqFull
<1> QED
  BY <1>1, <1>2 DEF Rest, c

\* Taking the first e - 1 bytes leaves the part of the stream from e on.
LEMMA RestOfTaken ==
  ASSUME NEW b \in Seq(Byte), NEW from \in 1 .. Len(b) + 1, NEW t \in Seq(Byte),
         NEW e \in Nat, e >= 1, from + e - 1 <= Len(b)
  PROVE  Rest(b, from + e - 1, t) = SubSeq(Rest(b, from, t), e, Len(Rest(b, from, t)))
<1> DEFINE r == Rest(b, from, t)
           q == Rest(b, from + e - 1, t)
           k == Len(b) - from + 1
           d == SubSeq(r, e, Len(r))
<1>1. /\ Len(b) \in Nat /\ from \in Nat /\ Len(t) \in Nat /\ r \in Seq(Byte)
      /\ Len(r) = k + Len(t)
      /\ \A j \in 1 .. k : r[j] = b[from + j - 1]
      /\ \A j \in 1 .. Len(t) : r[k + j] = t[j]
  <2>1. Begun(b, from, r)
    BY RestFacts
  <2> QED
    BY <2>1, RestFacts DEF Begun
<1>2. from + e - 1 \in 1 .. Len(b) + 1
  BY <1>1
<1>3. /\ q \in Seq(Byte) /\ Len(q) = (k - e + 1) + Len(t)
      /\ \A j \in 1 .. k - e + 1 : q[j] = b[(from + e - 1) + j - 1]
      /\ \A j \in 1 .. Len(t) : q[(k - e + 1) + j] = t[j]
  <2>1. Begun(b, from + e - 1, q)
    BY <1>2, RestFacts
  <2>2. /\ Len(q) = Len(b) - (from + e - 1) + 1 + Len(t) /\ q \in Seq(Byte)
        /\ \A j \in 1 .. Len(t) : q[Len(b) - (from + e - 1) + 1 + j] = t[j]
    BY <1>2, RestFacts
  <2>3. Len(b) - (from + e - 1) + 1 = k - e + 1
    BY <1>1
  <2>4. \A j \in 1 .. Len(b) - (from + e - 1) + 1 : q[j] = b[(from + e - 1) + j - 1]
    BY <2>1 DEF Begun
  <2> HIDE DEF q, k
  <2> QED
    BY <2>2, <2>3, <2>4
<1>4. k \in Nat /\ 1 <= e /\ e <= k
  BY <1>1
<1> HIDE DEF r, q, k
<1>5. /\ d \in Seq(Byte) /\ Len(d) = Len(r) - e + 1
      /\ \A j \in 1 .. Len(r) - e + 1 : d[j] = r[e + j - 1]
  <2>1. e \in 1 .. Len(r) + 1
    BY <1>1, <1>4
  <2> QED
    BY <1>1, <2>1, Part
<1> HIDE DEF d
<1>6. Len(q) = Len(d)
  BY <1>1, <1>3, <1>4, <1>5
<1>7. ASSUME NEW j \in 1 .. Len(q) PROVE q[j] = d[j]
  <2>1. d[j] = r[e + j - 1]
    <3>1. j \in 1 .. Len(r) - e + 1
      BY <1>5, <1>6
    <3> QED
      BY <1>5, <3>1
  <2>2. CASE j <= k - e + 1
    <3>1. /\ j \in 1 .. k - e + 1 /\ e + j - 1 \in 1 .. k
          /\ from + (e + j - 1) - 1 = (from + e - 1) + j - 1
      BY <1>1, <1>3, <1>4, <2>2
    <3>2. q[j] = b[(from + e - 1) + j - 1]
      BY <1>3, <3>1
    <3>3. r[e + j - 1] = b[from + (e + j - 1) - 1]
      BY <1>1, <3>1
    <3> QED
      BY <2>1, <3>1, <3>2, <3>3
  <2>3. CASE j > k - e + 1
    <3> DEFINE i == j - (k - e + 1)
    <3>1. /\ i \in 1 .. Len(t) /\ (k - e + 1) + i = j /\ k + i = e + j - 1
      BY <1>1, <1>3, <1>4, <2>3
    <3> HIDE DEF i
    <3>2. q[(k - e + 1) + i] = t[i] /\ r[k + i] = t[i]
      BY <1>1, <1>3, <3>1
    <3> QED
      BY <2>1, <3>1, <3>2
  <2> QED
    BY <1>1, <1>3, <1>4, <2>2, <2>3
<1>8. q = d
  BY <1>3, <1>5, <1>6, <1>7, SameBytes
<1> QED
  BY <1>8 DEF q, d, r

-----------------------------------------------------------------------------
(* The inductive invariant *)

\* The frames of the packets that are not taken yet lie one behind the other in what
\* is left; unless it has just skipped a frame, the thread that is about to read does
\* not have the next as a whole, and at most a flag is in front of it.
Queued(end) ==
  /\ Laid(Rest(buf, start, pty), sent, Len(got), end)
  /\ ~JustSkipped => end[Len(got)] <= 1
  /\ pc = "read" /\ Len(got) < Len(sent) /\ ~JustSkipped
       => end[Len(got) + 1] > Len(buf)

\* The packets that were pushed are the first that were sent, but for the skipped ones.
Taken ==
  Len(got) <= Len(sent) /\ \A i \in 1 .. Len(got) : got[i] \in {sent[i], Skipped}

IInv ==
  /\ TypeOK /\ Taken /\ EncoderFits
  /\ \E end : Queued(end)
  /\ (pc = "exit" => JustSkipped) /\ (pc = "read" => start = 1)
  /\ needFlag \/ sent # <<>>
  /\ Len(Rest(buf, start, pty)) = 0 <=> sent = <<>>

\* What the proof of each step begins with.
LEMMA Now ==
  ASSUME IInv
  PROVE  LET r == Rest(buf, start, pty)
         IN /\ r \in Seq(Byte) /\ Begun(buf, start, r) /\ Len(r) \in Nat
            /\ Len(r) = Len(buf) - start + 1 + Len(pty)
            /\ Len(buf) \in Nat /\ start \in Nat /\ Len(pty) \in Nat
            /\ Len(got) \in Nat /\ Len(sent) \in Nat /\ Capacity \in Nat
            /\ buf \in Seq(Byte) /\ start \in 1 .. Len(buf) + 1 /\ pty \in Seq(Byte)
            /\ sent \in Seq(Packets) /\ got \in Seq(Seq(Byte))
<1>1. /\ buf \in Seq(Byte) /\ start \in 1 .. Len(buf) + 1 /\ pty \in Seq(Byte)
      /\ sent \in Seq(Packets) /\ got \in Seq(Seq(Byte))
  BY DEF IInv, TypeOK
<1> QED
  BY <1>1, RestFacts, LenProperties, HdlcAssumption

\* How far the first frame reaches, and that the buffer can hold it.
LEMMA FirstFits ==
  ASSUME NEW stream, NEW s \in Seq(Packets), NEW m \in Nat, m < Len(s), NEW end,
         Laid(stream, s, m, end)
  PROVE  /\ end[m + 1] \in Nat /\ end[m + 1] <= Len(stream)
         /\ end[m] <= 1 => end[m + 1] <= Capacity
<1>1. s[m + 1] \in Packets /\ end[m] \in Nat
  BY FirstLaid
<1>5. PICK y \in Nat \ {0} : \E z \in {y, y + 1} :
        FirstAt(stream, Body(s[m + 1]), y, z, end[m + 1]) /\ z <= end[m] + 1
  BY FirstLaid
<1>2. PICK z \in {y, y + 1} : /\ end[m + 1] = z + Len(Body(s[m + 1])) + 1
                              /\ end[m + 1] <= Len(stream) /\ z <= end[m] + 1
  BY <1>5 DEF FirstAt
<1>3. Len(Body(s[m + 1])) \in Nat /\ Len(Body(s[m + 1])) <= 2 * Len(s[m + 1]) + 7
  BY <1>1, BodyFacts
<1>4. 2 * Len(s[m + 1]) + 10 <= Capacity /\ Len(s[m + 1]) \in Nat /\ Capacity \in Nat
  BY <1>1, PacketFacts, HdlcAssumption
<1> DEFINE n == Len(Body(s[m + 1]))
           k == Len(s[m + 1])
<1>6. /\ end[m + 1] = z + n + 1 /\ end[m + 1] <= Len(stream) /\ z <= end[m] + 1
      /\ n \in Nat /\ n <= 2 * k + 7 /\ 2 * k + 10 <= Capacity /\ k \in Nat
      /\ Capacity \in Nat /\ end[m] \in Nat /\ z \in Nat
  BY <1>1, <1>2, <1>3, <1>4
<1> HIDE DEF n, k
<1>7. end[m + 1] \in Nat
  BY <1>6
<1>8. ASSUME end[m] <= 1 PROVE end[m + 1] <= Capacity
  <2>1. z <= 2
    BY <1>6, <1>8
  <2>2. z + n + 1 <= Capacity
    BY <1>6, <2>1
  <2> QED
    BY <1>6, <2>2
<1> QED
  BY <1>6, <1>7, <1>8

\* The empty stream carries no packets.
LEMMA InitInv == Init => IInv
<1> SUFFICES ASSUME Init PROVE IInv
  OBVIOUS
<1>1. /\ needFlag = TRUE /\ sent = <<>> /\ overrun = FALSE /\ failed = FALSE
      /\ pty = <<>> /\ buf = <<>> /\ start = 1 /\ pc = "read" /\ got = <<>>
  BY DEF Init
<1>2. TypeOK
  <2>1. Capacity \in Nat
    BY HdlcAssumption
  <2> QED
    <3>1. needFlag \in BOOLEAN /\ overrun \in BOOLEAN /\ failed \in BOOLEAN
      BY <1>1
    <3>2. sent \in Seq(Packets) /\ got \in Seq(Seq(Byte)) /\ pty \in Seq(Byte) /\ buf \in Seq(Byte)
      BY <1>1
    <3>3. Len(buf) <= Capacity /\ start \in 1 .. Len(buf) + 1 /\ pc \in {"read", "frames", "exit"}
      BY <1>1, <2>1
    <3> QED
      BY <3>1, <3>2, <3>3 DEF TypeOK
<1>3. Taken /\ EncoderFits
  BY <1>1 DEF Taken, EncoderFits
<1>4. Rest(buf, start, pty) \in Seq(Byte) /\ Len(Rest(buf, start, pty)) = 0
  <2>1. buf \in Seq(Byte) /\ start \in 1 .. Len(buf) + 1 /\ pty \in Seq(Byte)
    BY <1>1
  <2>2. Len(buf) - start + 1 + Len(pty) = 0
    BY <1>1
  <2> QED
    BY <2>1, <2>2, RestFacts
<1>5. Queued([i \in 0 .. 0 |-> 0])
  <2> DEFINE end == [i \in 0 .. 0 |-> 0]
  <2>1. Len(got) = 0 /\ Len(sent) = 0
    BY <1>1
  <2>2. end \in [0 .. 0 -> Nat] /\ end[0] = 0
    OBVIOUS
  <2> HIDE DEF end
  <2>3. Laid(Rest(buf, start, pty), sent, 0, end)
    BY <1>4, <2>1, <2>2 DEF Laid
  <2>4. Queued(end)
    BY <1>1, <2>1, <2>2, <2>3 DEF Queued
  <2> QED
    BY <2>4 DEF end
<1> QED
  BY <1>1, <1>2, <1>3, <1>4, <1>5 DEF IInv

\* hdlc_encode adds a frame at the end of the stream.
LEMMA EncodeStep ==
  ASSUME IInv, NEW p \in Packets, NEW flag \in BOOLEAN, Encode(p, flag)
  PROVE  IInv'
<1> DEFINE r == Rest(buf, start, pty)
           f == Frame(p, flag)
           m == Len(got)
<1>1. /\ r \in Seq(Byte) /\ Len(r) \in Nat /\ Len(r) = Len(buf) - start + 1 + Len(pty)
      /\ Len(buf) \in Nat /\ start \in Nat /\ Len(pty) \in Nat
      /\ m \in Nat /\ Len(sent) \in Nat /\ Capacity \in Nat
      /\ buf \in Seq(Byte) /\ start \in 1 .. Len(buf) + 1 /\ pty \in Seq(Byte)
      /\ sent \in Seq(Packets) /\ got \in Seq(Seq(Byte))
  BY Now
<1>2. /\ ~TooSmall(p, flag, EstimatedEncodedSize(Len(p)))
      /\ Len(f) <= EstimatedEncodedSize(Len(p))
  BY SizeSuffices
<1>3. /\ sent' = Append(sent, p) /\ needFlag' = FALSE /\ pty' = pty \o f
      /\ overrun' = (overrun \/ Len(f) > EstimatedEncodedSize(Len(p)))
      /\ failed' = failed /\ buf' = buf /\ start' = start /\ pc' = pc /\ got' = got
      /\ flag \in {needFlag, TRUE}
  <2> HIDE DEF f
  <2> QED
    BY <1>2 DEF Encode, f
<1>4. f \in Seq(Byte) /\ Len(f) \in Nat /\ Len(f) >= 1
  <2>1. f \in Seq(Byte) /\ Len(f) = Flags(flag) + Len(Body(p)) + 1
    BY FrameFacts
  <2>2. Len(Body(p)) \in Nat /\ Flags(flag) \in Nat
    BY BodyFacts DEF Flags
  <2> HIDE DEF f
  <2> QED
    BY <2>1, <2>2
<1> HIDE DEF f
<1>5. overrun' = FALSE /\ failed' = FALSE
  <2>1. overrun = FALSE /\ failed = FALSE
    BY DEF IInv, EncoderFits, TypeOK
  <2>2. ~(Len(f) > EstimatedEncodedSize(Len(p)))
    <3>1. EstimatedEncodedSize(Len(p)) \in Nat
      BY PacketFacts DEF EstimatedEncodedSize
    <3> QED
      BY <1>2, <1>4, <3>1
  <2> QED
    BY <1>3, <2>1, <2>2
<1>6. pty' \in Seq(Byte) /\ sent' \in Seq(Packets) /\ Len(sent') = Len(sent) + 1
  BY <1>1, <1>3, <1>4, Joined, AppendProperties
<1>7. TypeOK'
  <2>1. /\ Len(buf) <= Capacity /\ pc \in {"read", "frames", "exit"}
    BY DEF IInv, TypeOK
  <2> QED
    BY <1>1, <1>3, <1>5, <1>6, <2>1 DEF TypeOK
<1>8. Taken'
  <2>1. m <= Len(sent) /\ \A i \in 1 .. m : got[i] \in {sent[i], Skipped}
    BY DEF IInv, Taken
  <2>2. \A i \in 1 .. Len(sent) : sent'[i] = sent[i]
    BY <1>1, <1>3, AppendProperties
  <2>3. \A i \in 1 .. m : i \in 1 .. Len(sent)
    BY <1>1, <2>1
  <2>4. m <= Len(sent) + 1
    BY <1>1, <2>1
  <2> QED
    BY <1>3, <1>6, <2>1, <2>2, <2>3, <2>4 DEF Taken
<1>9. Rest(buf, start, pty)' = r \o f
  <2>1. SubSeq(buf, start, Len(buf)) \in Seq(Byte)
    BY <1>1, RestOfShift
  <2>2. SubSeq(buf, start, Len(buf)) \o (pty \o f) = (SubSeq(buf, start, Len(buf)) \o pty) \o f
    BY <1>1, <1>4, <2>1, ThreeParts
  <2> QED
    BY <1>3, <2>2 DEF Rest
<1>10. r \o f \in Seq(Byte) /\ Len(r \o f) = Len(r) + Len(f)
  BY <1>1, <1>4, Joined
<1>11. PICK end : Queued(end)
  BY DEF IInv
<1>12. Laid(r, sent, m, end) /\ m <= Len(sent)
  BY <1>11 DEF Queued, IInv, Taken
<1>13. Len(r) = 0 => flag
  <2>1. Len(r) = 0 => sent = <<>>
    BY DEF IInv
  <2>2. ASSUME sent = <<>> PROVE flag
    <3>1. needFlag = TRUE
      BY <2>2 DEF IInv, TypeOK
    <3> QED
      BY <1>3, <3>1
  <2> QED
    BY <2>1, <2>2
<1> HIDE DEF r, m
<1>14. \E grown : /\ Laid(r \o f, Append(sent, p), m, grown)
                  /\ \A i \in m .. Len(sent) : grown[i] = end[i]
                  /\ grown[Len(sent) + 1] = Len(r \o f)
  BY <1>1, <1>12, <1>13, LaidAppend DEF f
<1>15. PICK grown : /\ Laid(r \o f, Append(sent, p), m, grown)
                    /\ \A i \in m .. Len(sent) : grown[i] = end[i]
                    /\ grown[Len(sent) + 1] = Len(r \o f)
  BY <1>14
<1>16. ASSUME pc = "read", ~JustSkipped PROVE grown[m + 1] > Len(buf)
  <2>1. CASE m < Len(sent)
    <3>1. end[m + 1] > Len(buf)
      BY <1>11, <1>16, <2>1 DEF Queued, m
    <3>2. m + 1 \in m .. Len(sent)
      BY <1>1, <2>1
    <3> QED
      BY <1>15, <3>1, <3>2
  <2>2. CASE m = Len(sent)
    <3>1. start = 1
      BY <1>16 DEF IInv
    <3>2. Len(r) = Len(buf) + Len(pty)
      BY <1>1, <3>1
    <3>3. grown[m + 1] = Len(buf) + Len(pty) + Len(f)
      BY <1>10, <1>15, <2>2, <3>2
    <3> QED
      BY <1>1, <1>4, <3>3
  <2> QED
    BY <1>1, <1>12, <2>1, <2>2
<1>17. Queued(grown)'
  <2>1. Laid(Rest(buf, start, pty)', sent', Len(got)', grown)
    BY <1>3, <1>9, <1>15 DEF m
  <2>2. pc' = "read" /\ ~JustSkipped' => grown[Len(got)' + 1] > Len(buf)'
    BY <1>3, <1>16 DEF m, JustSkipped
  <2>3. ~JustSkipped' => grown[Len(got)'] <= 1
    <3>1. m \in m .. Len(sent)
      BY <1>1, <1>12
    <3>2. ~JustSkipped => end[m] <= 1
      BY <1>11 DEF Queued, m
    <3> QED
      BY <1>3, <1>15, <3>1, <3>2 DEF JustSkipped, m
  <2> QED
    BY <2>1, <2>2, <2>3 DEF Queued
<1>18. sent' # <<>> /\ Len(Rest(buf, start, pty)') # 0
  <2>1. Len(sent') # 0 /\ Len(r \o f) # 0
    BY SMTT(30), <1>1, <1>4, <1>6, <1>10 DEF r
  <2> QED
    BY <1>6, <1>9, <2>1, EmptySeq
<1>19. (pc' = "exit" => JustSkipped') /\ (pc' = "read" => start' = 1)
  BY <1>3 DEF IInv, JustSkipped
<1>20. EncoderFits'
  BY <1>5 DEF EncoderFits
<1> QED
  BY <1>7, <1>8, <1>17, <1>18, <1>19, <1>20 DEF IInv

\* A read finds the buffer full at most behind a skipped frame, and moves bytes inside
\* the stream.
LEMMA ReadStep ==
  ASSUME IInv, Read
  PROVE  IInv'
<1> DEFINE r == Rest(buf, start, pty)
           m == Len(got)
<1>1. /\ r \in Seq(Byte) /\ Len(r) \in Nat /\ Len(r) = Len(buf) - start + 1 + Len(pty)
      /\ Len(buf) \in Nat /\ start \in Nat /\ Len(pty) \in Nat
      /\ m \in Nat /\ Len(sent) \in Nat /\ Capacity \in Nat
      /\ buf \in Seq(Byte) /\ pty \in Seq(Byte)
      /\ sent \in Seq(Packets) /\ got \in Seq(Seq(Byte))
  BY Now
<1>2. pc = "read" /\ pty # <<>> /\ start = 1
  BY DEF Read, IInv
<1>3. Len(r) = Len(buf) + Len(pty) /\ Len(pty) >= 1
  <2>1. Len(pty) # 0
    BY <1>1, <1>2, EmptySeq
  <2> QED
    BY <1>1, <1>2, <2>1
<1>4. PICK end : Queued(end)
  BY DEF IInv
<1>5. /\ Laid(r, sent, m, end) /\ m <= Len(sent)
      /\ ~JustSkipped => end[m] <= 1 /\ (m < Len(sent) => end[m + 1] > Len(buf))
  BY <1>2, <1>4 DEF Queued, IInv, Taken
<1> HIDE DEF r, m
<1>6. ASSUME ~JustSkipped PROVE Len(buf) # Capacity
  <2>1. CASE m < Len(sent)
    <3>1. end[m + 1] \in Nat /\ end[m + 1] <= Capacity
      BY <1>1, <1>5, <1>6, <2>1, FirstFits
    <3> QED
      BY <1>1, <1>5, <1>6, <2>1, <3>1
  <2>2. CASE m = Len(sent)
    <3>1. Len(r) <= 1
      BY <1>5, <1>6, <2>2 DEF Laid
    <3>2. Len(buf) = 0 /\ Len(r) # 0
      BY <1>1, <1>3, <3>1
    <3>3. sent # <<>>
      BY <3>2 DEF IInv, r
    <3>4. Len(sent) # 0
      BY <1>1, <3>3, EmptySeq
    <3>5. sent[1] \in Packets
      <4>1. 1 \in 1 .. Len(sent)
        BY <1>1, <3>4
      <4> QED
        BY <1>1, <4>1, ElementOfSeq
    <3>6. 2 * Len(sent[1]) + 10 <= Capacity /\ Len(sent[1]) \in Nat
      BY <3>5, PacketFacts
    <3> QED
      BY <1>1, <3>2, <3>6
  <2> QED
    BY <1>1, <1>5, <2>1, <2>2
<1>8. UNCHANGED <<writer, got>>
  BY DEF Read
<1>7. CASE Len(buf) # Capacity
  <2>1. PICK n \in 1 .. Len(pty) :
          /\ n <= Capacity - Len(buf)
          /\ buf' = buf \o SubSeq(pty, 1, n) /\ pty' = SubSeq(pty, n + 1, Len(pty))
          /\ start' = 1 /\ pc' = "frames"
    BY <1>7 DEF Read
  <2>2. /\ Rest(buf, start, pty)' = r /\ buf' \in Seq(Byte) /\ pty' \in Seq(Byte)
        /\ Len(buf') = Len(buf) + n
    BY <1>1, <1>2, <2>1, RestOfRead DEF r
  <2>3. TypeOK'
    <3>1. Len(buf') <= Capacity /\ start' \in 1 .. Len(buf') + 1
      BY <1>1, <2>1, <2>2
    <3>2. /\ needFlag \in BOOLEAN /\ overrun \in BOOLEAN /\ failed \in BOOLEAN
      BY DEF IInv, TypeOK
    <3> QED
      BY <1>1, <1>8, <2>1, <2>2, <3>1, <3>2 DEF TypeOK, writer
  <2>4. Queued(end)'
    BY <1>5, <1>8, <2>1, <2>2 DEF Queued, JustSkipped, writer, m
  <2>5. (Taken /\ EncoderFits)' /\ (needFlag \/ sent # <<>>)'
    BY <1>8 DEF IInv, Taken, EncoderFits, writer
  <2>6. (Len(Rest(buf, start, pty)) = 0 <=> sent = <<>>)'
    BY <1>8, <2>2 DEF IInv, writer, r
  <2> QED
    BY <2>1, <2>3, <2>4, <2>5, <2>6 DEF IInv
<1>9. CASE Len(buf) = Capacity
  <2>1. pc' = "exit" /\ UNCHANGED <<buf, pty, start>> /\ JustSkipped'
    BY <1>6, <1>8, <1>9 DEF Read, JustSkipped
  <2>2. TypeOK' /\ Taken' /\ EncoderFits'
    BY <1>8, <2>1 DEF IInv, TypeOK, Taken, EncoderFits, writer
  <2>3. Queued(end)'
    BY <1>4, <1>8, <2>1 DEF Queued, writer
  <2>4. (needFlag \/ sent # <<>>)' /\ (Len(Rest(buf, start, pty)) = 0 <=> sent = <<>>)'
    BY <1>8, <2>1 DEF IInv, writer
  <2> QED
    BY <2>1, <2>2, <2>3, <2>4 DEF IInv
<1> QED
  BY <1>7, <1>9

\* The frame that is found is that of the next packet, and it is valid.
LEMMA TakeFrameStep ==
  ASSUME IInv, TakeFrame
  PROVE  IInv'
<1> DEFINE r == Rest(buf, start, pty)
           m == Len(got)
<1>1. /\ r \in Seq(Byte) /\ Begun(buf, start, r) /\ Len(r) \in Nat
      /\ Len(buf) \in Nat /\ start \in Nat /\ Len(pty) \in Nat
      /\ m \in Nat /\ Len(sent) \in Nat /\ Capacity \in Nat
      /\ buf \in Seq(Byte) /\ start \in 1 .. Len(buf) + 1 /\ pty \in Seq(Byte)
      /\ sent \in Seq(Packets) /\ got \in Seq(Seq(Byte))
  BY Now
<1>2. PICK first \in DOMAIN buf, last \in DOMAIN buf :
        /\ IsFrame(buf, start, first, last)
        /\ LET d == Decode(SubSeq(buf, first, last))
           IN IF d.ok THEN /\ got' = Append(got, d.packet)
                           /\ start' = last + 1 /\ pc' = pc
                      ELSE pc' = "exit" /\ UNCHANGED <<got, start>>
  BY DEF TakeFrame
<1>3. pc = "frames" /\ UNCHANGED <<writer, pty, buf>>
  BY DEF TakeFrame
<1>4. PICK end : Queued(end)
  BY DEF IInv
<1>5. Laid(r, sent, m, end) /\ m <= Len(sent)
      /\ \A i \in 1 .. m : got[i] \in {sent[i], Skipped}
  BY <1>4 DEF Queued, IInv, Taken
<1> DEFINE e == end[m + 1]
           p == sent[m + 1]
<1> HIDE DEF r, m
<1>6. /\ m < Len(sent) /\ p \in Packets /\ SubSeq(buf, first, last) = Body(p)
      /\ last + 1 = start + e - 1 /\ e >= 1
  <2>1. IsFrame(buf, start, first, last)
    BY <1>2
  <2> QED
    BY SMTT(30), <1>1, <1>5, <2>1, FirstFound
<1>7. got' = Append(got, p) /\ start' = last + 1 /\ pc' = pc
  <2> HIDE DEF p
  <2>1. Decode(Body(p)).ok /\ Decode(Body(p)).packet = p
    BY <1>6, Decoded
  <2> QED
    BY <1>2, <1>6, <2>1
<1>8. e \in Nat /\ e <= Len(r)
      /\ \E left : Laid(SubSeq(r, e, Len(r)), sent, m + 1, left) /\ left[m + 1] = 1
  <2>1. e \in Nat /\ e >= 1 /\ e <= e /\ \A j \in e .. e - 1 : r[j] # Flag
    <3>1. e \in Nat
      BY <1>1, <1>5, <1>6, FirstFits
    <3> HIDE DEF e
    <3> QED
      BY <1>6, <3>1
  <2>2. /\ e \in 1 .. Len(r)
        /\ \E left : /\ Laid(SubSeq(r, e, Len(r)), sent, m + 1, left)
                      /\ left[m + 1] = e - e + 1
    <3>1. \A c \in Nat : c >= 1 /\ c <= end[m + 1]
                         /\ (\A j \in c .. end[m + 1] - 1 : r[j] # Flag)
            => /\ end[m + 1] \in 1 .. Len(r)
               /\ \E left : /\ Laid(SubSeq(r, c, Len(r)), sent, m + 1, left)
                             /\ left[m + 1] = end[m + 1] - c + 1
      BY SMTT(30), <1>1, <1>5, <1>6, LaidTail
    <3> QED
      BY <1>6, <2>1, <3>1, Zenon
  <2>3. e - e + 1 = 1
    <3> HIDE DEF e
    <3> QED
      BY <2>1
  <2> HIDE DEF e
  <2> QED
    BY <1>1, <2>2, <2>3
<1>9. PICK left : Laid(SubSeq(r, e, Len(r)), sent, m + 1, left) /\ left[m + 1] = 1
  BY <1>8
<1> HIDE DEF e
<1>10. last \in 1 .. Len(buf) /\ last < Len(buf) /\ last + 1 <= Len(buf)
  <2>1. DOMAIN buf = 1 .. Len(buf)
    BY <1>1, LenProperties
  <2>2. last < Len(buf)
    BY <1>2 DEF IsFrame
  <2> QED
    BY <1>1, <2>1, <2>2
<1>11. Rest(buf, start, pty)' = SubSeq(r, e, Len(r))
  <2>1. start + e - 1 <= Len(buf)
    BY <1>6, <1>10
  <2>2. Rest(buf, start + e - 1, pty) = SubSeq(r, e, Len(r))
    BY ZenonT(40), <1>1, <1>6, <1>8, <2>1, RestOfTaken DEF r
  <2>3. Rest(buf, last + 1, pty) = SubSeq(r, e, Len(r))
    BY <1>6, <2>2
  <2> QED
    BY <1>3, <1>7, <2>3
<1>12. p \in Seq(Byte) /\ got' \in Seq(Seq(Byte)) /\ Len(got') = m + 1
  <2>1. p \in Seq(Byte)
    BY <1>6, PacketFacts
  <2> HIDE DEF p
  <2> QED
    BY <1>1, <1>7, <2>1, AppendProperties DEF m
<1>13. TypeOK'
  <2>1. /\ needFlag \in BOOLEAN /\ overrun \in BOOLEAN /\ failed \in BOOLEAN
        /\ Len(buf) <= Capacity
    BY DEF IInv, TypeOK
  <2>2. start' \in 1 .. Len(buf) + 1
    BY <1>1, <1>7, <1>10
  <2> QED
    BY <1>1, <1>3, <1>7, <1>12, <2>1, <2>2 DEF TypeOK, writer
<1>14. Taken'
  <2>1. \A i \in 1 .. m : got'[i] = got[i]
    BY <1>1, <1>7, <1>12, AppendProperties DEF m
  <2>2. got'[m + 1] = p
    BY <1>1, <1>7, <1>12, AppendProperties DEF m
  <2>3. ASSUME NEW i \in 1 .. m + 1 PROVE got'[i] \in {sent[i], Skipped}
    <3>1. i \in 1 .. m \/ i = m + 1
      BY <1>1
    <3> QED
      BY <1>5, <2>1, <2>2, <3>1
  <2>4. m + 1 <= Len(sent)
    BY <1>1, <1>6
  <2> QED
    BY <1>3, <1>12, <2>3, <2>4 DEF Taken, writer
<1>15. Queued(left)'
  <2>1. Laid(Rest(buf, start, pty)', sent', Len(got'), left)
    BY <1>3, <1>9, <1>11, <1>12 DEF writer
  <2> QED
    BY <1>3, <1>7, <1>9, <1>12, <2>1 DEF Queued
<1>16. (Len(Rest(buf, start, pty)) = 0 <=> sent = <<>>)'
  <2>1. sent # <<>>
    BY <1>1, <1>6, EmptySeq
  <2>2. Len(SubSeq(r, e, Len(r))) = Len(r) - e + 1
    <3>1. e \in 1 .. Len(r) + 1
      BY <1>1, <1>6, <1>8
    <3> QED
      BY <1>1, <3>1, Part
  <2>3. Len(Rest(buf, start, pty)') # 0
    BY <1>1, <1>8, <1>11, <2>2
  <2> QED
    BY <1>3, <2>1, <2>3 DEF writer
<1>17. EncoderFits' /\ (needFlag \/ sent # <<>>)'
  BY <1>3 DEF IInv, EncoderFits, writer
<1>18. pc' # "exit" /\ pc' # "read"
  BY <1>3, <1>7
<1> QED
  BY <1>18, <1>13, <1>14, <1>15, <1>16, <1>17 DEF IInv

\* A frame for which there is no memory: its bytes stay in front of its closing flag.
LEMMA NoMemoryStep ==
  ASSUME IInv, NoMemory
  PROVE  IInv'
<1> DEFINE r == Rest(buf, start, pty)
           m == Len(got)
<1>1. /\ r \in Seq(Byte) /\ Begun(buf, start, r) /\ Len(r) \in Nat
      /\ Len(buf) \in Nat /\ start \in Nat /\ Len(pty) \in Nat
      /\ m \in Nat /\ Len(sent) \in Nat /\ Capacity \in Nat
      /\ buf \in Seq(Byte) /\ start \in 1 .. Len(buf) + 1 /\ pty \in Seq(Byte)
      /\ sent \in Seq(Packets) /\ got \in Seq(Seq(Byte))
      /\ Len(r) = Len(buf) - start + 1 + Len(pty)
  BY Now
<1>2. PICK first \in DOMAIN buf, last \in DOMAIN buf :
        /\ IsFrame(buf, start, first, last)
        /\ buf' = SubSeq(buf, first, Len(buf)) /\ start' = 1
  BY DEF NoMemory
<1>3. /\ pc' \in {"read", "exit"} /\ got' = Append(got, Skipped)
      /\ UNCHANGED <<writer, pty>>
  BY DEF NoMemory
<1>4. PICK end : Queued(end)
  BY DEF IInv
<1>5. Laid(r, sent, m, end) /\ m <= Len(sent)
      /\ \A i \in 1 .. m : got[i] \in {sent[i], Skipped}
  BY <1>4 DEF Queued, IInv, Taken
<1> DEFINE e == end[m + 1]
           c == first - start + 1
<1>6. /\ got' \in Seq(Seq(Byte)) /\ Len(got') = m + 1 /\ got'[m + 1] = Skipped
      /\ \A i \in 1 .. m : got'[i] = got[i]
  <2>1. Skipped \in Seq(Byte)
    BY DEF Skipped
  <2> QED
    BY <1>1, <1>3, <2>1, AppendProperties
<1> HIDE DEF r, m
<1>7. m < Len(sent) /\ last + 1 = start + e - 1 /\ e >= 1
  BY SMTT(30), <1>1, <1>2, <1>5, FirstFound
<1>8. e \in Nat
  BY <1>1, <1>5, <1>7, FirstFits
<1> HIDE DEF e
<1>9. /\ first \in 1 .. Len(buf) /\ last \in 1 .. Len(buf) /\ last < Len(buf)
      /\ start < first /\ first <= last /\ \A k \in first .. last : buf[k] # Flag
  <2>1. DOMAIN buf = 1 .. Len(buf)
    BY <1>1, LenProperties
  <2>2. /\ last < Len(buf) /\ start < first /\ first <= last
        /\ \A k \in first .. last : buf[k] # Flag
    <3>1. first > start /\ last >= first /\ last < Len(buf)
      BY <1>2 DEF IsFrame
    <3>2. \A k \in first .. last : buf[k] # Flag
      BY <1>2, Zenon DEF IsFrame
    <3>3. first \in Nat /\ last \in Nat
      BY <1>1, <2>1
    <3> QED
      BY <1>1, <3>1, <3>2, <3>3
  <2> QED
    BY <2>1, <2>2
<1>22. first \in Nat /\ last \in Nat
  BY <1>1, <1>9
<1>23. /\ start < first /\ first <= last /\ start \in Nat /\ first \in Nat
       /\ last \in Nat /\ e \in Nat /\ last + 1 = start + e - 1
       /\ last < Len(buf) /\ Len(buf) \in Nat /\ start >= 1
  BY <1>1, <1>7, <1>8, <1>9, <1>22
<1>10. c \in Nat /\ c >= 1 /\ c <= e /\ start + c - 1 = first
  BY ONLY SMTT(30), <1>23
<1>11. ASSUME NEW j \in c .. e - 1 PROVE r[j] # Flag
  <2>1. /\ j \in 1 .. Len(buf) - start + 1 /\ start + j - 1 \in first .. last
    BY ONLY SMTT(30), <1>11, <1>23
  <2>2. r[j] = buf[start + j - 1]
    BY <1>1, <2>1 DEF Begun
  <2> QED
    BY <1>9, <2>1, <2>2
<1>12. Taken' /\ JustSkipped'
  <2>1. m + 1 <= Len(sent) /\ m + 1 > 0
    BY <1>1, <1>7
  <2>2. ASSUME NEW i \in 1 .. m + 1 PROVE got'[i] \in {sent[i], Skipped}
    <3>1. i \in 1 .. m \/ i = m + 1
      BY <1>1
    <3> QED
      BY <1>5, <1>6, <3>1
  <2> QED
    BY <1>3, <1>6, <2>1, <2>2 DEF Taken, JustSkipped, writer
<1> HIDE DEF c
<1>13. \E left : Laid(SubSeq(r, c, Len(r)), sent, m + 1, left)
  BY <1>1, <1>5, <1>7, <1>10, <1>11, LaidTail DEF e
<1>14. sent # <<>>
  BY <1>1, <1>7, EmptySeq
<1>15. /\ buf' \in Seq(Byte) /\ Len(buf') = Len(buf) - first + 1
       /\ Rest(buf, start, pty)' = Rest(buf, first, pty)
  <2>1. first \in 1 .. Len(buf) + 1
    BY <1>1, <1>9
  <2> QED
    BY <1>1, <1>2, <1>3, <2>1, RestOfShift
<1>16. Rest(buf, first, pty) = SubSeq(r, c, Len(r))
  <2>1. start + c - 1 <= Len(buf)
    BY <1>1, <1>9, <1>10
  <2>2. Rest(buf, start + c - 1, pty) = SubSeq(r, c, Len(r))
    BY ZenonT(40), <1>1, <1>10, <2>1, RestOfTaken DEF r
  <2> QED
    BY <1>10, <2>2
<1>17. PICK left : Laid(SubSeq(r, c, Len(r)), sent, m + 1, left)
  BY <1>13
<1>18. Queued(left)'
  BY <1>3, <1>6, <1>12, <1>15, <1>16, <1>17 DEF Queued, writer
<1>19. TypeOK'
  <2>1. /\ needFlag \in BOOLEAN /\ overrun \in BOOLEAN /\ failed \in BOOLEAN
        /\ Len(buf) <= Capacity
    BY DEF IInv, TypeOK
  <2>2. Len(buf') <= Capacity /\ start' \in 1 .. Len(buf') + 1
    BY SMTT(30), <1>1, <1>2, <1>9, <1>15, <2>1
  <2> QED
    BY <1>1, <1>3, <1>6, <1>15, <2>1, <2>2 DEF TypeOK, writer
<1>20. Len(Rest(buf, start, pty)') # 0
  <2>1. first \in 1 .. Len(buf) + 1
    BY <1>1, <1>9
  <2>2. Len(Rest(buf, first, pty)) = Len(buf) - first + 1 + Len(pty)
    BY <1>1, <2>1, RestFacts
  <2> QED
    BY SMTT(30), <1>1, <1>9, <1>15, <2>2
<1>21. EncoderFits' /\ sent' # <<>>
  BY <1>3, <1>14 DEF IInv, EncoderFits, writer
<1> QED
  BY <1>2, <1>12, <1>18, <1>19, <1>20, <1>21 DEF IInv

\* Nothing but the beginning of a frame is left in the buffer when the thread reads.
LEMMA ShiftStep ==
  ASSUME IInv, Shift
  PROVE  IInv'
<1> DEFINE r == Rest(buf, start, pty)
           m == Len(got)
<1>1. /\ r \in Seq(Byte) /\ Begun(buf, start, r) /\ Len(r) \in Nat
      /\ Len(buf) \in Nat /\ start \in Nat /\ Len(pty) \in Nat
      /\ m \in Nat /\ Len(sent) \in Nat /\ Capacity \in Nat
      /\ buf \in Seq(Byte) /\ start \in 1 .. Len(buf) + 1 /\ pty \in Seq(Byte)
      /\ sent \in Seq(Packets) /\ got \in Seq(Seq(Byte))
  BY Now
<1>2. /\ NoFrame /\ buf' = SubSeq(buf, start, Len(buf)) /\ start' = 1 /\ pc' = "read"
      /\ UNCHANGED <<writer, pty, got>>
  BY DEF Shift
<1>3. /\ Rest(buf, start, pty)' = r /\ buf' \in Seq(Byte)
      /\ Len(buf') = Len(buf) - start + 1
  BY <1>1, <1>2, RestOfShift
<1>4. PICK end : Queued(end)
  BY DEF IInv
<1>5. Laid(r, sent, m, end)
  BY <1>4 DEF Queued
<1> HIDE DEF r, m
<1>6. ASSUME m < Len(sent), ~JustSkipped PROVE end[m + 1] > Len(buf')
  <2>1. ~(end[m + 1] <= Len(buf) - start + 1)
    BY <1>1, <1>2, <1>5, <1>6, CompleteFound DEF NoFrame
  <2>2. end[m + 1] \in Nat
    BY <1>1, <1>5, <1>6, FirstFits
  <2> QED
    BY <1>1, <1>3, <2>1, <2>2
<1>7. Queued(end)'
  BY <1>2, <1>3, <1>4, <1>5, <1>6 DEF Queued, JustSkipped, writer, m
<1>8. TypeOK'
  <2>1. /\ needFlag \in BOOLEAN /\ overrun \in BOOLEAN /\ failed \in BOOLEAN
        /\ Len(buf) <= Capacity
    BY DEF IInv, TypeOK
  <2>2. Len(buf') <= Capacity /\ 1 \in 1 .. Len(buf') + 1
    BY <1>1, <1>3, <2>1
  <2> QED
    BY <1>1, <1>2, <1>3, <2>1, <2>2 DEF TypeOK, writer
<1>9. (Taken /\ EncoderFits)' /\ (needFlag \/ sent # <<>>)'
  BY <1>2 DEF IInv, Taken, EncoderFits, writer
<1>10. (Len(Rest(buf, start, pty)) = 0 <=> sent = <<>>)'
  BY <1>2, <1>3 DEF IInv, writer, r
<1> QED
  BY <1>2, <1>7, <1>8, <1>9, <1>10 DEF IInv

\* Each action keeps the invariant.
LEMMA StepInv == IInv /\ [Next]_vars => IInv'
<1> SUFFICES ASSUME IInv, [Next]_vars PROVE IInv'
  OBVIOUS
<1>1. CASE \E p \in Packets, flag \in BOOLEAN : Encode(p, flag)
  BY <1>1, EncodeStep
<1>2. CASE Read
  BY <1>2, ReadStep
<1>3. CASE TakeFrame
  BY <1>3, TakeFrameStep
<1>4. CASE Shift
  BY <1>4, ShiftStep
<1>5. CASE UNCHANGED vars
  BY <1>5 DEF vars, writer, IInv, TypeOK, Taken, EncoderFits, Queued, JustSkipped
<1>6. CASE NoMemory
  BY <1>6, NoMemoryStep
<1> QED
  BY <1>1, <1>2, <1>3, <1>4, <1>5, <1>6 DEF Next

\* The invariant holds in every state.
LEMMA Invariant == Spec => []IInv
BY InitInv, StepInv, PTL DEF Spec

-----------------------------------------------------------------------------
(* What follows *)

\* The buffer of pppd_read never holds more than it has room for, and its place in it
\* stays inside.
THEOREM TypeCorrect == Spec => []TypeOK
<1>1. IInv => TypeOK
  BY DEF IInv
<1> QED
  BY <1>1, Invariant, PTL

\* pppd_read pushes exactly the packets that were framed, in their order, wherever
\* its reads cut the stream and however often there is no memory for one of them.
THEOREM InOrder == Spec => []PacketsInOrder
<1>1. IInv => PacketsInOrder
  <2> SUFFICES ASSUME IInv PROVE PacketsInOrder
    OBVIOUS
  <2>1. DOMAIN got = 1 .. Len(got)
    BY Now, LenProperties
  <2> QED
    BY <2>1 DEF IInv, Taken, PacketsInOrder
<1> QED
  BY <1>1, Invariant, PTL

\* No frame is found invalid, the buffer always has room for a read, and a thread that
\* has read everything has taken everything, unless it has just skipped a frame.
THEOREM AllTaken == Spec => []NothingLeft
<1>1. IInv => NothingLeft
  <2> SUFFICES ASSUME IInv, ~JustSkipped, pc = "read", pty = <<>>
               PROVE Len(got) = Len(sent)
    BY DEF NothingLeft, IInv
  <2> DEFINE r == Rest(buf, start, pty)
             m == Len(got)
  <2>1. /\ Len(r) = Len(buf) - start + 1 + Len(pty) /\ Len(buf) \in Nat
        /\ m \in Nat /\ Len(sent) \in Nat /\ sent \in Seq(Packets)
    BY Now
  <2>2. Len(r) = Len(buf)
    <3>1. start = 1 /\ Len(pty) = 0
      BY DEF IInv
    <3> QED
      BY <2>1, <3>1
  <2>3. PICK end : Queued(end)
    BY DEF IInv
  <2>4. Laid(r, sent, m, end) /\ (m < Len(sent) => end[m + 1] > Len(buf))
    BY <2>3 DEF Queued
  <2>5. m <= Len(sent)
    BY DEF IInv, Taken
  <2> HIDE DEF r
  <2>6. CASE m < Len(sent)
    <3>1. end[m + 1] \in Nat /\ end[m + 1] <= Len(r)
      BY <2>1, <2>4, <2>6, FirstFits
    <3> QED
      BY <2>1, <2>2, <2>4, <2>6, <3>1
  <2> QED
    BY <2>1, <2>5, <2>6
<1> QED
  BY <1>1, Invariant, PTL

\* The buffer that hdlc_encode gets is large enough for every packet.
THEOREM EncoderSafe == Spec => []EncoderFits
<1>1. IInv => EncoderFits
  BY DEF IInv
<1> QED
  BY <1>1, Invariant, PTL
=============================================================================
