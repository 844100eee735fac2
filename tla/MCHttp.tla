------------------------------- MODULE MCHttp -------------------------------
(* Http for TLC: numbers of five bits, a buffer of 4 bytes that may become  *)
(* one of 16.                                                               *)
EXTENDS Http

R(h, l, b) == [header |-> h, length |-> l, body |-> b, chunked |-> FALSE, ends |-> {}, denial |-> 0]
C(h, b, e) == [header |-> h, length |-> -1, body |-> b, chunked |-> TRUE, ends |-> e, denial |-> 0]
D(r, at) == [r EXCEPT !.denial = at]

MCResponses ==
  {R(1, 0, 0), R(2, 1, 1), R(2, 2, 2), R(3, 6, 6), R(2, -1, 0), R(2, 40, 40), R(2, 13, 13), R(2, 14, 14),
   R(2, 15, 15), D(R(2, 2, 2), 4), D(R(3, 2, 2), 2),
   R(2, -1, 3), R(2, 4, 3), R(2, 2, 3), C(2, 4, {6}), C(2, 5, {4, 7}), C(2, 6, {8})}
=============================================================================
