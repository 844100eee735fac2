------------------------------ MODULE MCClient ------------------------------
(* Instances of Client for TLC. *)
EXTENDS Client

\* Every way to authenticate with everything else switched on or off, and the
\* configurations main refuses.
Plain == [auth |-> "password", usable |-> TRUE, root |-> TRUE,
          fromFile |-> TRUE, persistent |-> FALSE, proxy |-> FALSE,
          cert |-> FALSE, otp |-> FALSE, push |-> FALSE]

SmallConfigs ==
  {[Plain EXCEPT !.persistent = TRUE, !.otp = TRUE, !.cert = TRUE],
   [Plain EXCEPT !.push = TRUE, !.proxy = TRUE],
   [Plain EXCEPT !.auth = "saml"],
   [Plain EXCEPT !.auth = "cookie", !.fromFile = FALSE],
   [Plain EXCEPT !.auth = "badCookie"],
   [Plain EXCEPT !.usable = FALSE],
   [Plain EXCEPT !.root = FALSE]}
=============================================================================
