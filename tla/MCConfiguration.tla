-------------------------- MODULE MCConfiguration --------------------------
(* Configuration for TLC: one option of each kind with the values that       *)
(* matter for it, two on the command line and two lines of the file.         *)
EXTENDS Configuration

Items(k, vs) == {[key |-> k, val |-> v] : v \in vs}

MCArgs ==
  Items("set-routes", {"0", "bad"}) \cup Items("persistent", {"1", "max"})
  \cup Items("username", {"a", "empty"}) \cup Items("otp-prompt", {"a"})
  \cup Items("user-cert", {"a", "pkcs11"}) \cup Items("password", {"empty"})
  \cup Items("saml-login", {"a", "0", "bad"}) \cup Items("min-tls", {"b"})
  \cup Items("trusted-cert", {"a", "bad"}) \cup Items("cookie", {"a"})
  \cup Items("unknown", {"a"}) \cup Items("host", {"a"}) \cup Items("port", {"1", "bad"})

MCLines ==
  Items("set-routes", {"1", "bad"}) \cup Items("persistent", {"b", "max"})
  \cup Items("username", {"b", "empty"}) \cup Items("otp-prompt", {"b"})
  \cup Items("user-cert", {"b", "pkcs11"}) \cup Items("password", {"b"})
  \cup Items("saml-login", {"b", "0", "bad"}) \cup Items("min-tls", {"1"})
  \cup Items("trusted-cert", {"b", "bad"})
  \cup Items("unknown", {"b"}) \cup Items("none", {"b"}) \cup Items("port", {"b", "bad"})
  \cup Items("host", {"b"})
=============================================================================
