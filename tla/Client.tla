------------------------------- MODULE Client -------------------------------
(***************************************************************************)
(* The life of one openfortivpn process: the checks of main.c, the SAML    *)
(* server of http_server.c, run_tunnel with its TLS connections and HTTP   *)
(* requests (tunnel.c, http.c), pppd, the log out, and the loop of         *)
(* --persistent.                                                           *)
(*                                                                         *)
(* The program is sequential: pc is the place it has reached.  ssl_connect *)
(* and http_request are called from several places; back and req say where *)
(* they return to.  The environment is the gateway (it grants sessions,    *)
(* answers, or lets the connection fail at any moment), pppd, the resolver *)
(* and the user who sends SIGINT or SIGTERM.  Inside io_loop only its      *)
(* beginning and its end are visible: TunnelIO has the rest.               *)
(***************************************************************************)
EXTENDS Integers

CONSTANTS Configs,    \* configurations after merge_config, see ConfigType
          Addresses,  \* addresses the gateway's name can resolve to
          MaxRuns,    \* bound: runs of a persistent client
          MaxGrants,  \* bound: sessions the gateway grants
          Faults      \* which system calls can fail, see FaultKinds

\* fcntl on the pty, after the fork of pppd; memory for the arguments of pppd, in its
\* child; waitpid.
FaultKinds == {"fcntl", "arguments", "waitpid"}

ConfigType ==
  [auth : {"cookie", "badCookie", "saml", "password", "certificate"},
   usable : BOOLEAN,      \* host, port and user pass the checks of main
   root : BOOLEAN,        \* geteuid() is 0
   fromFile : BOOLEAN,    \* load_config has read a file
   persistent : BOOLEAN,
   proxy : BOOLEAN,       \* https_proxy or one of its variants is set
   cert : BOOLEAN,        \* a client certificate, in a file or a PKCS#11 token
   otp : BOOLEAN,         \* a one-time password is configured
   push : BOOLEAN]        \* FTM push is not disabled

NoAddress == 0

ASSUME ConstantsAssumption ==
  /\ Configs \subseteq ConfigType
  /\ NoAddress \notin Addresses
  /\ MaxRuns \in Nat /\ MaxGrants \in Nat
  /\ Faults \subseteq FaultKinds

VARIABLES
  cfg,
  pc, run, success,         \* main: place, runs begun, ret is EXIT_SUCCESS
  sig, handler, stop,       \* sig_received, sig_handler installed, sem_stop_io
  samlId, tries,            \* cfg.saml_session_id, max_tries
  ip, env,                  \* config->gateway_ip, VPN_GATEWAY
  sock, ctx, ssl,           \* ssl_socket, ssl_context and ssl_handle are set
  verified,                 \* the peer of ssl_handle passed ssl_verify_cert
  fds,                      \* TCP sockets of the process
  back,                     \* where ssl_connect returns to
  req, try,                 \* http_request: which one, first or second attempt
  cookie, otp,              \* tunnel->cookie, config->otp
  open, answer, granted,    \* gateway: its sessions, the cookie on the way
  unknown,                  \* sessions whose cookie never was in tunnel->cookie
  abandoned,                \* sessions whose log out failed
  pppd, orphan,             \* pppd of this run; one that was never recorded
  up, ok                    \* STATE_UP; ret of run_tunnel is 0

mainVars == <<run, success>>
sigVars == <<sig, handler, stop>>
samlVars == <<samlId, tries>>
addrVars == <<ip, env>>
connVars == <<sock, ctx, ssl, verified, fds>>
callVars == <<back, req, try>>
authVars == <<cookie, otp>>
gateVars == <<open, answer, granted, unknown, abandoned>>
pppdVars == <<pppd, orphan, up, ok>>
vars == <<cfg, pc, mainVars, sigVars, samlVars, addrVars, connVars, callVars,
          authVars, gateVars, pppdVars>>

\* No cookie, or the cookie of a session.  The session of --cookie is 1.
\* The answer to a request that does not arrive is Lost.
NoCookie == 0
Lost == -1
Session == 1 .. MaxGrants + 1

Connecting == {"disconnect", "tcp", "proxy", "context", "certificate", "handshake", "verify"}
Requesting == {"send", "receive"}
AtRest == {"sleep", "exit"}
Place == {"start", "saml", "resolve", "authenticate", "askOtp", "askToken",
          "pppd", "switch", "io", "down", "reap", "loggedOut", "closed",
          "killed", "crashed"} \cup Connecting \cup Requesting \cup AtRest
Caller == {"gateway", "config", "logout", "retry"}
Login == {"login", "otp"}
Request == Login \cup {"token", "push", "hostcheck", "index", "allocate",
                       "xml", "logout"}

TypeOK ==
  /\ cfg \in ConfigType
  /\ pc \in Place /\ run \in Nat /\ success \in BOOLEAN
  /\ sig \in BOOLEAN /\ handler \in BOOLEAN /\ stop \in BOOLEAN
  /\ samlId \in {"none", "good", "refused"} /\ tries \in 0 .. 5
  /\ ip \in Addresses \cup {NoAddress} /\ env \in Addresses \cup {NoAddress}
  /\ sock \in BOOLEAN /\ ctx \in BOOLEAN /\ ssl \in BOOLEAN
  /\ verified \in BOOLEAN /\ fds \in Nat
  /\ back \in Caller /\ req \in Request /\ try \in 1 .. 2
  /\ cookie \in Session \cup {NoCookie}
  /\ otp \in {"none", "fresh", "used", "usedAsToken"}
  /\ open \in SUBSET Session /\ unknown \in SUBSET Session
  /\ abandoned \in SUBSET Session
  /\ answer \in Session \cup {NoCookie, Lost} /\ granted \in 0 .. MaxGrants
  /\ pppd \in {"none", "running", "reaped", "lost"} /\ orphan \in BOOLEAN
  /\ up \in BOOLEAN /\ ok \in BOOLEAN

\* ret is EXIT_FAILURE until load_config has set it to 0.
Init ==
  /\ cfg \in Configs
  /\ pc = "start" /\ run = 0 /\ success = cfg.fromFile
  /\ sig = FALSE /\ handler = FALSE /\ stop = FALSE
  /\ samlId = "none" /\ tries = 5
  /\ ip = NoAddress /\ env = NoAddress
  /\ sock = FALSE /\ ctx = FALSE /\ ssl = FALSE /\ verified = FALSE /\ fds = 0
  /\ back = "gateway" /\ req = "login" /\ try = 1
  /\ cookie = NoCookie /\ otp = IF cfg.otp THEN "fresh" ELSE "none"
  /\ open = IF cfg.auth = "cookie" THEN {1} ELSE {}
  /\ answer = NoCookie /\ granted = 0 /\ unknown = open /\ abandoned = {}
  /\ pppd = "none" /\ orphan = FALSE /\ up = FALSE /\ ok = FALSE

Goto(p) == pc' = p

\* The session the client has a cookie of.
Known == {cookie} \ {NoCookie}

\* A call of ssl_connect, which ends in a step of its own, and a call of
\* http_request.
Connect(b) == Goto("disconnect") /\ back' = b
Ask(r) == Goto("send") /\ req' = r /\ try' = 1

\* Mutant of ErrTunnel: a failure returns at once.
ReturnAtOnce == Goto("closed") /\ UNCHANGED callVars

\* goto err_tunnel: the log out is tried whatever has gone wrong.
ErrTunnel == Connect("logout") /\ UNCHANGED <<req, try>>

-----------------------------------------------------------------------------
(* main: checks, SAML server, and the loop of --persistent *)

\* user_error and the check for root.  ret is left as load_config set it by the
\* former and made EXIT_FAILURE by the latter.
Refuse ==
  /\ pc = "start" /\ ~(cfg.usable /\ cfg.root)
  /\ Goto("exit")
  /\ success' = (success /\ ~cfg.usable)
  /\ UNCHANGED <<cfg, run, sigVars, samlVars, addrVars, connVars, callVars,
                 authVars, gateVars, pppdVars>>

Start ==
  /\ pc = "start" /\ cfg.usable /\ cfg.root
  /\ IF cfg.auth = "saml" THEN Goto("saml") /\ run' = run
                          ELSE Goto("resolve") /\ run' = run + 1
  /\ UNCHANGED <<cfg, success, sigVars, samlVars, addrVars, connVars, callVars,
                 authVars, gateVars, pppdVars>>

\* process_request copies the id into the configuration before it looks at its
\* characters, and after it has looked at its length.
AfterRequest(id, result) ==
  samlId' = CASE result = "badFormat" -> id
              [] result = "badCharacter" -> "refused"
              [] result = "accepted" -> "good"

\* One round of the loop in wait_for_http_request that ends with a request, a
\* timeout or a failed accept.
SamlRequest(result) ==
  /\ pc = "saml" /\ tries > 0
  /\ AfterRequest(samlId, result)
  /\ tries' = tries - 1
  /\ IF result = "accepted" THEN Goto("resolve") /\ run' = run + 1
                            ELSE pc' = pc /\ run' = run
  /\ UNCHANGED <<cfg, success, sigVars, addrVars, connVars, callVars, authVars,
                 gateVars, pppdVars>>

SamlTimeout ==
  /\ pc = "saml" /\ tries > 0
  /\ tries' = tries - 1
  /\ UNCHANGED <<cfg, pc, mainVars, sigVars, samlId, addrVars, connVars,
                 callVars, authVars, gateVars, pppdVars>>

\* No tries left, a failing select, or no socket to listen on (which is found
\* out before the first try).  Whatever id there is, is taken.
SamlEnds(why) ==
  /\ pc = "saml"
  /\ \/ why = "tries" /\ tries = 0
     \/ why = "select" /\ tries > 0
     \/ why = "listen" /\ tries = 5
  /\ IF samlId # "none" THEN Goto("resolve") /\ run' = run + 1 /\ UNCHANGED success
                        ELSE Goto("exit") /\ success' = FALSE /\ run' = run
  /\ UNCHANGED <<cfg, sigVars, samlVars, addrVars, connVars, callVars, authVars,
                 gateVars, pppdVars>>

\* run_tunnel has returned.
RunEnds ==
  /\ pc = "closed"
  /\ success' = ok
  /\ IF cfg.persistent /\ ~sig THEN Goto("sleep") ELSE Goto("exit")
  /\ UNCHANGED <<cfg, run, sigVars, samlVars, addrVars, connVars, callVars,
                 authVars, gateVars, pppdVars>>

\* The sleep is over, by itself or by a signal: the next run begins with a new
\* struct tunnel and the configuration of the last one.
WakeUp ==
  /\ pc = "sleep" /\ ~sig /\ run < MaxRuns
  /\ Goto("resolve") /\ run' = run + 1
  /\ sock' = FALSE /\ ctx' = FALSE /\ ssl' = FALSE
  /\ cookie' = NoCookie
  /\ pppd' = "none" /\ up' = FALSE /\ ok' = FALSE
  /\ UNCHANGED <<cfg, success, sigVars, samlVars, addrVars, verified, fds,
                 callVars, otp, gateVars, orphan>>

StopSleeping ==
  /\ pc = "sleep" /\ sig
  /\ Goto("exit")
  /\ UNCHANGED <<cfg, mainVars, sigVars, samlVars, addrVars, connVars, callVars,
                 authVars, gateVars, pppdVars>>

-----------------------------------------------------------------------------
(* ssl_connect *)

\* get_gateway_host_ip.  setenv does not overwrite VPN_GATEWAY.
Resolve(a) ==
  /\ pc = "resolve"
  /\ ip' = a
  /\ env' = IF env = NoAddress THEN a ELSE env
  /\ Connect("gateway")
  /\ UNCHANGED <<cfg, mainVars, sigVars, samlVars, connVars, req, try, authVars,
                 gateVars, pppdVars>>

ResolveFails ==
  /\ pc = "resolve"
  /\ ErrTunnel
  /\ UNCHANGED <<cfg, mainVars, sigVars, samlVars, addrVars, connVars, authVars,
                 gateVars, pppdVars>>

\* Mutant of SslDisconnect: the socket is not closed.
SslDisconnectLeaky ==
  /\ pc \in {"disconnect", "loggedOut"}
  /\ Goto(IF pc = "disconnect" THEN "tcp" ELSE "closed")
  /\ ssl' = FALSE
  /\ IF ssl THEN ctx' = FALSE /\ sock' = FALSE ELSE UNCHANGED <<ctx, sock>>
  /\ UNCHANGED <<cfg, mainVars, sigVars, samlVars, addrVars, verified, fds,
                 callVars, authVars, gateVars, pppdVars>>

\* ssl_disconnect, first thing in ssl_connect and last thing after the log out:
\* without a handle it leaves the rest alone.
SslDisconnect ==
  /\ pc \in {"disconnect", "loggedOut"}
  /\ Goto(IF pc = "disconnect" THEN "tcp" ELSE "closed")
  /\ ssl' = FALSE
  /\ IF ssl THEN ctx' = FALSE /\ sock' = FALSE /\ fds' = fds - 1
            ELSE UNCHANGED <<ctx, sock, fds>>
  /\ UNCHANGED <<cfg, mainVars, sigVars, samlVars, addrVars, verified, callVars,
                 authVars, gateVars, pppdVars>>

\* ssl_connect returns: to run_tunnel, or to http_request, which does not look
\* at the result and sends once more.
Returned(worked) ==
  \/ back = "retry" /\ Goto("send") /\ try' = 2 /\ UNCHANGED <<back, req>>
  \/ back = "gateway" /\ worked /\ Goto("authenticate") /\ UNCHANGED callVars
  \/ back = "config" /\ worked /\ Ask("xml") /\ UNCHANGED back
  \/ back \in {"gateway", "config"} /\ ~worked /\ ErrTunnel
  \/ back = "logout" /\ worked /\ Ask("logout") /\ UNCHANGED back
  \/ back = "logout" /\ ~worked /\ Goto("closed") /\ UNCHANGED callVars

\* Without a connection there is no log out.
NoLogout == abandoned' = IF back = "logout" THEN abandoned \cup Known ELSE abandoned

\* socket and connect, to the proxy if there is one.  The descriptor is in
\* ssl_socket when tcp_connect has returned.
TcpConnect ==
  /\ pc = "tcp"
  /\ fds' = fds + 1
  /\ IF cfg.proxy THEN Goto("proxy") /\ sock' = FALSE
                  ELSE Goto("context") /\ sock' = TRUE
  /\ UNCHANGED <<cfg, mainVars, sigVars, samlVars, addrVars, ctx, ssl, verified,
                 callVars, authVars, gateVars, pppdVars>>

\* The proxy answers CONNECT with 200 and an empty line.
ProxyConnect ==
  /\ pc = "proxy"
  /\ Goto("context") /\ sock' = TRUE
  /\ UNCHANGED <<cfg, mainVars, sigVars, samlVars, addrVars, ctx, ssl, verified,
                 fds, callVars, authVars, gateVars, pppdVars>>

\* No socket, an interface that cannot be bound, a proxy that is not found, no
\* connection, or another answer of the proxy.
TcpFails ==
  /\ pc \in {"tcp", "proxy"}
  /\ fds' = IF pc = "proxy" THEN fds - 1 ELSE fds
  /\ sock' = FALSE
  /\ Returned(FALSE) /\ NoLogout
  /\ UNCHANGED <<cfg, mainVars, sigVars, samlVars, addrVars, ctx, ssl, verified,
                 authVars, open, answer, granted, unknown, pppdVars>>

\* SSL_CTX_new and the settings of the context.
NewContext ==
  /\ pc = "context"
  /\ ctx' = TRUE
  /\ Goto(IF cfg.cert THEN "certificate" ELSE "handshake")
  /\ UNCHANGED <<cfg, mainVars, sigVars, samlVars, addrVars, sock, ssl, verified,
                 fds, callVars, authVars, gateVars, pppdVars>>

\* The certificate and the key of the client, from files or from a token.
ClientCertificate ==
  /\ pc = "certificate"
  /\ Goto("handshake")
  /\ UNCHANGED <<cfg, mainVars, sigVars, samlVars, addrVars, connVars, callVars,
                 authVars, gateVars, pppdVars>>

\* SSL_new and SSL_connect.
Handshake ==
  /\ pc = "handshake"
  /\ ssl' = TRUE /\ verified' = FALSE
  /\ Goto("verify")
  /\ UNCHANGED <<cfg, mainVars, sigVars, samlVars, addrVars, sock, ctx, fds,
                 callVars, authVars, gateVars, pppdVars>>

\* The local PKI vouches for the certificate and the host's name is in it, or
\* its digest is in the list of trusted certificates.
VerifyCert ==
  /\ pc = "verify"
  /\ verified' = TRUE
  /\ Returned(TRUE)
  /\ UNCHANGED <<cfg, mainVars, sigVars, samlVars, addrVars, sock, ctx, ssl, fds,
                 authVars, gateVars, pppdVars>>

\* Mutant of ConnectFails: after a refused certificate the handle stays.
ConnectFailsKeepsHandle ==
  /\ pc \in {"context", "certificate", "handshake", "verify"}
  /\ IF pc = "verify" THEN UNCHANGED <<ssl, ctx, sock, fds>>
     ELSE ssl' = FALSE /\ ctx' = FALSE /\ sock' = FALSE /\ fds' = fds - 1
  /\ Returned(FALSE) /\ NoLogout
  /\ UNCHANGED <<cfg, mainVars, sigVars, samlVars, addrVars, verified, authVars,
                 open, answer, granted, unknown, pppdVars>>

\* err_ssl_handle, err_ssl_context and err_ssl_socket: a failure at any step
\* takes back what was made before it.
ConnectFails ==
  /\ pc \in {"context", "certificate", "handshake", "verify"}
  /\ ssl' = FALSE /\ ctx' = FALSE /\ sock' = FALSE
  /\ fds' = fds - 1
  /\ Returned(FALSE) /\ NoLogout
  /\ UNCHANGED <<cfg, mainVars, sigVars, samlVars, addrVars, verified, authVars,
                 open, answer, granted, unknown, pppdVars>>

-----------------------------------------------------------------------------
(* http_request, the requests of the log in and those that follow *)

\* --cookie.
SetCookie ==
  /\ pc = "authenticate" /\ cfg.auth = "cookie"
  /\ cookie' = 1
  /\ unknown' = unknown \ {1}
  /\ Ask("index")
  /\ UNCHANGED <<cfg, mainVars, sigVars, samlVars, addrVars, connVars, back, otp,
                 open, answer, granted, abandoned, pppdVars>>

\* --cookie without the name SVPNCOOKIE, with an empty value, or too long a one.
BadCookie ==
  /\ pc = "authenticate" /\ cfg.auth = "badCookie"
  /\ ErrTunnel
  /\ UNCHANGED <<cfg, mainVars, sigVars, samlVars, addrVars, connVars, authVars,
                 gateVars, pppdVars>>

\* auth_log_in: the SAML id, the user's name and password, or the name alone.
LogIn ==
  /\ pc = "authenticate" /\ cfg.auth \notin {"cookie", "badCookie"}
  /\ cookie' = NoCookie
  /\ Ask("login")
  /\ UNCHANGED <<cfg, mainVars, sigVars, samlVars, addrVars, connVars, back, otp,
                 gateVars, pppdVars>>

\* What the gateway does with a request that arrives: it may open a session for
\* a log in, and it closes the session of a log out.
Handle ==
  \/ /\ answer' = NoCookie
     /\ open' = IF req = "logout" THEN open \ {cookie} ELSE open
     /\ UNCHANGED granted
  \/ /\ req \in Login \cup {"token", "push"} /\ granted < MaxGrants
     /\ granted' = granted + 1
     /\ answer' = granted + 2
     /\ open' = open \cup {granted + 2}

\* http_send: the request is written, whether it arrives or not.  A one-time
\* password has been used then.
Send ==
  /\ pc = "send" /\ ssl
  /\ Goto("receive")
  /\ \/ Handle
     \/ answer' = Lost /\ UNCHANGED <<open, granted>>
  /\ otp' = IF req = "otp" THEN "used" ELSE IF req = "token" THEN "usedAsToken" ELSE otp
  /\ UNCHANGED <<cfg, mainVars, sigVars, samlVars, addrVars, connVars, callVars,
                 cookie, unknown, abandoned, pppdVars>>

\* Mutant of OtpAfter: the password is kept for the next run.
OtpKept == otp

\* try_otp_auth forgets the password when its request has ended.
OtpAfter == IF req = "otp" THEN "none" ELSE otp

\* The caller of http_request gets an error.  auth_log_out's result is not
\* looked at; every other caller ends in err_tunnel.
RequestFails ==
  /\ otp' = OtpAfter
  /\ IF req = "logout"
     THEN Goto("loggedOut") /\ abandoned' = abandoned \cup Known
          /\ UNCHANGED callVars
     ELSE ErrTunnel /\ UNCHANGED abandoned

\* Mutant of Broken: the second failure makes http_request try again.
BrokenAgain ==
  Connect("retry") /\ UNCHANGED <<req, try, otp, abandoned>>

\* ERR_HTTP_TLS: http_request connects again, once.
Broken ==
  IF try = 1 THEN Connect("retry") /\ UNCHANGED <<req, try, otp, abandoned>>
             ELSE RequestFails

\* The connection fails; or the request is larger than the buffer it is written to,
\* which no second attempt helps against.
SendFails ==
  /\ pc = "send"
  /\ \/ ssl /\ Broken
     \/ RequestFails
  /\ UNCHANGED <<cfg, mainVars, sigVars, samlVars, addrVars, connVars, cookie,
                 open, answer, granted, unknown, pppdVars>>

\* After a connection that failed the second attempt writes to a handle that is
\* NULL.  What OpenSSL makes of it depends on its version: an error or a crash.
SendWithoutHandle ==
  /\ pc = "send" /\ ~ssl
  /\ \/ RequestFails
     \/ Goto("crashed") /\ UNCHANGED <<callVars, otp, abandoned>>
  /\ UNCHANGED <<cfg, mainVars, sigVars, samlVars, addrVars, connVars, cookie,
                 open, answer, granted, unknown, pppdVars>>

\* The cookie of an answer the client does not get or cannot use.
Missed == unknown' = unknown \cup (IF answer \in Session THEN {answer} ELSE {})

\* http_receive fails on the connection, or it finds a denial, no memory or an
\* answer too long.
ReceiveFails(tls) ==
  /\ pc = "receive" /\ (answer = Lost => tls)
  /\ Missed
  /\ IF tls THEN Broken ELSE RequestFails
  /\ UNCHANGED <<cfg, mainVars, sigVars, samlVars, addrVars, connVars, cookie,
                 open, answer, granted, pppdVars>>

Received(r) == pc = "receive" /\ req \in r /\ answer # Lost

\* The log in is over: with an action URL in the answer the host check is
\* posted, and its result takes the place of the log in's.
LoggedIn(hostcheck) == IF hostcheck THEN Ask("hostcheck") ELSE Ask("index")

\* An answer with a cookie, in the first stage or in the second.
CookieReply(hostcheck) ==
  /\ Received(Login \cup {"token", "push"}) /\ answer \in Session
  /\ cookie' = answer
  /\ otp' = OtpAfter
  /\ LoggedIn(hostcheck)
  /\ UNCHANGED <<cfg, mainVars, sigVars, samlVars, addrVars, connVars, back,
                 gateVars, pppdVars>>

\* ret=0 or 6, a status other than 200, or neither cookie nor tokeninfo; also a
\* cookie that does not fit.
LoginRefused ==
  /\ Received(Login \cup {"token", "push"})
  /\ Missed
  /\ otp' = OtpAfter
  /\ ErrTunnel
  /\ UNCHANGED <<cfg, mainVars, sigVars, samlVars, addrVars, connVars, cookie,
                 open, answer, granted, abandoned, pppdVars>>

\* 401: a form asks for a one-time password.
OtpForm ==
  /\ Received({"login"}) /\ answer = NoCookie
  /\ Goto("askOtp")
  /\ UNCHANGED <<cfg, mainVars, sigVars, samlVars, addrVars, connVars, callVars,
                 authVars, gateVars, pppdVars>>

\* tokeninfo and no cookie: the second stage.  A push is asked for only if there
\* is no password to send.
TokenInfo(push) ==
  /\ Received(Login) /\ answer = NoCookie
  /\ otp' = OtpAfter
  /\ IF push /\ cfg.push /\ OtpAfter = "none"
     THEN Ask("push") ELSE Goto("askToken") /\ UNCHANGED <<req, try>>
  /\ UNCHANGED <<cfg, mainVars, sigVars, samlVars, addrVars, connVars, back,
                 cookie, gateVars, pppdVars>>

\* The second stage brings no cookie, but an action URL: the host check's answer
\* decides.
HostcheckInstead ==
  /\ Received({"token", "push"}) /\ answer = NoCookie
  /\ Ask("hostcheck")
  /\ UNCHANGED <<cfg, mainVars, sigVars, samlVars, addrVars, connVars, back,
                 authVars, gateVars, pppdVars>>

\* The password at hand is used, or the user enters one.
EnterOtp ==
  /\ pc \in {"askOtp", "askToken"}
  /\ otp' = IF otp = "none" THEN "fresh" ELSE otp
  /\ Ask(IF pc = "askOtp" THEN "otp" ELSE "token")
  /\ UNCHANGED <<cfg, mainVars, sigVars, samlVars, addrVars, connVars, back,
                 cookie, gateVars, pppdVars>>

\* The user enters nothing, or the form cannot be read.
NoOtp ==
  /\ pc \in {"askOtp", "askToken"} /\ (pc = "askToken" => otp = "none")
  /\ ErrTunnel
  /\ UNCHANGED <<cfg, mainVars, sigVars, samlVars, addrVars, connVars, authVars,
                 gateVars, pppdVars>>

\* The status of these answers is not looked at.
Allocation ==
  /\ Received({"hostcheck", "index", "allocate"})
  /\ \/ req = "hostcheck" /\ Ask("index") /\ UNCHANGED back
     \/ req = "index" /\ Ask("allocate") /\ UNCHANGED back
     \/ req = "allocate" /\ Connect("config") /\ UNCHANGED <<req, try>>
  /\ UNCHANGED <<cfg, mainVars, sigVars, samlVars, addrVars, connVars, authVars,
                 gateVars, pppdVars>>

\* The configuration of the tunnel, if the status is 200.
XmlConfig ==
  /\ Received({"xml"})
  /\ \/ Goto("pppd") /\ UNCHANGED callVars
     \/ ErrTunnel
  /\ UNCHANGED <<cfg, mainVars, sigVars, samlVars, addrVars, connVars, authVars,
                 gateVars, pppdVars>>

LogOut ==
  /\ Received({"logout"})
  /\ Goto("loggedOut")
  /\ UNCHANGED <<cfg, mainVars, sigVars, samlVars, addrVars, connVars, callVars,
                 authVars, gateVars, pppdVars>>

-----------------------------------------------------------------------------
(* pppd, io_loop and signals *)

\* pppd_run.  A child that has no memory for its arguments returns 1 from pppd_run in
\* its copy of the process: it goes to err_tunnel and logs the session out.
PppdStarts ==
  /\ pc = "pppd"
  /\ pppd' = "running"
  /\ Goto("switch")
  /\ \/ open' = open
     \/ "arguments" \in Faults /\ open' = open \ Known
  /\ UNCHANGED <<cfg, mainVars, sigVars, samlVars, addrVars, connVars, callVars,
                 authVars, answer, granted, unknown, abandoned, orphan, up, ok>>

\* No pppd, no pty, no fork; or no fcntl, when pppd runs and its pid is lost.
PppdFails ==
  /\ pc = "pppd"
  /\ \/ orphan' = orphan
     \/ "fcntl" \in Faults /\ orphan' = TRUE
  /\ ErrTunnel
  /\ UNCHANGED <<cfg, mainVars, sigVars, samlVars, addrVars, connVars, authVars,
                 gateVars, pppd, up, ok>>

\* GET /remote/sslvpn-tunnel, which http_send sends without a second attempt,
\* and the start of io_loop.
Switch ==
  /\ pc = "switch"
  /\ Goto("io")
  /\ handler' = TRUE /\ stop' = FALSE
  /\ UNCHANGED <<cfg, mainVars, sig, samlVars, addrVars, connVars, callVars,
                 authVars, gateVars, pppdVars>>

\* The request cannot be sent, or io_loop returns before it has a handler.
SwitchFails ==
  /\ pc = "switch"
  /\ Goto("reap") \/ Goto("down")
  /\ UNCHANGED <<cfg, mainVars, sigVars, samlVars, addrVars, connVars, callVars,
                 authVars, gateVars, pppdVars>>

InterfaceUp ==
  /\ pc = "io" /\ ~up
  /\ up' = TRUE
  /\ UNCHANGED <<cfg, pc, mainVars, sigVars, samlVars, addrVars, connVars,
                 callVars, authVars, gateVars, pppd, orphan, ok>>

\* io_loop returns: by itself, or since somebody asked it to.
IoEnds ==
  /\ pc = "io"
  /\ Goto("down")
  /\ UNCHANGED <<cfg, mainVars, sigVars, samlVars, addrVars, connVars, callVars,
                 authVars, gateVars, pppdVars>>

IoStops == stop /\ IoEnds

\* on_ppp_if_down if the interface was up.
InterfaceDown ==
  /\ pc = "down"
  /\ up' = FALSE
  /\ Goto("reap")
  /\ UNCHANGED <<cfg, mainVars, sigVars, samlVars, addrVars, connVars, callVars,
                 authVars, gateVars, pppd, orphan, ok>>

\* pppd_terminate: the pty is closed, pppd ends.  Exit status 16 is a success
\* after a signal only; an end by a signal is one too.  A failing waitpid is -1.
PppdEnd == {"exit0", "exit16", "exitOther", "signalled"}
           \cup (IF "waitpid" \in Faults THEN {"unknown"} ELSE {})
PppdResult(e) == e = "exit0" \/ e = "signalled" \/ (e = "exit16" /\ sig)

\* Mutant of PppdTerminate: after a failed start pppd is not waited for.
PppdTerminateUnlessUp(e) ==
  /\ pc = "reap"
  /\ pppd' = IF handler THEN "reaped" ELSE pppd
  /\ ok' = PppdResult(e)
  /\ ErrTunnel
  /\ UNCHANGED <<cfg, mainVars, sigVars, samlVars, addrVars, connVars, authVars,
                 gateVars, orphan, up>>

PppdTerminate(e) ==
  /\ pc = "reap"
  /\ pppd' = IF e = "unknown" THEN "lost" ELSE "reaped"
  /\ ok' = PppdResult(e)
  /\ ErrTunnel
  /\ UNCHANGED <<cfg, mainVars, sigVars, samlVars, addrVars, connVars, authVars,
                 gateVars, orphan, up>>

\* Before the first io_loop SIGINT and SIGTERM kill the process.  After it the
\* handler stays; the semaphore it posts means something inside io_loop only.
Signal ==
  /\ ~sig /\ pc \notin {"exit", "killed", "crashed"}
  /\ IF handler THEN /\ sig' = TRUE /\ stop' = (stop \/ pc = "io")
                     /\ pc' = pc
                ELSE Goto("killed") /\ UNCHANGED <<sig, stop>>
  /\ UNCHANGED <<cfg, mainVars, handler, samlVars, addrVars, connVars, callVars,
                 authVars, gateVars, pppdVars>>

-----------------------------------------------------------------------------
MainStep == Refuse \/ Start \/ RunEnds \/ WakeUp \/ StopSleeping

SamlStep ==
  \/ \E r \in {"badFormat", "badCharacter", "accepted"} : SamlRequest(r)
  \/ SamlTimeout
  \/ \E w \in {"tries", "select", "listen"} : SamlEnds(w)

ConnectStep ==
  \/ \E a \in Addresses : Resolve(a)
  \/ ResolveFails
  \/ SslDisconnect \/ TcpConnect \/ ProxyConnect \/ TcpFails
  \/ NewContext \/ ClientCertificate \/ Handshake \/ VerifyCert \/ ConnectFails

HttpStep ==
  \/ SetCookie \/ BadCookie \/ LogIn
  \/ Send \/ SendFails \/ SendWithoutHandle
  \/ \E tls \in BOOLEAN : ReceiveFails(tls)
  \/ \E h \in BOOLEAN : CookieReply(h)
  \/ LoginRefused \/ OtpForm \/ HostcheckInstead
  \/ \E p \in BOOLEAN : TokenInfo(p)
  \/ EnterOtp \/ NoOtp
  \/ Allocation \/ XmlConfig \/ LogOut

PppdStep ==
  \/ PppdStarts \/ PppdFails \/ Switch \/ SwitchFails
  \/ IoStops \/ InterfaceDown
  \/ \E e \in PppdEnd : PppdTerminate(e)

Step == MainStep \/ SamlStep \/ ConnectStep \/ HttpStep \/ PppdStep

Next == Step \/ InterfaceUp \/ IoEnds \/ Signal

Spec == Init /\ [][Next]_vars

\* Where the program waits for others, without a time limit of its own: for io_loop and
\* pppd to end, for the proxy and the gateway to answer or to take what is sent, for
\* the browser, the user, or the token.
Waiting ==
  \/ pc \in {"saml", "proxy", "certificate", "handshake", "receive", "askOtp", "askToken",
            "switch", "io", "reap"}
  \/ pc = "send" /\ ssl

\* Everywhere else the program goes on by itself.
FairSpec == Spec /\ WF_vars(Step /\ ~Waiting)

-----------------------------------------------------------------------------
(* Properties *)

\* ssl_connect leaves the connection whole or not at all, whatever fails on the
\* way and from wherever it was called, and the process owns just the sockets it
\* knows of: no reconnection loses one, and none is left when a run has ended.
ConnectionWhole == pc # "killed" =>
  /\ pc \notin Connecting => sock = ctx /\ ctx = ssl
  /\ fds = (IF sock \/ pc = "proxy" THEN 1 ELSE 0)
  /\ pc \in AtRest \cup {"resolve"} => fds = 0

\* http_request does not look at the result of its second ssl_connect, and
\* ssl_verify_cert runs after the handshake: that no request goes to a gateway
\* that was not verified rests on the handle being NULL after a failure.
SendsOnlyVerified == pc \in Requesting /\ ssl => verified

\* However a run has ended, a session of the gateway stays open only if its
\* cookie never came (or, with --cookie, was never used), or if the log out could
\* not be sent: http_request may log in twice, and run_tunnel ends in the same place
\* from everywhere.
SessionsLoggedOut == pc \in AtRest => open \subseteq unknown \cup abandoned

\* No pppd runs when run_tunnel has returned, whatever has failed in between: each was
\* waited for, unless fcntl failed after its fork or waitpid itself.
PppdEnded == pc \in AtRest =>
  /\ pppd # "running"
  /\ orphan => "fcntl" \in Faults
  /\ pppd = "lost" => "waitpid" \in Faults

\* The process reports success only after pppd has run, apart from the usage
\* errors found after a configuration file was read.
SuccessMeansPppd ==
  pc = "exit" /\ success => pppd = "reaped" \/ (run = 0 /\ ~cfg.usable)

\* http.c: "clear OTP for next run".  The form of a 401 is never answered with a
\* password that was sent in such a form before; one from a token exchange may
\* come again, since it is not cleared.
OtpOfFormsUsedOnce == pc = "send" /\ try = 1 /\ req = "otp" => otp # "used"

\* A client that has a signal begins no further run.
NoRunAfterSignal == [][sig => run' = run]_run

\* Whenever a signal comes after the first tunnel, in a tunnel, in the log in of a later
\* run, or between two runs, the process ends, or from then on waits for somebody else at
\* one place: no loop of attempts, connections or runs goes on.  (A signal in a later
\* log in does not end the tunnel that follows: its semaphore is made anew, and the
\* process waits in "io".)
SignalEndsProcess ==
  sig ~> (pc \in {"exit", "crashed"} \/ [](Waiting))
=============================================================================
