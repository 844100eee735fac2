---------------------------- MODULE ClientProofs ----------------------------
(***************************************************************************)
(* Machine-checked proofs about Client: the connection, the sessions of    *)
(* the gateway, pppd, the one-time password and signals, for any set of    *)
(* configurations and addresses and any number of runs and sessions.       *)
(***************************************************************************)
EXTENDS Client, TLAPS

-----------------------------------------------------------------------------
(* The inductive invariant *)

\* Places inside ssl_connect, and places no connection is open at.
Inner == {"tcp", "proxy", "context", "certificate", "handshake", "verify"}
Unconnected == AtRest \cup {"start", "saml", "resolve", "closed"}

\* What ssl_connect has made at each of its places, and between its calls.
ConnFlags ==
  /\ pc \in {"tcp", "proxy"} => ~sock /\ ~ctx /\ ~ssl
  /\ pc = "context" => sock /\ ~ctx /\ ~ssl
  /\ pc \in {"certificate", "handshake"} => sock /\ ctx /\ ~ssl
  /\ pc = "verify" => sock /\ ctx /\ ssl
  /\ pc \notin Inner \cup {"killed"} =>
       /\ (sock <=> ssl) /\ (ctx <=> ssl)
       /\ ssl => verified
  /\ pc \in Unconnected => ~ssl

\* The sockets of the process are those it knows of.
SocketCount ==
  pc # "killed" => fds = IF pc = "proxy" \/ sock THEN 1 ELSE 0

-----------------------------------------------------------------------------
(* Where the calls return to *)

LEMMA ReturnedTo ==
  ASSUME TypeOK, NEW w \in BOOLEAN, Returned(w)
  PROVE /\ pc' \in {"send", "closed", "authenticate", "disconnect"}
        /\ w => pc' # "closed"
        /\ back' \in Caller /\ req' \in Request /\ try' \in 1 .. 2
BY DEF TypeOK, Returned, Goto, Ask, Connect, ErrTunnel, Caller, Request, callVars

LEMMA RequestFailedTo ==
  ASSUME TypeOK, RequestFails
  PROVE /\ pc' \in {"loggedOut", "disconnect"} /\ otp' = OtpAfter
        /\ back' \in Caller /\ req' = req /\ try' = try
        /\ abandoned' \in SUBSET Session
BY DEF TypeOK, RequestFails, ErrTunnel, Connect, Goto, Caller, Known, callVars

LEMMA BrokenTo ==
  ASSUME TypeOK, Broken
  PROVE /\ pc' \in {"loggedOut", "disconnect"} /\ otp' \in {otp, OtpAfter}
        /\ back' \in Caller /\ req' = req /\ try' = try
        /\ abandoned' \in SUBSET Session
BY RequestFailedTo DEF Broken, TypeOK, Connect, Goto, Caller

LEMMA HandleTo ==
  ASSUME TypeOK, Handle
  PROVE /\ answer' \in Session \cup {NoCookie} /\ granted' \in 0 .. MaxGrants
        /\ open' \subseteq open \cup {answer'} /\ open' \in SUBSET Session
        /\ req \notin Login \cup {"token", "push"} => answer' = NoCookie
        /\ req = "logout" => cookie \notin open'
<1> DEFINE n == granted + 2
<1>1. CASE /\ answer' = NoCookie /\ UNCHANGED granted
           /\ open' = IF req = "logout" THEN open \ {cookie} ELSE open
  BY <1>1 DEF TypeOK
<1>2. CASE /\ req \in Login \cup {"token", "push"} /\ granted < MaxGrants
           /\ granted' = granted + 1 /\ answer' = n /\ open' = open \cup {n}
  <2>1. n \in Session /\ granted' \in 0 .. MaxGrants
    BY <1>2, ConstantsAssumption DEF TypeOK, Session
  <2> HIDE DEF n
  <2> QED
    BY <1>2, <2>1 DEF TypeOK, Login
<1> QED
  BY <1>1, <1>2 DEF Handle

LEMMA SendTo ==
  ASSUME TypeOK, Send
  PROVE /\ pc = "send" /\ pc' = "receive"
        /\ answer' \in Session \cup {NoCookie, Lost} /\ granted' \in 0 .. MaxGrants
        /\ open' \subseteq open \cup {answer'} /\ open' \in SUBSET Session
        /\ req \notin Login \cup {"token", "push"} => answer' \in {NoCookie, Lost}
        /\ req = "logout" /\ answer' # Lost => cookie \notin open'
        /\ otp' \in {"used", "usedAsToken", otp} /\ (otp' = "used" => req = "otp" \/ otp' = otp)
        /\ UNCHANGED <<cfg, mainVars, sigVars, samlVars, addrVars, connVars, callVars,
                       cookie, unknown, abandoned, pppdVars>>
<1>1. CASE Handle
  BY <1>1, HandleTo DEF Send, Goto
<1>2. CASE answer' = Lost /\ UNCHANGED <<open, granted>>
  BY <1>2 DEF Send, Goto, TypeOK
<1> QED
  BY <1>1, <1>2 DEF Send

-----------------------------------------------------------------------------
(* Types *)

BoolType ==
  /\ success \in BOOLEAN /\ sig \in BOOLEAN /\ handler \in BOOLEAN
  /\ stop \in BOOLEAN /\ sock \in BOOLEAN /\ ctx \in BOOLEAN
  /\ ssl \in BOOLEAN /\ verified \in BOOLEAN /\ orphan \in BOOLEAN
  /\ up \in BOOLEAN /\ ok \in BOOLEAN

DataType ==
  /\ cfg \in ConfigType /\ pc \in Place
  /\ run \in Nat /\ tries \in 0 .. 5 /\ fds \in Nat
  /\ samlId \in {"none", "good", "refused"}
  /\ ip \in Addresses \cup {NoAddress} /\ env \in Addresses \cup {NoAddress}
  /\ back \in Caller /\ req \in Request /\ try \in 1 .. 2
  /\ cookie \in Session \cup {NoCookie}
  /\ otp \in {"none", "fresh", "used", "usedAsToken"}
  /\ open \in SUBSET Session /\ unknown \in SUBSET Session
  /\ abandoned \in SUBSET Session
  /\ answer \in Session \cup {NoCookie, Lost} /\ granted \in 0 .. MaxGrants
  /\ pppd \in {"none", "running", "reaped", "lost"}

LEMMA TypeParts == TypeOK <=> BoolType /\ DataType
BY DEF TypeOK, BoolType, DataType

LEMMA BoolStep ==
  ASSUME BoolType, Next PROVE BoolType'
<1> USE DEF BoolType, mainVars, sigVars, samlVars, addrVars, connVars, pppdVars, Goto
<1>1. CASE MainStep
  <2>1. CASE Refuse
    BY <2>1, ZenonT(30) DEF Refuse
  <2>2. CASE Start
    BY <2>2, ZenonT(30) DEF Start
  <2>3. CASE RunEnds
    BY <2>3, ZenonT(30) DEF RunEnds
  <2>4. CASE WakeUp
    BY <2>4, ZenonT(30) DEF WakeUp
  <2>5. CASE StopSleeping
    BY <2>5, ZenonT(30) DEF StopSleeping
  <2> QED
    BY <1>1, <2>1, <2>2, <2>3, <2>4, <2>5 DEF MainStep
<1>2. CASE SamlStep
  <2>1. CASE \E r \in {"badFormat", "badCharacter", "accepted"} : SamlRequest(r)
    BY <2>1, ZenonT(30) DEF SamlRequest
  <2>2. CASE SamlTimeout
    BY <2>2, ZenonT(30) DEF SamlTimeout
  <2>3. CASE \E w \in {"tries", "select", "listen"} : SamlEnds(w)
    BY <2>3, ZenonT(30) DEF SamlEnds
  <2> QED
    BY <1>2, <2>1, <2>2, <2>3 DEF SamlStep
<1>3. CASE ConnectStep
  <2>0. CASE \E a \in Addresses : Resolve(a)
    BY <2>0, ZenonT(30) DEF Resolve
  <2>1. CASE ResolveFails
    BY <2>1, ZenonT(30) DEF ResolveFails
  <2>10. CASE ClientCertificate
    BY <2>10, ZenonT(30) DEF ClientCertificate
  <2>2. CASE SslDisconnect
    BY <2>2, ZenonT(30) DEF SslDisconnect
  <2>3. CASE TcpConnect
    BY <2>3, ZenonT(30) DEF TcpConnect
  <2>4. CASE ProxyConnect
    BY <2>4, ZenonT(30) DEF ProxyConnect
  <2>5. CASE TcpFails
    BY <2>5, ZenonT(30) DEF TcpFails
  <2>6. CASE NewContext
    BY <2>6, ZenonT(30) DEF NewContext
  <2>7. CASE Handshake
    BY <2>7, ZenonT(30) DEF Handshake
  <2>8. CASE VerifyCert
    BY <2>8, ZenonT(30) DEF VerifyCert
  <2>9. CASE ConnectFails
    BY <2>9, ZenonT(30) DEF ConnectFails
  <2> QED
    BY <1>3, <2>0, <2>1, <2>2, <2>3, <2>4, <2>5, <2>6, <2>7, <2>8, <2>9, <2>10
    DEF ConnectStep
<1>4. CASE HttpStep
  BY <1>4 DEF HttpStep, SetCookie, BadCookie, LogIn, Send, SendFails, SendWithoutHandle,
              ReceiveFails, CookieReply, LoginRefused, OtpForm, HostcheckInstead,
              TokenInfo, EnterOtp, NoOtp, Allocation, XmlConfig, LogOut
<1>5. CASE PppdStep
  <2>0. CASE PppdStarts
    BY <2>0, ZenonT(30) DEF PppdStarts
  <2>1. CASE SwitchFails
    BY <2>1, ZenonT(30) DEF SwitchFails
  <2>6. CASE IoStops
    BY <2>6, ZenonT(30) DEF IoStops, IoEnds
  <2>2. CASE PppdFails
    BY <2>2, ZenonT(30) DEF PppdFails
  <2>3. CASE Switch
    BY <2>3, ZenonT(30) DEF Switch
  <2>4. CASE InterfaceDown
    BY <2>4, ZenonT(30) DEF InterfaceDown
  <2>5. CASE \E e \in PppdEnd : PppdTerminate(e)
    BY <2>5, ZenonT(30) DEF PppdTerminate, PppdResult
  <2> QED
    BY <1>5, <2>0, <2>1, <2>2, <2>3, <2>4, <2>5, <2>6 DEF PppdStep
<1>6. CASE InterfaceUp
  BY <1>6, Zenon DEF InterfaceUp
<1>7. CASE IoEnds
  BY <1>7, Zenon DEF IoEnds
<1>8. CASE Signal
  BY <1>8, Zenon DEF Signal
<1> QED
  BY <1>1, <1>2, <1>3, <1>4, <1>5, <1>6, <1>7, <1>8 DEF Next, Step

LEMMA DataStep ==
  ASSUME TypeOK, Next,
         pc \in Inner \ {"tcp"} => fds > 0,
         pc \in {"disconnect", "loggedOut"} /\ ssl => fds > 0
  PROVE  DataType'
<1> USE DEF TypeOK, DataType, Goto, mainVars, samlVars, addrVars, connVars, callVars,
            authVars, gateVars, pppdVars, Place, AtRest, Inner
<1>1. CASE MainStep
  BY <1>1 DEF MainStep, Refuse, Start, RunEnds, StopSleeping, WakeUp
<1>2. CASE SamlStep
  BY <1>2 DEF SamlStep, SamlRequest, AfterRequest, SamlTimeout, SamlEnds
<1>3. CASE ConnectStep
  <2> USE DEF ErrTunnel, Connect, Caller, Connecting, Requesting
  <2>1. CASE (\E a \in Addresses : Resolve(a)) \/ ResolveFails \/ ClientCertificate
    BY <2>1 DEF Resolve, ResolveFails, ClientCertificate
  <2>2. CASE SslDisconnect
    BY <2>2 DEF SslDisconnect
  <2>3. CASE TcpConnect \/ ProxyConnect \/ NewContext \/ Handshake
    BY <2>3 DEF TcpConnect, ProxyConnect, NewContext, Handshake
  <2>4. CASE TcpFails
    <3>1. abandoned' \in SUBSET Session
      BY <2>4 DEF TcpFails, NoLogout, Known
    <3>2. /\ pc' \in {"send", "closed", "authenticate", "disconnect"}
          /\ back' \in Caller /\ req' \in Request /\ try' \in 1 .. 2
      BY <2>4, ReturnedTo DEF TcpFails
    <3> QED
      BY <2>4, <3>1, <3>2, pc = "proxy" => fds > 0 DEF TcpFails
  <2>5. CASE VerifyCert
    <3>1. /\ pc' \in {"send", "closed", "authenticate", "disconnect"}
          /\ back' \in Caller /\ req' \in Request /\ try' \in 1 .. 2
      BY <2>5, ReturnedTo DEF VerifyCert
    <3> QED
      BY <2>5, <3>1 DEF VerifyCert
  <2>6. CASE ConnectFails
    <3>1. abandoned' \in SUBSET Session
      BY <2>6 DEF ConnectFails, NoLogout, Known
    <3>2. /\ pc' \in {"send", "closed", "authenticate", "disconnect"}
          /\ back' \in Caller /\ req' \in Request /\ try' \in 1 .. 2
      BY <2>6, ReturnedTo DEF ConnectFails
    <3> QED
      BY <2>6, <3>1, <3>2 DEF ConnectFails
  <2> QED
    BY <1>3, <2>1, <2>2, <2>3, <2>4, <2>5, <2>6 DEF ConnectStep
<1>4. CASE HttpStep
  <2> USE DEF ErrTunnel, Connect, Ask, Caller, Connecting, Requesting, Request, Login, OtpAfter
  <2>1. CASE SetCookie \/ BadCookie \/ LogIn
    <3>1. cookie' \in Session \cup {NoCookie}
      BY <2>1, ConstantsAssumption DEF SetCookie, BadCookie, LogIn, Session
    <3> QED
      BY <2>1, <3>1 DEF SetCookie, BadCookie, LogIn
  <2>2. CASE Send
    BY <2>2, SendTo
  <2>3. CASE SendFails \/ SendWithoutHandle
    BY <2>3, BrokenTo, RequestFailedTo DEF SendFails, SendWithoutHandle
  <2>4. CASE \E tls \in BOOLEAN : ReceiveFails(tls)
    BY <2>4, BrokenTo, RequestFailedTo DEF ReceiveFails, Missed
  <2>5. CASE (\E h \in BOOLEAN : CookieReply(h)) \/ LoginRefused
    BY <2>5 DEF CookieReply, LoginRefused, LoggedIn, Missed
  <2>6. CASE OtpForm \/ HostcheckInstead \/ \E p \in BOOLEAN : TokenInfo(p)
    BY <2>6 DEF OtpForm, HostcheckInstead, TokenInfo
  <2>7. CASE EnterOtp \/ NoOtp
    BY <2>7 DEF EnterOtp, NoOtp
  <2>8. CASE Allocation \/ XmlConfig \/ LogOut
    BY <2>8 DEF Allocation, XmlConfig, LogOut
  <2> QED
    BY <1>4, <2>1, <2>2, <2>3, <2>4, <2>5, <2>6, <2>7, <2>8 DEF HttpStep
<1>5. CASE PppdStep
  BY <1>5 DEF PppdStep, PppdStarts, PppdFails, Switch, SwitchFails, IoStops, IoEnds,
              InterfaceDown, PppdTerminate, ErrTunnel, Connect, Connecting, Caller
<1>6. CASE InterfaceUp \/ IoEnds \/ Signal
  BY <1>6 DEF InterfaceUp, IoEnds, Signal
<1> QED
  BY <1>1, <1>2, <1>3, <1>4, <1>5, <1>6 DEF Next, Step

-----------------------------------------------------------------------------
(* The connection *)

\* Outside of ssl_connect nothing touches the connection.
LEMMA OutsideConnect ==
  ASSUME TypeOK, Next, ~ConnectStep, ~WakeUp, ~Signal
  PROVE /\ UNCHANGED connVars /\ pc \notin Inner \cup {"killed"}
        /\ pc' \notin Inner \cup {"killed"}
        /\ pc' \in Unconnected => pc \in Unconnected
<1> USE DEF Inner, Unconnected, AtRest, Goto, connVars
<1>1. CASE MainStep
  BY <1>1 DEF MainStep, Refuse, Start, RunEnds, StopSleeping
<1>2. CASE SamlStep
  BY <1>2 DEF SamlStep, SamlRequest, SamlTimeout, SamlEnds
<1>4. CASE HttpStep
  <2> USE DEF ErrTunnel, Connect, Ask
  <2>1. CASE SetCookie \/ BadCookie \/ LogIn \/ Send
    BY <2>1 DEF SetCookie, BadCookie, LogIn, Send
  <2>2. CASE SendFails \/ SendWithoutHandle \/ \E tls \in BOOLEAN : ReceiveFails(tls)
    BY <2>2, BrokenTo, RequestFailedTo DEF SendFails, SendWithoutHandle, ReceiveFails
  <2>3. CASE (\E h \in BOOLEAN : CookieReply(h)) \/ LoginRefused
    BY <2>3 DEF CookieReply, LoginRefused, LoggedIn, Received
  <2>4. CASE OtpForm \/ HostcheckInstead \/ \E p \in BOOLEAN : TokenInfo(p)
    BY <2>4 DEF OtpForm, HostcheckInstead, TokenInfo, Received
  <2>5. CASE EnterOtp \/ NoOtp \/ Allocation \/ XmlConfig \/ LogOut
    BY <2>5 DEF EnterOtp, NoOtp, Allocation, XmlConfig, LogOut, Received
  <2> QED
    BY <1>4, <2>1, <2>2, <2>3, <2>4, <2>5 DEF HttpStep
<1>5. CASE PppdStep
  BY <1>5 DEF PppdStep, PppdStarts, PppdFails, Switch, SwitchFails, IoStops, IoEnds,
              InterfaceDown, PppdTerminate, ErrTunnel, Connect
<1>6. CASE InterfaceUp \/ IoEnds
  BY <1>6 DEF InterfaceUp, IoEnds
<1> QED
  BY <1>1, <1>2, <1>4, <1>5, <1>6 DEF Next, Step

LEMMA FlagsStep ==
  ASSUME TypeOK, ConnFlags, Next PROVE ConnFlags'
<1> USE DEF ConnFlags, Inner, Unconnected, AtRest, Goto, connVars
<1>1. CASE ~ConnectStep /\ ~WakeUp /\ ~Signal
  BY <1>1, OutsideConnect
<1>2. CASE WakeUp
  BY <1>2 DEF WakeUp
<1>3. CASE Signal
  BY <1>3 DEF Signal
<1>4. CASE ConnectStep
  <2> USE DEF ErrTunnel, Connect
  <2>1. CASE (\E a \in Addresses : Resolve(a)) \/ ResolveFails
    BY <2>1 DEF Resolve, ResolveFails
  <2>2. CASE SslDisconnect
    BY <2>2 DEF SslDisconnect
  <2>3. CASE TcpConnect \/ ProxyConnect
    BY <2>3 DEF TcpConnect, ProxyConnect
  <2>4. CASE NewContext \/ ClientCertificate \/ Handshake
    BY <2>4 DEF NewContext, ClientCertificate, Handshake
  <2>5. CASE TcpFails \/ ConnectFails
    <3>1. pc' \in {"send", "closed", "authenticate", "disconnect"}
      BY <2>5, ReturnedTo DEF TcpFails, ConnectFails
    <3>2. ~sock' /\ ~ctx' /\ ~ssl'
      <4>1. CASE TcpFails
        BY <4>1 DEF TcpFails
      <4>2. CASE ConnectFails
        BY <4>2, Zenon DEF ConnectFails
      <4> QED
        BY <2>5, <4>1, <4>2
    <3> QED
      BY <3>1, <3>2
  <2>6. CASE VerifyCert
    BY <2>6, ReturnedTo DEF VerifyCert
  <2> QED
    BY <1>4, <2>1, <2>2, <2>3, <2>4, <2>5, <2>6 DEF ConnectStep
<1> QED
  BY <1>1, <1>2, <1>3, <1>4

LEMMA CountStep ==
  ASSUME TypeOK, ConnFlags, SocketCount, Next PROVE SocketCount'
<1> USE DEF ConnFlags, SocketCount, Inner, Goto, connVars
<1>1. CASE ~ConnectStep /\ ~WakeUp /\ ~Signal
  BY <1>1, OutsideConnect
<1>2. CASE WakeUp
  BY <1>2 DEF WakeUp, Unconnected, AtRest
<1>3. CASE Signal
  BY <1>3 DEF Signal
<1>4. CASE ConnectStep
  <2> USE DEF ErrTunnel, Connect
  <2>1. CASE (\E a \in Addresses : Resolve(a)) \/ ResolveFails
    BY <2>1 DEF Resolve, ResolveFails
  <2>2. CASE SslDisconnect
    BY <2>2 DEF SslDisconnect
  <2>3. CASE TcpConnect \/ ProxyConnect
    BY <2>3 DEF TcpConnect, ProxyConnect
  <2>4. CASE NewContext \/ ClientCertificate \/ Handshake
    BY <2>4 DEF NewContext, ClientCertificate, Handshake
  <2>5. CASE TcpFails \/ ConnectFails
    <3>1. pc' \in {"send", "closed", "authenticate", "disconnect"}
      BY <2>5, ReturnedTo DEF TcpFails, ConnectFails
    <3>2. ~sock' /\ ~ctx' /\ ~ssl'
      <4>1. CASE TcpFails
        BY <4>1 DEF TcpFails
      <4>2. CASE ConnectFails
        BY <4>2, Zenon DEF ConnectFails
      <4> QED
        BY <2>5, <4>1, <4>2
    <3>3. fds' = 0
      <4>1. CASE TcpFails
        BY <4>1 DEF TcpFails
      <4>2. CASE ConnectFails
        BY <4>2 DEF ConnectFails
      <4> QED
        BY <2>5, <4>1, <4>2
    <3> QED
      BY <3>1, <3>2, <3>3
  <2>6. CASE VerifyCert
    BY <2>6, ReturnedTo DEF VerifyCert
  <2> QED
    BY <1>4, <2>1, <2>2, <2>3, <2>4, <2>5, <2>6 DEF ConnectStep
<1> QED
  BY <1>1, <1>2, <1>3, <1>4

-----------------------------------------------------------------------------
(* The sessions of the gateway *)

LoginRequest == Login \cup {"token", "push"}

\* A session that is open is one the client has the cookie of, or its cookie is on
\* the way, was missed, or the log out was given up; and a log in begins without
\* one.
SessionInv ==
  /\ req \in LoginRequest => cookie = NoCookie
  /\ pc \in {"start", "saml", "resolve", "authenticate", "askOtp", "askToken"} =>
       cookie = NoCookie
  /\ pc \in Connecting /\ back = "gateway" => cookie = NoCookie
  /\ pc \notin {"receive", "killed"} => open \subseteq unknown \cup abandoned \cup Known
  /\ pc = "receive" => open \subseteq unknown \cup abandoned \cup Known \cup {answer}
  /\ pc = "receive" /\ req \notin LoginRequest => answer \notin Session
  /\ pc = "receive" /\ req = "logout" /\ answer # Lost => cookie \notin open
  /\ pc \in {"loggedOut", "closed"} \cup AtRest => open \subseteq unknown \cup abandoned

LEMMA SessionStep ==
  ASSUME TypeOK, SessionInv, Next PROVE SessionInv'
<1> USE DEF SessionInv, TypeOK, Goto, callVars, authVars, gateVars, Known, AtRest,
            Connecting
<1>1. CASE MainStep
  <2>1. CASE Refuse \/ Start \/ RunEnds \/ StopSleeping
    BY <2>1 DEF Refuse, Start, RunEnds, StopSleeping
  <2>2. CASE WakeUp
    BY <2>2 DEF WakeUp
  <2> QED
    BY <1>1, <2>1, <2>2 DEF MainStep
<1>2. CASE SamlStep
  BY <1>2 DEF SamlStep, SamlRequest, SamlTimeout, SamlEnds
<1>3. CASE ConnectStep
  <2>1. CASE (\E a \in Addresses : Resolve(a)) \/ ResolveFails
    BY <2>1 DEF Resolve, ResolveFails, ErrTunnel, Connect
  <2>2. CASE SslDisconnect \/ TcpConnect \/ ProxyConnect
    BY <2>2 DEF SslDisconnect, TcpConnect, ProxyConnect
  <2>3. CASE NewContext \/ ClientCertificate \/ Handshake
    BY <2>3 DEF NewContext, ClientCertificate, Handshake
  <2>4. CASE TcpFails \/ ConnectFails
    BY <2>4 DEF TcpFails, ConnectFails, NoLogout, Returned, Ask, ErrTunnel, Connect,
                LoginRequest, Login, Caller
  <2>5. CASE VerifyCert
    BY <2>5 DEF VerifyCert, Returned, Ask, ErrTunnel, Connect, LoginRequest, Login
  <2> QED
    BY <1>3, <2>1, <2>2, <2>3, <2>4, <2>5 DEF ConnectStep
<1>4. CASE HttpStep
  <2> USE DEF Ask, Connect, ErrTunnel, LoginRequest, Login, Received
  <2>1. CASE SetCookie \/ BadCookie \/ LogIn
    BY <2>1 DEF SetCookie, BadCookie, LogIn, NoCookie
  <2>2. CASE Send
    BY <2>2, SendTo DEF Session, NoCookie, Lost
  <2>3. CASE SendFails
    BY <2>3 DEF SendFails, Broken, RequestFails
  <2>4. CASE SendWithoutHandle
    BY <2>4 DEF SendWithoutHandle, RequestFails
  <2>5. CASE \E tls \in BOOLEAN : ReceiveFails(tls)
    BY <2>5 DEF ReceiveFails, Missed, Broken, RequestFails
  <2>6. CASE \E h \in BOOLEAN : CookieReply(h)
    BY <2>6 DEF CookieReply, LoggedIn, Session, NoCookie
  <2>7. CASE LoginRefused
    BY <2>7 DEF LoginRefused, Missed
  <2>8. CASE OtpForm \/ HostcheckInstead \/ \E p \in BOOLEAN : TokenInfo(p)
    <3>1. pc = "receive" /\ open \subseteq unknown \cup abandoned \cup Known
      BY <2>8 DEF OtpForm, HostcheckInstead, TokenInfo, NoCookie, Session
    <3>2. CASE OtpForm
      BY <3>1, <3>2 DEF OtpForm
    <3>3. CASE HostcheckInstead
      BY <3>1, <3>3 DEF HostcheckInstead
    <3>4. CASE \E p \in BOOLEAN : TokenInfo(p)
      BY <3>1, <3>4 DEF TokenInfo
    <3> QED
      BY <2>8, <3>2, <3>3, <3>4
  <2>9. CASE EnterOtp \/ NoOtp
    BY <2>9 DEF EnterOtp, NoOtp
  <2>10. CASE Allocation \/ XmlConfig \/ LogOut
    BY <2>10 DEF Allocation, XmlConfig, LogOut
  <2> QED
    BY <1>4, <2>1, <2>2, <2>3, <2>4, <2>5, <2>6, <2>7, <2>8, <2>9, <2>10 DEF HttpStep
<1>5. CASE PppdStep
  BY <1>5 DEF PppdStep, PppdStarts, PppdFails, Switch, SwitchFails, IoStops, IoEnds,
              InterfaceDown, PppdTerminate, ErrTunnel, Connect
<1>6. CASE InterfaceUp \/ IoEnds \/ Signal
  BY <1>6 DEF InterfaceUp, IoEnds, Signal
<1> QED
  BY <1>1, <1>2, <1>3, <1>4, <1>5, <1>6 DEF Next, Step

-----------------------------------------------------------------------------
(* pppd, the result of the process, one-time passwords and signals *)

\* The part of a run that comes before pppd is started.
BeforePppd ==
  \/ pc \in {"start", "saml", "resolve", "authenticate", "askOtp", "askToken", "pppd"}
  \/ pc \in Connecting /\ back \in {"gateway", "config"}
  \/ pc \in Connecting \cup Requesting /\ req # "logout" /\ (pc \in Connecting => back = "retry")

\* pppd runs from pppd_run to pppd_terminate only, and success needs its end.
PppdInv ==
  /\ BeforePppd => pppd = "none" /\ ~ok
  /\ pppd = "running" => pc \in {"switch", "io", "down", "reap", "killed"}
  /\ ok => pppd = "reaped"
  /\ orphan => "fcntl" \in Faults
  /\ pppd = "lost" => "waitpid" \in Faults

SuccessInv ==
  /\ pc = "start" => run = 0
  /\ pc \in AtRest /\ success => pppd = "reaped" \/ (run = 0 /\ ~cfg.usable)

\* A password is marked as used in a form from the request that sends it to the end
\* of that request.
OtpInv ==
  otp = "used" =>
    /\ req = "otp"
    /\ \/ pc \in Connecting /\ back = "retry"
       \/ pc = "send" /\ try = 2
       \/ pc \in {"receive", "killed", "crashed"}

SignalInv ==
  /\ sig => handler
  /\ pc \in {"start", "saml"} => ~handler

LEMMA PppdInvStep ==
  ASSUME TypeOK, PppdInv, Next PROVE PppdInv'
<1> USE DEF PppdInv, BeforePppd, TypeOK, Goto, callVars, pppdVars, Connecting, Requesting
<1>1. CASE MainStep
  BY <1>1 DEF MainStep, Refuse, Start, RunEnds, WakeUp, StopSleeping
<1>2. CASE SamlStep
  BY <1>2 DEF SamlStep, SamlRequest, SamlTimeout, SamlEnds
<1>3. CASE ConnectStep
  <2>1. CASE (\E a \in Addresses : Resolve(a)) \/ ResolveFails
    BY <2>1 DEF Resolve, ResolveFails, ErrTunnel, Connect
  <2>2. CASE SslDisconnect \/ TcpConnect \/ ProxyConnect
    BY <2>2 DEF SslDisconnect, TcpConnect, ProxyConnect
  <2>3. CASE NewContext \/ ClientCertificate \/ Handshake
    BY <2>3 DEF NewContext, ClientCertificate, Handshake
  <2>4. CASE TcpFails \/ ConnectFails
    BY <2>4 DEF TcpFails, ConnectFails, Returned, Ask, ErrTunnel, Connect
  <2>5. CASE VerifyCert
    BY <2>5 DEF VerifyCert, Returned, Ask, ErrTunnel, Connect
  <2> QED
    BY <1>3, <2>1, <2>2, <2>3, <2>4, <2>5 DEF ConnectStep
<1>4. CASE HttpStep
  <2> USE DEF Ask, Connect, ErrTunnel, Received, Login
  <2>1. CASE SetCookie \/ BadCookie \/ LogIn \/ Send
    BY <2>1 DEF SetCookie, BadCookie, LogIn, Send
  <2>2. CASE SendFails \/ SendWithoutHandle
    BY <2>2 DEF SendFails, SendWithoutHandle, Broken, RequestFails
  <2>3. CASE \E tls \in BOOLEAN : ReceiveFails(tls)
    BY <2>3 DEF ReceiveFails, Broken, RequestFails
  <2>4. CASE (\E h \in BOOLEAN : CookieReply(h)) \/ LoginRefused
    BY <2>4 DEF CookieReply, LoginRefused, LoggedIn
  <2>5. CASE OtpForm \/ HostcheckInstead \/ \E p \in BOOLEAN : TokenInfo(p)
    BY <2>5 DEF OtpForm, HostcheckInstead, TokenInfo
  <2>6. CASE EnterOtp \/ NoOtp
    BY <2>6 DEF EnterOtp, NoOtp
  <2>7. CASE Allocation \/ XmlConfig \/ LogOut
    BY <2>7 DEF Allocation, XmlConfig, LogOut
  <2> QED
    BY <1>4, <2>1, <2>2, <2>3, <2>4, <2>5, <2>6, <2>7 DEF HttpStep
<1>5. CASE PppdStep
  <2>1. CASE PppdStarts \/ PppdFails \/ Switch \/ SwitchFails
    BY <2>1 DEF PppdStarts, PppdFails, Switch, SwitchFails, ErrTunnel, Connect
  <2>2. CASE IoStops \/ InterfaceDown
    BY <2>2 DEF IoStops, IoEnds, InterfaceDown
  <2>3. ASSUME NEW e \in PppdEnd, PppdTerminate(e) PROVE PppdInv'
    <3>1. /\ pc = "reap" /\ pc' = "disconnect" /\ back' = "logout"
          /\ pppd' \in {"reaped", "lost"} /\ (pppd' = "lost" <=> e = "unknown")
          /\ orphan' = orphan
      BY <2>3 DEF PppdTerminate, ErrTunnel, Connect
    <3>2. ok' => e # "unknown"
      BY <2>3 DEF PppdTerminate, PppdResult
    <3>3. e = "unknown" => "waitpid" \in Faults
      BY DEF PppdEnd
    <3> QED
      BY <3>1, <3>2, <3>3
  <2> QED
    BY <1>5, <2>1, <2>2, <2>3 DEF PppdStep
<1>6. CASE InterfaceUp \/ IoEnds \/ Signal
  BY <1>6 DEF InterfaceUp, IoEnds, Signal
<1> QED
  BY <1>1, <1>2, <1>3, <1>4, <1>5, <1>6 DEF Next, Step

\* Only these steps touch the number of runs, the result, or the sleep between runs.
LEMMA OutsideMain ==
  ASSUME TypeOK, Next, ~MainStep, ~SamlStep
  PROVE /\ UNCHANGED <<cfg, run, success>>
        /\ pc' \in {"start"} \cup AtRest => pc' = pc
<1> USE DEF Goto, mainVars, AtRest
<1>3. CASE ConnectStep
  <2>1. CASE (\E a \in Addresses : Resolve(a)) \/ ResolveFails \/ SslDisconnect
    BY <2>1 DEF Resolve, ResolveFails, SslDisconnect, ErrTunnel, Connect
  <2>2. CASE TcpConnect \/ ProxyConnect \/ NewContext \/ ClientCertificate \/ Handshake
    BY <2>2 DEF TcpConnect, ProxyConnect, NewContext, ClientCertificate, Handshake
  <2>3. CASE TcpFails \/ ConnectFails \/ VerifyCert
    BY <2>3, ReturnedTo DEF TcpFails, ConnectFails, VerifyCert
  <2> QED
    BY <1>3, <2>1, <2>2, <2>3 DEF ConnectStep
<1>4. CASE HttpStep
  <2> USE DEF Ask, Connect, ErrTunnel
  <2>1. CASE SetCookie \/ BadCookie \/ LogIn \/ Send
    BY <2>1 DEF SetCookie, BadCookie, LogIn, Send
  <2>2. CASE SendFails \/ SendWithoutHandle \/ \E tls \in BOOLEAN : ReceiveFails(tls)
    BY <2>2, BrokenTo, RequestFailedTo DEF SendFails, SendWithoutHandle, ReceiveFails
  <2>3. CASE (\E h \in BOOLEAN : CookieReply(h)) \/ LoginRefused
    BY <2>3 DEF CookieReply, LoginRefused, LoggedIn
  <2>4. CASE OtpForm \/ HostcheckInstead \/ \E p \in BOOLEAN : TokenInfo(p)
    BY <2>4 DEF OtpForm, HostcheckInstead, TokenInfo
  <2>5. CASE EnterOtp \/ NoOtp \/ Allocation \/ XmlConfig \/ LogOut
    BY <2>5 DEF EnterOtp, NoOtp, Allocation, XmlConfig, LogOut
  <2> QED
    BY <1>4, <2>1, <2>2, <2>3, <2>4, <2>5 DEF HttpStep
<1>5. CASE PppdStep
  BY <1>5 DEF PppdStep, PppdStarts, PppdFails, Switch, SwitchFails, IoStops, IoEnds,
              InterfaceDown, PppdTerminate, ErrTunnel, Connect
<1>6. CASE InterfaceUp \/ IoEnds \/ Signal
  BY <1>6 DEF InterfaceUp, IoEnds, Signal
<1> QED
  BY <1>3, <1>4, <1>5, <1>6 DEF Next, Step

LEMMA SuccessStep ==
  ASSUME TypeOK, PppdInv, SuccessInv, Next PROVE SuccessInv'
<1> USE DEF SuccessInv, PppdInv, TypeOK, AtRest, Goto, mainVars, pppdVars
<1>1. CASE MainStep
  BY <1>1 DEF MainStep, Refuse, Start, RunEnds, WakeUp, StopSleeping
<1>2. CASE SamlStep
  BY <1>2 DEF SamlStep, SamlRequest, SamlTimeout, SamlEnds
<1>3. CASE ~MainStep /\ ~SamlStep
  <2>1. pc \in AtRest => pppd' = pppd
    BY <1>3 DEF Next, Step, ConnectStep, HttpStep, PppdStep, InterfaceUp, IoEnds, Signal,
       PppdStarts, PppdFails, Switch, SwitchFails, IoStops, InterfaceDown, PppdTerminate,
       Resolve, ResolveFails, SslDisconnect, TcpConnect, ProxyConnect, TcpFails,
       NewContext, ClientCertificate, Handshake, VerifyCert, ConnectFails, SetCookie, BadCookie,
       LogIn, Send, SendFails, SendWithoutHandle, ReceiveFails, CookieReply,
       LoginRefused, OtpForm, HostcheckInstead, TokenInfo, EnterOtp, NoOtp, Allocation,
       XmlConfig, LogOut
  <2> QED
    BY <1>3, <2>1, OutsideMain
<1> QED
  BY <1>1, <1>2, <1>3

LEMMA OtpStep ==
  ASSUME TypeOK, OtpInv, Next PROVE OtpInv'
<1> USE DEF OtpInv, TypeOK, Goto, callVars, authVars, Connecting, AtRest
<1>1. CASE MainStep
  BY <1>1 DEF MainStep, Refuse, Start, RunEnds, WakeUp, StopSleeping
<1>2. CASE SamlStep
  BY <1>2 DEF SamlStep, SamlRequest, SamlTimeout, SamlEnds
<1>3. CASE ConnectStep
  <2>1. CASE (\E a \in Addresses : Resolve(a)) \/ ResolveFails
    BY <2>1 DEF Resolve, ResolveFails, ErrTunnel, Connect
  <2>2. CASE SslDisconnect \/ TcpConnect \/ ProxyConnect
    BY <2>2 DEF SslDisconnect, TcpConnect, ProxyConnect
  <2>3. CASE NewContext \/ ClientCertificate \/ Handshake
    BY <2>3 DEF NewContext, ClientCertificate, Handshake
  <2>4. CASE TcpFails \/ ConnectFails
    BY <2>4 DEF TcpFails, ConnectFails, Returned, Ask, ErrTunnel, Connect
  <2>5. CASE VerifyCert
    BY <2>5 DEF VerifyCert, Returned, Ask, ErrTunnel, Connect
  <2> QED
    BY <1>3, <2>1, <2>2, <2>3, <2>4, <2>5 DEF ConnectStep
<1>4. CASE HttpStep
  <2> USE DEF Ask, Connect, ErrTunnel, Received, Login, OtpAfter
  <2>1. CASE SetCookie \/ BadCookie \/ LogIn \/ Send
    BY <2>1 DEF SetCookie, BadCookie, LogIn, Send
  <2>2. CASE SendFails \/ SendWithoutHandle
    BY <2>2 DEF SendFails, SendWithoutHandle, Broken, RequestFails
  <2>3. CASE \E tls \in BOOLEAN : ReceiveFails(tls)
    BY <2>3 DEF ReceiveFails, Broken, RequestFails
  <2>4. CASE (\E h \in BOOLEAN : CookieReply(h)) \/ LoginRefused
    BY <2>4 DEF CookieReply, LoginRefused, LoggedIn
  <2>5. CASE OtpForm \/ HostcheckInstead \/ \E p \in BOOLEAN : TokenInfo(p)
    BY <2>5 DEF OtpForm, HostcheckInstead, TokenInfo
  <2>6. CASE EnterOtp \/ NoOtp
    BY <2>6 DEF EnterOtp, NoOtp
  <2>7. CASE Allocation \/ XmlConfig \/ LogOut
    BY <2>7 DEF Allocation, XmlConfig, LogOut
  <2> QED
    BY <1>4, <2>1, <2>2, <2>3, <2>4, <2>5, <2>6, <2>7 DEF HttpStep
<1>5. CASE PppdStep
  BY <1>5 DEF PppdStep, PppdStarts, PppdFails, Switch, SwitchFails, IoStops, IoEnds,
              InterfaceDown, PppdTerminate, ErrTunnel, Connect
<1>6. CASE InterfaceUp \/ IoEnds \/ Signal
  BY <1>6 DEF InterfaceUp, IoEnds, Signal
<1> QED
  BY <1>1, <1>2, <1>3, <1>4, <1>5, <1>6 DEF Next, Step

LEMMA SignalStep ==
  ASSUME TypeOK, SignalInv, Next PROVE SignalInv' /\ (sig => run' = run)
<1>1. CASE MainStep \/ SamlStep
  BY <1>1 DEF SignalInv, MainStep, Refuse, Start, RunEnds, WakeUp, StopSleeping,
       SamlStep, SamlRequest, SamlTimeout, SamlEnds, Goto, mainVars, sigVars, TypeOK
<1>2. CASE ~MainStep /\ ~SamlStep
  <2>1. pc' \in {"start", "saml"} => pc' = pc
    <3>1. CASE ConnectStep
      <4>1. CASE (\E a \in Addresses : Resolve(a)) \/ ResolveFails \/ SslDisconnect
        BY <4>1 DEF Resolve, ResolveFails, SslDisconnect, ErrTunnel, Connect, Goto
      <4>2. CASE TcpConnect \/ ProxyConnect \/ NewContext \/ ClientCertificate \/ Handshake
        BY <4>2 DEF TcpConnect, ProxyConnect, NewContext, ClientCertificate, Handshake, Goto
      <4>3. CASE TcpFails \/ ConnectFails \/ VerifyCert
        BY <4>3, ReturnedTo DEF TcpFails, ConnectFails, VerifyCert, Goto
      <4> QED
        BY <3>1, <4>1, <4>2, <4>3 DEF ConnectStep
    <3>2. CASE HttpStep
      <4> USE DEF Ask, Connect, ErrTunnel, Goto
      <4>1. CASE SetCookie \/ BadCookie \/ LogIn \/ Send
        BY <4>1 DEF SetCookie, BadCookie, LogIn, Send
      <4>2. CASE SendFails \/ SendWithoutHandle \/ \E tls \in BOOLEAN : ReceiveFails(tls)
        BY <4>2, BrokenTo, RequestFailedTo DEF SendFails, SendWithoutHandle, ReceiveFails
      <4>3. CASE (\E h \in BOOLEAN : CookieReply(h)) \/ LoginRefused
        BY <4>3 DEF CookieReply, LoginRefused, LoggedIn
      <4>4. CASE OtpForm \/ HostcheckInstead \/ \E p \in BOOLEAN : TokenInfo(p)
        BY <4>4 DEF OtpForm, HostcheckInstead, TokenInfo
      <4>5. CASE EnterOtp \/ NoOtp \/ Allocation \/ XmlConfig \/ LogOut
        BY <4>5 DEF EnterOtp, NoOtp, Allocation, XmlConfig, LogOut
      <4> QED
        BY <3>2, <4>1, <4>2, <4>3, <4>4, <4>5 DEF HttpStep
    <3>3. CASE PppdStep
      BY <3>3 DEF PppdStep, PppdStarts, PppdFails, Switch, SwitchFails, IoStops, IoEnds,
                  InterfaceDown, PppdTerminate, ErrTunnel, Connect, Goto
    <3>4. CASE InterfaceUp \/ IoEnds \/ Signal
      BY <3>4 DEF InterfaceUp, IoEnds, Signal, Goto
    <3> QED
      BY <1>2, <3>1, <3>2, <3>3, <3>4 DEF Next, Step
  <2>2. CASE Switch \/ Signal
    BY <2>2 DEF Switch, Signal, SignalInv, Goto, mainVars, sigVars, TypeOK
  <2>3. CASE ~Switch /\ ~Signal
    <3>1. UNCHANGED sigVars
      BY <1>2, <2>3 DEF Next, Step, ConnectStep, HttpStep, PppdStep, InterfaceUp, IoEnds,
         PppdStarts, PppdFails, SwitchFails, IoStops, InterfaceDown, PppdTerminate,
         Resolve, ResolveFails, SslDisconnect, TcpConnect, ProxyConnect, TcpFails,
         NewContext, ClientCertificate, Handshake, VerifyCert, ConnectFails, SetCookie, BadCookie,
         LogIn, Send, SendFails, SendWithoutHandle, ReceiveFails, CookieReply,
         LoginRefused, OtpForm, HostcheckInstead, TokenInfo, EnterOtp, NoOtp,
         Allocation, XmlConfig, LogOut
    <3> QED
      BY <1>2, <2>1, <3>1, OutsideMain DEF SignalInv, sigVars
  <2> QED
    BY <2>2, <2>3, <1>2, OutsideMain
<1> QED
  BY <1>1, <1>2

-----------------------------------------------------------------------------
(* The theorems *)

IInv == TypeOK /\ ConnFlags /\ SocketCount /\ SessionInv /\ PppdInv /\ SuccessInv
          /\ OtpInv /\ SignalInv

LEMMA InitInv == Init => IInv
<1> SUFFICES ASSUME Init PROVE IInv
  OBVIOUS
<1> USE DEF Init
<1>1. TypeOK
  <2>1. cfg \in ConfigType
    BY ConstantsAssumption
  <2>2. BoolType
    BY <2>1 DEF BoolType, ConfigType
  <2>3. DataType
    BY <2>1, ConstantsAssumption DEF DataType, Place, Caller, Request, Login, Session
  <2> QED
    BY <2>2, <2>3, TypeParts
<1>2. ConnFlags /\ SocketCount
  BY DEF ConnFlags, SocketCount, Inner, Unconnected, AtRest
<1>3. SessionInv
  BY DEF SessionInv, LoginRequest, Login, Known, AtRest, Connecting
<1>4. PppdInv /\ SuccessInv
  BY DEF PppdInv, SuccessInv, BeforePppd, AtRest
<1>5. OtpInv /\ SignalInv
  BY DEF OtpInv, SignalInv
<1> QED
  BY <1>1, <1>2, <1>3, <1>4, <1>5 DEF IInv

LEMMA NextInv == IInv /\ Next => IInv'
<1> SUFFICES ASSUME IInv, Next PROVE IInv'
  OBVIOUS
<1> USE DEF IInv
<1>1. /\ pc \in Inner \ {"tcp"} => fds > 0
      /\ pc \in {"disconnect", "loggedOut"} /\ ssl => fds > 0
  BY DEF ConnFlags, SocketCount, Inner
<1>2. TypeOK'
  <2>1. BoolType'
    BY BoolStep, TypeParts
  <2>2. DataType'
    BY <1>1, DataStep
  <2> QED
    BY <2>1, <2>2 DEF TypeOK, BoolType, DataType
<1>3. ConnFlags' /\ SocketCount'
  BY FlagsStep, CountStep
<1>4. SessionInv' /\ PppdInv'
  BY SessionStep, PppdInvStep
<1>5. SuccessInv' /\ OtpInv' /\ SignalInv'
  BY SuccessStep, OtpStep, SignalStep
<1> QED
  BY <1>2, <1>3, <1>4, <1>5

LEMMA StutterInv == IInv /\ UNCHANGED vars => IInv'
BY DEF IInv, TypeOK, ConnFlags, SocketCount, SessionInv, PppdInv, SuccessInv, OtpInv,
       SignalInv, BeforePppd, Known, vars, mainVars, sigVars, samlVars, addrVars,
       connVars, callVars, authVars, gateVars, pppdVars

\* The parts of IInv hold in every reachable state of the client.
THEOREM Invariant == Spec => []IInv
<1>1. IInv /\ [Next]_vars => IInv'
  BY NextInv, StutterInv
<1> QED
  BY <1>1, InitInv, PTL DEF Spec

\* Every variable keeps its type; in particular no descriptor is closed twice.
THEOREM TypeCorrect == Spec => []TypeOK
<1>1. IInv => TypeOK
  BY DEF IInv
<1> QED
  BY <1>1, Invariant, PTL

\* Wherever it is called from and whatever fails, ssl_connect leaves a whole
\* connection or none, and the process never loses a socket.
THEOREM Connection == Spec => []ConnectionWhole
<1>1. IInv => ConnectionWhole
  BY DEF IInv, ConnFlags, SocketCount, ConnectionWhole, Inner, Unconnected, AtRest,
         Connecting, TypeOK
<1> QED
  BY <1>1, Invariant, PTL

\* No request is sent over a connection whose gateway was not verified.
THEOREM Verified == Spec => []SendsOnlyVerified
<1>1. IInv => SendsOnlyVerified
  BY DEF IInv, ConnFlags, SendsOnlyVerified, Requesting, Inner
<1> QED
  BY <1>1, Invariant, PTL

\* However a run ends, a session whose cookie the client had is closed, unless the
\* log out failed.
THEOREM Sessions == Spec => []SessionsLoggedOut
<1>1. IInv => SessionsLoggedOut
  BY DEF IInv, SessionInv, SessionsLoggedOut
<1> QED
  BY <1>1, Invariant, PTL

\* A run leaves no pppd behind but one that was forked before fcntl failed, or one that
\* waitpid failed for.
THEOREM PppdReaped == Spec => []PppdEnded
<1>1. IInv => PppdEnded
  BY DEF IInv, PppdInv, PppdEnded, AtRest
<1> QED
  BY <1>1, Invariant, PTL

\* Exit status 0 means that pppd of the last run has ended as it should.
THEOREM Success == Spec => []SuccessMeansPppd
<1>1. IInv => SuccessMeansPppd
  BY DEF IInv, SuccessInv, SuccessMeansPppd, AtRest
<1> QED
  BY <1>1, Invariant, PTL

\* The form of a 401 is not answered with a password used in such a form before.
THEOREM OtpOnce == Spec => []OtpOfFormsUsedOnce
<1>1. IInv => OtpOfFormsUsedOnce
  BY DEF IInv, OtpInv, OtpOfFormsUsedOnce, Connecting
<1> QED
  BY <1>1, Invariant, PTL

\* A client that got a signal does not connect again, --persistent or not.
THEOREM SignalEndsRuns == Spec => NoRunAfterSignal
<1>1. IInv /\ [Next]_vars => [sig => run' = run]_run
  <2>1. ASSUME IInv, Next PROVE sig => run' = run
    BY <2>1, SignalStep DEF IInv
  <2>2. UNCHANGED vars => run' = run
    BY DEF vars, mainVars
  <2> QED
    BY <2>1, <2>2
<1> QED
  BY <1>1, Invariant, PTL DEF Spec, NoRunAfterSignal
=============================================================================
