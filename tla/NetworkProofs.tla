--------------------------- MODULE NetworkProofs ---------------------------
(***************************************************************************)
(* Machine-checked proofs about Network, for any configuration and any     *)
(* routing table and resolv.conf to start from, and any number of split    *)
(* routes, of failing calls and of renewals.                               *)
(***************************************************************************)
EXTENDS Network, SequenceTheorems, WellFoundedInduction, TLAPS

USE DEF Goto

-----------------------------------------------------------------------------
(* The routing table *)

\* A route to the gateway is the best there can be.
LEMMA BestOfRoutes ==
  ASSUME NEW t \in SUBSET Route, NEW n \in Net, NEW devs, NEW r \in GetRoute(t, n, devs)
  PROVE r \in t /\ r \in Route /\ r.dev \in devs /\ (n = "all" => r.net = "all")
BY DEF GetRoute, Best, Candidates, Route, Net, Length

LEMMA TableOfCalls ==
  ASSUME NEW t \in SUBSET Route, NEW r \in Route
  PROVE SetRoute(t, r) \in SUBSET Route /\ DelRoute(t, r) \in SUBSET Route
BY DEF SetRoute, DelRoute

LEMMA PppRouteIsRoute == \A n \in Net : PppRoute(n) \in Route
BY DEF PppRoute, Route, Via, Dev

LEMMA PppRouteFields ==
  \A n \in Net : /\ PppRoute(n) \in Route /\ PppRoute(n).net = n
                 /\ PppRoute(n).dev = "ppp" /\ PppRoute(n).via = "link"
BY DEF PppRoute, Route, Via, Dev

\* A split route is the tunnel's, or one by an address that is not the interface's.
LEMMA SplitRouteFields ==
  ASSUME cfg \in ConfigType
  PROVE  \A n \in Net : \A r \in SplitRoutes(n) :
           /\ r \in Route /\ r.net = n
           /\ r = PppRoute(n) \/ (r.via = "assigned" /\ cfg.assigned = "other")
           /\ cfg.os = "linux" => r.dev = "ppp"
<1> TAKE n \in Net
<1> TAKE r \in SplitRoutes(n)
<1>1. CASE cfg.assigned = "own"
  BY <1>1, PppRouteFields DEF SplitRoutes
<1>2. CASE cfg.assigned # "own"
  <2>1. PICK d \in Dev : r = [net |-> n, via |-> "assigned", dev |-> d]
                         /\ (cfg.os = "linux" => d = "ppp")
    BY <1>2 DEF SplitRoutes, Dev
  <2>2. r \in Route /\ r.net = n /\ r.via = "assigned" /\ (cfg.os = "linux" => r.dev = "ppp")
    BY <2>1 DEF Route, Via
  <2>3. cfg.assigned = "other"
    BY <1>2 DEF ConfigType
  <2> QED
    BY <2>2, <2>3
<1> QED
  BY <1>1, <1>2

-----------------------------------------------------------------------------
(* Types *)

RouteType ==
  /\ cfg \in ConfigType /\ pc \in Place /\ i \in Nat \ {0}
  /\ table \in SUBSET Route
  /\ def \in Route \cup {NoRoute} /\ gtw \in Route \cup {NoRoute}
  /\ ppp \in Route \cup {NoRoute}
  /\ added \in BOOLEAN /\ split \in Seq(Net) /\ Len(split) <= MaxSplit

EnvType ==
  /\ pppUp \in BOOLEAN /\ faults \in 0 .. MaxFaults
  /\ renewals \in 0 .. MaxRenewals /\ cancelled \in BOOLEAN
  /\ before \in SUBSET Route
  /\ wasThere \in [{"ns1", "ns2", "suffix"} -> {-1, 0, 1}]

\* What is saved has been found by ipv4_get_route: the default route is one, the
\* route to the gateway goes around the tunnel; and a route is saved before the
\* place that uses it.
Saved ==
  /\ def # NoRoute => def.net = "all" /\ def.dev # "ppp"
  /\ gtw # NoRoute => gtw.net = "gw" /\ gtw.dev # "ppp" /\ (faults = 0 => def # NoRoute)
  /\ ppp # NoRoute => ppp.dev = "ppp"
  /\ pc \in {"config", "drop", "protect"} => gtw = NoRoute /\ ~added
  /\ pc \in {"addGateway", "default1", "default2", "restore1", "restore2", "restore3"}
       \/ added => gtw # NoRoute /\ def # NoRoute
  /\ pc \in {"dns", "up"} /\ added /\ split = <<>> => ppp # NoRoute
  /\ pc = "restore1" => added /\ (split = <<>> => ppp # NoRoute)
  /\ pc = "addSplit" => split # <<>>
  /\ pc \in {"restore2", "restore3"} => ppp # NoRoute

TypeInv == RouteType /\ EnvType

LEMMA RouteTypeStep ==
  ASSUME TypeInv, Saved, Next PROVE RouteType'
<1> USE CasesAssumption DEF TypeInv, RouteType, EnvType, Saved, Place, InUp, InDown, routeVars, envVars,
        dnsVars, envButFaults
<1>1. CASE PushRoute
  <2>1. cfg.push \in Seq(Net)
    BY DEF ConfigType
  <2>2. cfg.push[i] \in Net
    BY <1>1, <2>1, ElementOfSeq DEF PushRoute
  <2>3. split' \in Seq(Net) /\ Len(split') <= MaxSplit
    BY <1>1, <2>2 DEF PushRoute
  <2> QED
    BY <1>1, <2>3 DEF PushRoute
<1>2. CASE \E wrong \in BOOLEAN : InterfaceComesUp(wrong)
  <2>1. PppRoute("gw") \in Route
    BY PppRouteIsRoute DEF Net, Length
  <2> QED
    BY <1>2, <2>1 DEF InterfaceComesUp
<1>3. CASE DropWrongRoute
  <2>1. table' \in SUBSET Route
    BY <1>3 DEF DropWrongRoute, Call, DelRoute
  <2> QED
    BY <1>3, <2>1 DEF DropWrongRoute
<1>4. CASE ProtectTunnelRoute
  <2>1. PICK d \in GetRoute(table, "all", Outside), g \in GetRoute(table, "gw", Outside) :
             def' = d /\ gtw' = [g EXCEPT !.net = "gw"]
    BY <1>4 DEF ProtectTunnelRoute
  <2>2. def' \in Route /\ gtw' \in Route
    BY <2>1, BestOfRoutes DEF Net, Length, Route
  <2> QED
    BY <1>4, <2>2 DEF ProtectTunnelRoute
<1>5. CASE ProtectFails
  <2>1. gtw' \in Route \cup {NoRoute}
    BY <1>5, BestOfRoutes DEF ProtectFails, Net, Length, Route
  <2> QED
    BY <1>5, <2>1 DEF ProtectFails, AfterProtect
<1>6. CASE AddGatewayRoute
  <2>1. table' \in SUBSET Route
    BY <1>6, gtw \in Route DEF AddGatewayRoute, Call, SetRoute
  <2> QED
    BY <1>6, <2>1 DEF AddGatewayRoute, AfterProtect
<1>7. CASE AddSplitRoute
  <2>1. i <= Len(split) => \A r \in SplitRoutes(split[i]) : r \in Route
    BY SplitRouteFields, ElementOfSeq
  <2>2. i <= Len(split) => \A r \in SplitRoutes(split[i]) : SetRoute(table, r) \in SUBSET Route
    BY <2>1, TableOfCalls
  <2>3. table' \in SUBSET Route
    BY <1>7, <2>2 DEF AddSplitRoute, SetSplitRoute, Call
  <2> QED
    BY <1>7, <2>3 DEF AddSplitRoute
<1>8. CASE SetDefaultRoute
  <2>1. /\ PppRoute("low") \in Route /\ PppRoute("high") \in Route
        /\ PppRoute("all") \in Route /\ def \in Route
    BY <1>8, PppRouteIsRoute DEF SetDefaultRoute, Net, Length
  <2>2. /\ SetRoute(table, PppRoute("low")) \in SUBSET Route
        /\ SetRoute(table, PppRoute("high")) \in SUBSET Route
        /\ SetRoute(table, PppRoute("all")) \in SUBSET Route
        /\ DelRoute(table, def) \in SUBSET Route
    BY <2>1, TableOfCalls
  <2>3. table' \in SUBSET Route /\ ppp' \in {ppp, PppRoute("low"), PppRoute("high"), PppRoute("all")}
    BY <1>8, <2>2 DEF SetDefaultRoute, Call
  <2> QED
    BY <1>8, <2>1, <2>3 DEF SetDefaultRoute
<1>9. CASE AddNameservers \/ InterfaceDown \/ RemoveNameservers
  BY <1>9 DEF AddNameservers, InterfaceDown, RemoveNameservers
<1>10. CASE RestoreRoutes
  <2>1. table' \in SUBSET Route
    <3>1. gtw \in Route /\ def \in Route /\ (pc = "restore2" => ppp \in Route)
      BY <1>10 DEF RestoreRoutes
    <3>2. /\ DelRoute(table, gtw) \in SUBSET Route /\ SetRoute(table, def) \in SUBSET Route
          /\ pc = "restore2" => DelRoute(table, ppp) \in SUBSET Route
      BY <3>1, TableOfCalls
    <3> QED
      BY <1>10, <3>2 DEF RestoreRoutes, Call
  <2> QED
    BY <1>10, <2>1 DEF RestoreRoutes
<1>11. CASE PppGone \/ Cancel
  BY <1>11 DEF PppGone, Cancel
<1>12. CASE Renew
  BY <1>12 DEF Renew, Renewed, Route, Net, Length, Via, Dev
<1> QED
  BY <1>1, <1>2, <1>3, <1>4, <1>5, <1>6, <1>7, <1>8, <1>9, <1>10, <1>11, <1>12 DEF Next

LEMMA FaultsGrow ==
  ASSUME TypeInv, Next, faults' = 0 PROVE faults = 0
<1>1. faults \in Nat
  BY CasesAssumption DEF TypeInv, EnvType
<1>2. faults' = faults \/ faults' = faults + 1
  <2> USE DEF Call, envVars, envButFaults
  <2>1. CASE PushRoute \/ (\E wrong \in BOOLEAN : InterfaceComesUp(wrong)) \/ DropWrongRoute
    BY <2>1 DEF PushRoute, InterfaceComesUp, DropWrongRoute
  <2>2. CASE ProtectTunnelRoute \/ ProtectFails \/ AddGatewayRoute
    BY <2>2 DEF ProtectTunnelRoute, ProtectFails, AddGatewayRoute
  <2>3. CASE AddSplitRoute
    BY <2>3 DEF AddSplitRoute, SetSplitRoute
  <2>4. CASE SetDefaultRoute
    BY <2>4 DEF SetDefaultRoute
  <2>5. CASE AddNameservers \/ InterfaceDown
    BY <2>5 DEF AddNameservers, InterfaceDown
  <2>6. CASE RestoreRoutes \/ RemoveNameservers
    BY <2>6 DEF RestoreRoutes, RemoveNameservers
  <2>7. CASE PppGone \/ Renew \/ Cancel
    BY <2>7 DEF PppGone, Renew, Cancel
  <2> QED
    BY <2>1, <2>2, <2>3, <2>4, <2>5, <2>6, <2>7 DEF Next
<1> QED
  BY <1>1, <1>2

LEMMA SavedStep ==
  ASSUME TypeInv, Saved, Next PROVE Saved'
<1>0. faults' = 0 => faults = 0
  BY FaultsGrow
<1> USE <1>0 DEF TypeInv, RouteType, Saved, routeVars, envVars, dnsVars, envButFaults
<1>1. CASE PushRoute
  BY <1>1 DEF PushRoute
<1>2. CASE \E wrong \in BOOLEAN : InterfaceComesUp(wrong)
  BY <1>2 DEF InterfaceComesUp
<1>3. CASE DropWrongRoute
  BY <1>3 DEF DropWrongRoute
<1>4. CASE ProtectTunnelRoute
  <2>1. PICK d \in GetRoute(table, "all", Outside), g \in GetRoute(table, "gw", Outside) :
             def' = d /\ gtw' = [g EXCEPT !.net = "gw"]
    BY <1>4 DEF ProtectTunnelRoute
  <2>2. /\ def' \in Route /\ def'.net = "all" /\ def'.dev # "ppp"
        /\ gtw'.net = "gw" /\ gtw'.dev # "ppp"
    BY <2>1, BestOfRoutes DEF Net, Length, Route, Outside
  <2>3. def' # NoRoute /\ gtw' # NoRoute
    BY <2>2 DEF NoRoute
  <2> QED
    BY <1>4, <2>2, <2>3 DEF ProtectTunnelRoute
<1>5. CASE ProtectFails
  <2>1. gtw' = NoRoute \/ (gtw'.net = "gw" /\ gtw'.dev # "ppp" /\ faults' # 0)
    <3>1. ASSUME NEW g \in GetRoute(table, "gw", Outside), gtw' = [g EXCEPT !.net = "gw"]
          PROVE  gtw'.net = "gw" /\ gtw'.dev # "ppp"
      BY <3>1, BestOfRoutes DEF Net, Length, Route, Outside
    <3>2. faults \in Nat
      BY DEF EnvType
    <3> QED
      BY <1>5, <3>1, <3>2 DEF ProtectFails
  <2>2. pc' \in {"addSplit", "dns"} /\ ~added' /\ (pc' = "addSplit" => split' # <<>>)
    BY <1>5 DEF ProtectFails, AfterProtect
  <2> QED
    BY <1>5, <2>1, <2>2 DEF ProtectFails
<1>6. CASE AddGatewayRoute
  BY <1>6 DEF AddGatewayRoute, AfterProtect
<1>7. CASE AddSplitRoute
  BY <1>7 DEF AddSplitRoute
<1>8. CASE SetDefaultRoute
  BY <1>8 DEF SetDefaultRoute, PppRoute, NoRoute, Net, Length
<1>9. CASE AddNameservers \/ InterfaceDown \/ RemoveNameservers
  BY <1>9 DEF AddNameservers, InterfaceDown, RemoveNameservers
<1>10. CASE RestoreRoutes
  BY <1>10 DEF RestoreRoutes
<1>11. CASE PppGone \/ Cancel
  BY <1>11 DEF PppGone, Cancel, InUp
<1>12. CASE Renew
  BY <1>12 DEF Renew
<1> QED
  BY <1>1, <1>2, <1>3, <1>4, <1>5, <1>6, <1>7, <1>8, <1>9, <1>10, <1>11, <1>12 DEF Next

LEMMA EnvTypeStep ==
  ASSUME TypeInv, Next PROVE EnvType'
<1> USE CasesAssumption DEF TypeInv, RouteType, EnvType, routeVars, envVars, dnsVars,
        envButFaults, Call
<1>1. CASE PushRoute \/ \E wrong \in BOOLEAN : InterfaceComesUp(wrong)
  BY <1>1 DEF PushRoute, InterfaceComesUp
<1>2. CASE DropWrongRoute
  BY <1>2 DEF DropWrongRoute
<1>3. CASE ProtectTunnelRoute
  BY <1>3 DEF ProtectTunnelRoute
<1>4. CASE ProtectFails
  BY <1>4 DEF ProtectFails
<1>5. CASE AddGatewayRoute
  BY <1>5 DEF AddGatewayRoute
<1>6. CASE AddSplitRoute
  BY <1>6 DEF AddSplitRoute, SetSplitRoute
<1>7. CASE SetDefaultRoute
  BY <1>7 DEF SetDefaultRoute
<1>8. CASE AddNameservers
  <2>1. wasThere' \in [{"ns1", "ns2", "suffix"} -> {-1, 0, 1}]
    BY <1>8 DEF AddNameservers, Searched, NotSearched, Found
  <2> QED
    BY <1>8, <2>1 DEF AddNameservers
<1>9. CASE InterfaceDown \/ RemoveNameservers
  BY <1>9 DEF InterfaceDown, RemoveNameservers
<1>10. CASE RestoreRoutes
  BY <1>10 DEF RestoreRoutes
<1>11. CASE PppGone \/ Cancel
  BY <1>11 DEF PppGone, Cancel
<1>12. CASE Renew
  BY <1>12 DEF Renew, Renewed, Route, Net, Length, Via, Dev
<1> QED
  BY <1>1, <1>2, <1>3, <1>4, <1>5, <1>6, <1>7, <1>8, <1>9, <1>10, <1>11, <1>12 DEF Next

-----------------------------------------------------------------------------
(* The route to the gateway *)

\* A route to the gateway through the tunnel, and one around it.
Wrong(t) == \E r \in t : r.net = "gw" /\ r.dev = "ppp"
Right(t) == \E r \in t : r.net = "gw" /\ r.dev # "ppp"

\* Until the first call that fails: pppd's wrong route is dropped before the
\* gateway is protected, and from then on the best route to it is the right one.
GatewayInv ==
  /\ pc = "config" => ~Wrong(table)
  /\ faults = 0 =>
       /\ pc \in {"protect", "addGateway"} => ~Wrong(table)
       /\ gtw # NoRoute /\ pc \in {"addSplit", "default1", "default2", "dns", "up"} =>
            ~Wrong(table) /\ Right(table)

\* What a call does to the routes to the gateway.
LEMMA SetKeeps ==
  ASSUME NEW t \in SUBSET Route, NEW r \in Route, r.net # "gw"
  PROVE /\ Wrong(SetRoute(t, r)) <=> Wrong(t)
        /\ Right(SetRoute(t, r)) <=> Right(t)
BY DEF Wrong, Right, SetRoute

LEMMA DelKeeps ==
  ASSUME NEW t \in SUBSET Route, NEW r \in Route, r.net # "gw"
  PROVE /\ Wrong(DelRoute(t, r)) <=> Wrong(t)
        /\ Right(DelRoute(t, r)) <=> Right(t)
BY DEF Wrong, Right, DelRoute

\* Of a route through the tunnel to the gateway there is only one.
LEMMA OneWrong ==
  ASSUME NEW r \in Route, r.net = "gw", r.dev = "ppp", r.via = "link"
  PROVE r = PppRoute("gw")
BY DEF Route, PppRoute

\* ipv4_drop_wrong_route finds it if it is there.
LEMMA WrongFound ==
  ASSUME NEW t \in SUBSET Route, PppRoute("gw") \in t
  PROVE PppRoute("gw") \in GetRoute(t, "gw", {"ppp"})
BY DEF GetRoute, Best, Candidates, PppRoute, Route, Net, Length, Hosts

\* Without a failure a call drops it.
LEMMA WrongDropped ==
  ASSUME TypeInv, DropWrongRoute, faults' = 0
  PROVE  faults = 0 /\ PppRoute("gw") \notin table'
<1>1. PppRoute("gw") \notin DelRoute(table, PppRoute("gw"))
  BY DEF DelRoute
<1>2. faults \in Nat /\ table \in SUBSET Route
  BY DEF TypeInv, RouteType, EnvType
<1> QED
  BY <1>1, <1>2, WrongFound DEF DropWrongRoute, Call

Early == {"config", "drop", "protect", "addGateway"}

\* Routes by an assigned address are split routes; until there are such, a route
\* through the tunnel has no router.
AssignedInv ==
  /\ \A r \in before : r.via # "assigned"
  /\ def # NoRoute => def.via # "assigned"
  /\ gtw # NoRoute => gtw.via # "assigned"
  /\ \A r \in table : r.via = "assigned" =>
       cfg.assigned = "other" /\ (cfg.os = "linux" => r.dev = "ppp")
  /\ pc \in Early \/ split = <<>> =>
       \A r \in table : r.via # "assigned" /\ (r.dev = "ppp" => r.via = "link")

LEMMA AssignedStep ==
  ASSUME TypeInv, Saved, AssignedInv, Next PROVE AssignedInv'
<1> USE DEF TypeInv, RouteType, AssignedInv, Early, routeVars, envVars, dnsVars, envButFaults
<1>1. CASE PushRoute
  BY <1>1 DEF PushRoute
<1>2. CASE \E wrong \in BOOLEAN : InterfaceComesUp(wrong)
  <2>1. /\ table' \subseteq table \cup {PppRoute("gw")} /\ pc = "config"
        /\ UNCHANGED <<cfg, def, gtw, before>>
    BY <1>2 DEF InterfaceComesUp
  <2>2. PppRoute("gw").via = "link"
    BY PppRouteFields DEF Net, Length
  <2> QED
    BY <2>1, <2>2
<1>3. CASE DropWrongRoute
  BY <1>3 DEF DropWrongRoute, Call, DelRoute
<1>4. CASE ProtectTunnelRoute
  <2>1. PICK d \in GetRoute(table, "all", Outside), g \in GetRoute(table, "gw", Outside) :
             def' = d /\ gtw' = [g EXCEPT !.net = "gw"]
    BY <1>4 DEF ProtectTunnelRoute
  <2>2. def'.via # "assigned" /\ gtw'.via # "assigned"
    <3>1. pc \in Early /\ d \in table /\ g \in table /\ g \in Route
      BY <1>4, <2>1, BestOfRoutes DEF ProtectTunnelRoute, Net, Length
    <3> QED
      BY <2>1, <3>1 DEF Route
  <2> QED
    BY <1>4, <2>2 DEF ProtectTunnelRoute
<1>5. CASE ProtectFails
  <2>1. gtw' # NoRoute => gtw'.via # "assigned"
    <3>1. ASSUME NEW g \in GetRoute(table, "gw", Outside), gtw' = [g EXCEPT !.net = "gw"]
          PROVE  gtw'.via # "assigned"
      <4>1. pc \in Early /\ g \in table /\ g \in Route
        BY <1>5, <3>1, BestOfRoutes DEF ProtectFails, Net, Length
      <4> QED
        BY <3>1, <4>1 DEF Route
    <3> QED
      BY <1>5, <3>1 DEF ProtectFails
  <2> QED
    BY <1>5, <2>1 DEF ProtectFails, AfterProtect
<1>6. CASE AddGatewayRoute
  <2>1. table' \subseteq table \cup {gtw} /\ gtw.via # "assigned" /\ gtw.dev # "ppp"
    BY <1>6 DEF AddGatewayRoute, Call, SetRoute, Saved
  <2> QED
    BY <1>6, <2>1 DEF AddGatewayRoute, AfterProtect
<1>7. CASE AddSplitRoute
  <2>1. /\ split # <<>> /\ pc' \notin Early
        /\ UNCHANGED <<cfg, def, gtw, split, before>>
    BY <1>7 DEF AddSplitRoute, Saved
  <2>2. \/ table' = table
        \/ \E n \in Net : \E q \in SplitRoutes(n) : table' \subseteq table \cup {q}
    <3>1. i <= Len(split) => split[i] \in Net
      BY ElementOfSeq
    <3> QED
      BY <1>7, <3>1 DEF AddSplitRoute, SetSplitRoute, Call, SetRoute
  <2>3. \A n \in Net : \A q \in SplitRoutes(n) : q.via = "assigned" =>
          cfg.assigned = "other" /\ (cfg.os = "linux" => q.dev = "ppp")
    BY SplitRouteFields, PppRouteFields
  <2>4. \A r \in table' : r.via = "assigned" =>
          cfg.assigned = "other" /\ (cfg.os = "linux" => r.dev = "ppp")
    BY <2>2, <2>3
  <2> QED
    BY <2>1, <2>4
<1>8. CASE SetDefaultRoute
  <2>1. \A n \in {"low", "high", "all"} : PppRoute(n).via = "link"
    BY PppRouteFields DEF Net, Length
  <2>2. \/ table' \subseteq table
        \/ \E n \in {"low", "high", "all"} : table' \subseteq table \cup {PppRoute(n)}
    BY <1>8 DEF SetDefaultRoute, Call, SetRoute, DelRoute
  <2>3. UNCHANGED <<cfg, def, gtw, split, before>> /\ pc' \notin Early /\ pc \notin Early
    BY <1>8 DEF SetDefaultRoute
  <2> QED
    BY <2>1, <2>2, <2>3
<1>9. CASE AddNameservers \/ InterfaceDown \/ RemoveNameservers
  BY <1>9 DEF AddNameservers, InterfaceDown, RemoveNameservers
<1>10. CASE RestoreRoutes
  <2>1. /\ table' \subseteq table \cup {def} /\ def.via # "assigned" /\ def.dev # "ppp"
        /\ UNCHANGED <<cfg, def, gtw, split, before>> /\ pc' \notin Early /\ pc \notin Early
    BY <1>10 DEF RestoreRoutes, Call, SetRoute, DelRoute, Saved
  <2> QED
    BY <2>1
<1>11. CASE PppGone \/ Cancel
  BY <1>11 DEF PppGone, Cancel, InUp
<1>12. CASE Renew
  BY <1>12 DEF Renew, Renewed
<1> QED
  BY <1>1, <1>2, <1>3, <1>4, <1>5, <1>6, <1>7, <1>8, <1>9, <1>10, <1>11, <1>12 DEF Next

\* When nothing is protected and no call has failed: no route leads through the tunnel
\* but split routes, and there is no default route.
Bare == gtw = NoRoute /\ pc \in {"addSplit", "default1", "default2", "dns", "up"}

UnprotectedInv == faults = 0 =>
  /\ pc \in {"config", "protect"} => \A r \in table : r.dev # "ppp"
  /\ pc = "drop" => \A r \in table : r.dev = "ppp" => r = PppRoute("gw")
  /\ pc \in {"protect", "addGateway", "addSplit"} => cfg.setRoutes
  /\ Bare => \A r \in table : r.dev = "ppp" => cfg.setRoutes /\ r.net \in Pushed
  /\ Bare /\ cfg.setRoutes /\ renewals = 0 => \A r \in table : r.net # "all"

LEMMA UnprotectedStep ==
  ASSUME TypeInv, Saved, UnprotectedInv, Next PROVE UnprotectedInv'
<1> SUFFICES ASSUME faults' = 0 PROVE UnprotectedInv'
  BY DEF UnprotectedInv
<1>0. faults = 0 /\ renewals \in Nat
  BY FaultsGrow, CasesAssumption DEF TypeInv, EnvType
<1> USE <1>0 DEF TypeInv, RouteType, UnprotectedInv, Bare, routeVars, envVars, dnsVars,
        envButFaults
<1>1. CASE PushRoute
  BY <1>1 DEF PushRoute
<1>2. CASE \E wrong \in BOOLEAN : InterfaceComesUp(wrong)
  BY <1>2 DEF InterfaceComesUp
<1>3. CASE DropWrongRoute
  <2>1. table' \subseteq table
    BY <1>3 DEF DropWrongRoute, Call, DelRoute
  <2>2. \A r \in table' : r.dev # "ppp"
    BY <1>3, <2>1, WrongDropped DEF DropWrongRoute
  <2>3. pc' = (IF cfg.setRoutes THEN "protect" ELSE "dns") /\ cfg' = cfg
    BY <1>3 DEF DropWrongRoute
  <2> QED
    BY <2>2, <2>3
<1>4. CASE ProtectTunnelRoute
  <2>1. gtw' # NoRoute
    BY <1>4, SavedStep DEF ProtectTunnelRoute, Saved
  <2> QED
    BY <1>4, <2>1 DEF ProtectTunnelRoute
<1>5. CASE ProtectFails
  <2>1. GetRoute(table, "all", Outside) = {}
    BY <1>5 DEF ProtectFails
  <2>2. \A r \in table : r.dev # "ppp" /\ r \in Route
    BY <1>5 DEF ProtectFails
  <2>3. ASSUME NEW r \in table, r.net = "all" PROVE FALSE
    <3>1. r.dev \in Outside
      BY <2>2 DEF Outside, Route
    <3>2. r \in Candidates(table, "all", Outside)
      BY <2>3, <3>1 DEF Candidates, Length, Hosts
    <3>3. \A q \in Candidates(table, "all", Outside) : Length[q.net] <= Length[r.net]
      BY <2>3 DEF Candidates
    <3> QED
      BY <2>1, <3>1, <3>2, <3>3 DEF GetRoute, Best
  <2>4. UNCHANGED <<cfg, table, renewals, split>> /\ cfg.setRoutes /\ pc' \in {"addSplit", "dns"}
    BY <1>5 DEF ProtectFails, AfterProtect
  <2> QED
    BY <2>2, <2>3, <2>4
<1>6. CASE AddGatewayRoute
  <2>1. gtw' # NoRoute /\ pc' \in {"addSplit", "default1"} /\ cfg' = cfg
    BY <1>6 DEF AddGatewayRoute, AfterProtect, Saved
  <2> QED
    BY <1>6, <2>1 DEF AddGatewayRoute
<1>7. CASE AddSplitRoute
  <2>1. /\ UNCHANGED <<cfg, gtw, split, renewals>> /\ pc = "addSplit" /\ cfg.setRoutes
        /\ pc' \in {"addSplit", "dns"}
    BY <1>7 DEF AddSplitRoute
  <2>2. \/ table' = table
        \/ \E k \in DOMAIN split : /\ split[k] \notin Skipped
                                    /\ \E q \in SplitRoutes(split[k]) : table' \subseteq table \cup {q}
    BY <1>7 DEF AddSplitRoute, SetSplitRoute, Call, SetRoute
  <2>3. \A k \in DOMAIN split : \A q \in SplitRoutes(split[k]) : q.net = split[k]
    BY SplitRouteFields
  <2>4. gtw = NoRoute => \A r \in table' : r \in table \/ (r.net \in Pushed /\ r.net # "all")
    BY <2>2, <2>3 DEF Pushed, Skipped
  <2>5. Pushed' = Pushed
    BY <2>1 DEF Pushed
  <2> QED
    BY <2>1, <2>4, <2>5
<1>8. CASE SetDefaultRoute
  BY <1>8 DEF SetDefaultRoute, Saved
<1>9. CASE AddNameservers \/ InterfaceDown \/ RemoveNameservers \/ Cancel
  BY <1>9 DEF AddNameservers, InterfaceDown, RemoveNameservers, Cancel, Pushed
<1>10. CASE RestoreRoutes
  BY <1>10 DEF RestoreRoutes
<1>11. CASE PppGone
  BY <1>11 DEF PppGone, Pushed
<1>12. CASE Renew
  <2>1. \A r \in table' : r.dev = "ppp" => r \in table
    BY <1>12 DEF Renew, Renewed
  <2>2. UNCHANGED <<cfg, pc, gtw, split>> /\ renewals' # 0 /\ Pushed' = Pushed
    BY <1>12 DEF Renew, Pushed
  <2> QED
    BY <2>1, <2>2
<1> QED
  BY <1>1, <1>2, <1>3, <1>4, <1>5, <1>6, <1>7, <1>8, <1>9, <1>10, <1>11, <1>12 DEF Next

LEMMA GatewayStep ==
  ASSUME TypeInv, Saved, AssignedInv, GatewayInv, Next PROVE GatewayInv'
<1> USE DEF TypeInv, RouteType, GatewayInv, routeVars, envVars, dnsVars, envButFaults
<1>0. faults \in Nat
  BY DEF EnvType
<1>1. CASE PushRoute
  BY <1>1 DEF PushRoute, Wrong
<1>2. CASE \E wrong \in BOOLEAN : InterfaceComesUp(wrong)
  BY <1>2, PppRouteFields DEF InterfaceComesUp, Net, Length
<1>3. CASE DropWrongRoute
  <2>1. table' \subseteq table
    BY <1>3 DEF DropWrongRoute, Call, DelRoute
  <2>2. faults' = 0 => faults = 0
    BY <1>3, <1>0 DEF DropWrongRoute, Call
  <2>3. faults' = 0 => PppRoute("gw") \notin table'
    BY <1>3, WrongDropped
  <2>4. faults' = 0 => ~Wrong(table')
    BY <1>3, <2>1, <2>3, OneWrong DEF Wrong, AssignedInv, Early, DropWrongRoute
  <2>5. gtw' = NoRoute /\ pc' \in {"protect", "dns"}
    BY <1>3 DEF DropWrongRoute, Saved
  <2> QED
    BY <2>1, <2>4, <2>5
<1>4. CASE ProtectTunnelRoute \/ ProtectFails
  <2>1. ProtectFails /\ faults' = 0 => gtw' = gtw
    BY <1>0 DEF ProtectFails
  <2> QED
    BY <1>4, <1>0, <2>1 DEF ProtectTunnelRoute, ProtectFails, AfterProtect, Saved
<1>5. CASE AddGatewayRoute
  <2>1. gtw \in Route /\ gtw.net = "gw" /\ gtw.dev # "ppp"
    BY <1>5 DEF AddGatewayRoute, Saved
  <2>2. table' \subseteq table \cup {gtw}
    BY <1>5 DEF AddGatewayRoute, Call, SetRoute
  <2>3. faults' = 0 => faults = 0 /\ table' = SetRoute(table, gtw)
    BY <1>5, <1>0 DEF AddGatewayRoute, Call
  <2>4. faults' = 0 => ~Wrong(table)
    BY <1>5, <2>3 DEF AddGatewayRoute
  <2>5. faults' = 0 => ~Wrong(table')
    BY <2>1, <2>2, <2>4 DEF Wrong
  <2>6. ~Wrong(table) => Right(SetRoute(table, gtw))
    BY <2>1 DEF Wrong, Right, SetRoute, Route, Dev
  <2>7. pc' \in {"addSplit", "default1"}
    BY <1>5 DEF AddGatewayRoute, AfterProtect
  <2> QED
    BY <2>1, <2>2, <2>3, <2>4, <2>5, <2>6, <2>7
<1>6. CASE AddSplitRoute
  <2>1. ASSUME i <= Len(split), split[i] \notin Skipped, NEW q \in SplitRoutes(split[i])
        PROVE  q \in Route /\ (gtw # NoRoute => q.net # "gw")
    <3>1. split[i] \in Net
      BY <2>1, ElementOfSeq
    <3> QED
      BY <2>1, <3>1, SplitRouteFields DEF Skipped
  <2>2. faults' = 0 /\ gtw # NoRoute /\ ~Wrong(table) /\ Right(table)
          => ~Wrong(table') /\ Right(table')
    <3>1. CASE table' = table
      BY <3>1
    <3>2. CASE i <= Len(split) /\ split[i] \notin Skipped
                 /\ \E q \in SplitRoutes(split[i]) : table' = SetRoute(table, q)
      BY <3>2, <2>1, SetKeeps
    <3> QED
      BY <1>6, <3>1, <3>2 DEF AddSplitRoute, SetSplitRoute, Call
  <2>4. faults' = 0 => faults = 0
    BY FaultsGrow
  <2> QED
    BY <1>6, <2>2, <2>4 DEF AddSplitRoute
<1>7. CASE SetDefaultRoute
  <2>1. gtw # NoRoute /\ def \in Route /\ def.net = "all"
    BY <1>7 DEF SetDefaultRoute, Saved
  <2>2. \A n \in {"low", "high", "all"} :
          /\ PppRoute(n) \in Route /\ PppRoute(n).net = n /\ PppRoute(n).via = "link"
    BY PppRouteFields DEF Net, Length
  <2>3. \/ table' \in {table, DelRoute(table, def)}
        \/ \E n \in {"low", "high", "all"} : table' = SetRoute(table, PppRoute(n))
    BY <1>7 DEF SetDefaultRoute, Call
  <2>4. ~Wrong(table) /\ Right(table) => ~Wrong(table') /\ Right(table')
    <3>1. CASE table' = table
      BY <3>1
    <3>2. CASE table' = DelRoute(table, def)
      BY <3>2, <2>1, DelKeeps
    <3>3. CASE \E n \in {"low", "high", "all"} : table' = SetRoute(table, PppRoute(n))
      BY <3>3, <2>2, SetKeeps
    <3> QED
      BY <2>3, <3>1, <3>2, <3>3
  <2>6. faults' = 0 => faults = 0
    BY <1>7, <1>0 DEF SetDefaultRoute, Call
  <2> QED
    BY <1>7, <2>4, <2>6 DEF SetDefaultRoute
<1>8. CASE AddNameservers
  <2>1. faults' = 0 => faults = 0
    BY <1>8, <1>0 DEF AddNameservers
  <2> QED
    BY <1>8, <2>1 DEF AddNameservers
<1>9. CASE InterfaceDown \/ RemoveNameservers \/ Cancel
  BY <1>9 DEF InterfaceDown, RemoveNameservers, Cancel
<1>10. CASE RestoreRoutes
  <2>1. /\ pc' \in {"restore2", "restore3", "removeDns"}
        /\ table' \subseteq table \cup {def} /\ def.dev # "ppp"
    BY <1>10 DEF RestoreRoutes, Call, SetRoute, DelRoute, Saved
  <2> QED
    BY <1>10, <2>1 DEF RestoreRoutes, Saved
<1>11. CASE PppGone
  BY <1>11 DEF PppGone, Wrong, Right
<1>12. CASE Renew
  <2>1. /\ Wrong(table') <=> Wrong(table)
        /\ Right(table') <=> Right(table)
    BY <1>12 DEF Renew, Renewed, Wrong, Right
  <2> QED
    BY <1>12, <2>1 DEF Renew
<1> QED
  BY <1>1, <1>2, <1>3, <1>4, <1>5, <1>6, <1>7, <1>8, <1>9, <1>10, <1>11, <1>12 DEF Next

-----------------------------------------------------------------------------
(* The routes of others, on Linux *)

Holding == {"config", "up", "restore1"} \cup InUp

\* Until the routes are restored every route of somebody else is there, the default
\* route excepted; so one that could be added had not been.
ForeignInv == cfg.os = "linux" =>
  /\ \A r \in before : r.dev # "ppp"
  /\ pc \in Holding => \A r \in before : r.net = "all" \/ r \in table
  /\ added /\ faults = 0 => gtw \notin before

\* Whether it counts as failed or not, a step that sets a route takes none away.
LEMMA SetOnly ==
  ASSUME NEW r, Call(SetRoute(table, r)) PROVE table \subseteq table'
BY DEF Call, SetRoute

\* No step takes away routes that are not its own.
LEMMA RemovedRoutes ==
  ASSUME TypeInv, Saved, ForeignInv, Next, cfg.os = "linux",
         NEW r \in before, r \in table, r \notin table'
  PROVE  r.net = "all" \/ (r = gtw /\ faults > 0 /\ pc = "restore1")
<1> USE DEF TypeInv, RouteType, EnvType, ForeignInv, Saved, routeVars, envVars, dnsVars
<1>0. r \in Route /\ r.dev # "ppp"
  OBVIOUS
<1>1. CASE PushRoute \/ (\E wrong \in BOOLEAN : InterfaceComesUp(wrong)) \/ AddNameservers
  BY <1>1 DEF PushRoute, InterfaceComesUp, AddNameservers
<1>2. CASE DropWrongRoute
  BY <1>0, <1>2 DEF DropWrongRoute, Call, DelRoute, PppRoute
<1>3. CASE ProtectTunnelRoute \/ ProtectFails \/ AddGatewayRoute
  BY <1>3, SetOnly DEF ProtectTunnelRoute, ProtectFails, AddGatewayRoute
<1>4. CASE AddSplitRoute
  BY <1>4 DEF AddSplitRoute, SetSplitRoute, Call, SetRoute
<1>5. CASE SetDefaultRoute
  BY <1>5 DEF SetDefaultRoute, Call, SetRoute, DelRoute
<1>6. CASE InterfaceDown \/ RemoveNameservers \/ Cancel
  BY <1>6 DEF InterfaceDown, RemoveNameservers, Cancel
<1>7. CASE RestoreRoutes
  <2>1. CASE pc = "restore1"
    <3>1. table' = table \/ table' = table \ {gtw}
      BY <1>7, <2>1 DEF RestoreRoutes, Call, DelRoute
    <3>2. added
      BY <2>1
    <3> QED
      BY <2>1, <3>1, <3>2, <1>0
  <2>2. CASE pc = "restore2"
    BY <1>0, <1>7, <2>2 DEF RestoreRoutes, Call, DelRoute
  <2>3. CASE pc = "restore3"
    BY <1>7, <2>3 DEF RestoreRoutes, Call, SetRoute
  <2> QED
    BY <1>7, <2>1, <2>2, <2>3 DEF RestoreRoutes
<1>8. CASE PppGone
  BY <1>0, <1>8 DEF PppGone
<1>9. CASE Renew
  BY <1>9 DEF Renew, Renewed
<1> QED
  BY <1>1, <1>2, <1>3, <1>4, <1>5, <1>6, <1>7, <1>8, <1>9 DEF Next

LEMMA ForeignStep ==
  ASSUME TypeInv, Saved, ForeignInv, Next PROVE ForeignInv'
<1> SUFFICES ASSUME cfg'.os = "linux"
             PROVE  /\ \A r \in before' : r.dev # "ppp"
                    /\ pc' \in Holding => \A r \in before' : r.net = "all" \/ r \in table'
                    /\ added' /\ faults' = 0 => gtw' \notin before'
  BY DEF ForeignInv
<1>0. cfg' = cfg /\ cfg.os = "linux"
  BY DEF Next, PushRoute, InterfaceComesUp, DropWrongRoute, ProtectTunnelRoute,
         ProtectFails, AddGatewayRoute, AddSplitRoute, SetDefaultRoute, AddNameservers,
         InterfaceDown, RestoreRoutes, RemoveNameservers, PppGone, Renew, Cancel
<1>1. \/ before' = before
      \/ /\ Renew
         /\ before' = (before \ {r \in before : r.net = "all"
                                     /\ ~(cfg.os = "linux" /\ r.dev # "eth")})
                      \cup {[net |-> "all", via |-> "router2", dev |-> "eth"]}
  BY DEF Next, PushRoute, InterfaceComesUp, DropWrongRoute, ProtectTunnelRoute,
         ProtectFails, AddGatewayRoute, AddSplitRoute, SetDefaultRoute, AddNameservers,
         InterfaceDown, RestoreRoutes, RemoveNameservers, PppGone, Renew, Renewed,
         Cancel, envVars, envButFaults
<1>2. \A r \in before' : r.dev # "ppp" /\ (r \in before \/ r.net = "all")
  BY <1>0, <1>1 DEF ForeignInv
<1>3. pc' \in Holding => \A r \in before' : r.net = "all" \/ r \in table'
  <2>1. ASSUME pc' \in Holding PROVE pc \in Holding /\ (pc = "restore1" => pc' = pc)
    <3>1. CASE PushRoute \/ (\E wrong \in BOOLEAN : InterfaceComesUp(wrong)) \/ DropWrongRoute
      BY <3>1 DEF PushRoute, InterfaceComesUp, DropWrongRoute, Holding, InUp
    <3>2. CASE ProtectTunnelRoute \/ ProtectFails \/ AddGatewayRoute
      BY <3>2 DEF ProtectTunnelRoute, ProtectFails, AddGatewayRoute, Holding, InUp
    <3>3. CASE AddSplitRoute \/ SetDefaultRoute \/ AddNameservers \/ InterfaceDown
      BY <3>3 DEF AddSplitRoute, SetDefaultRoute, AddNameservers, InterfaceDown, Holding, InUp
    <3>4. CASE RestoreRoutes
      BY <2>1, <3>4 DEF RestoreRoutes, Holding, InUp
    <3>5. CASE RemoveNameservers \/ Cancel
      BY <2>1, <3>5 DEF RemoveNameservers, Cancel, Holding, InUp
    <3>6. CASE PppGone \/ Renew
      BY <2>1, <3>6 DEF PppGone, Renew
    <3> QED
      BY <3>1, <3>2, <3>3, <3>4, <3>5, <3>6 DEF Next
  <2>2. ASSUME pc' = pc, pc = "restore1" PROVE \A r \in before' : r.net = "all" \/ r \in table'
    <3>1. PppGone \/ Renew
      BY <2>2 DEF Next, PushRoute, InterfaceComesUp, DropWrongRoute, ProtectTunnelRoute,
         ProtectFails, AddGatewayRoute, AddSplitRoute, SetDefaultRoute, AddNameservers,
         InterfaceDown, RestoreRoutes, RemoveNameservers, Cancel, InUp
    <3>2. \A r \in table : r.dev # "ppp" /\ r.net # "all" => r \in table'
      BY <3>1 DEF PppGone, Renew, Renewed
    <3> QED
      BY <1>0, <1>2, <2>2, <3>2 DEF ForeignInv, Holding
  <2>3. ASSUME pc \in Holding, pc # "restore1" PROVE \A r \in before' : r.net = "all" \/ r \in table'
    BY <1>0, <1>2, <2>3, RemovedRoutes DEF ForeignInv
  <2> QED
    BY <2>1, <2>2, <2>3
<1>4. added' /\ faults' = 0 => gtw' \notin before'
  <2> SUFFICES ASSUME added', faults' = 0 PROVE gtw' \notin before'
    OBVIOUS
  <2>0. faults = 0
    BY FaultsGrow
  <2>1. CASE AddGatewayRoute
    <3>1. gtw \notin table /\ gtw.net = "gw" /\ gtw' = gtw /\ pc \in Holding
      BY <1>0, <2>0, <2>1 DEF AddGatewayRoute, Exists, Saved, Holding, InUp
    <3> QED
      BY <1>0, <1>2, <3>1 DEF ForeignInv
  <2>2. CASE ~AddGatewayRoute
    <3>0. faults \in Nat
      BY DEF TypeInv, EnvType
    <3>1. added /\ gtw' = gtw
      BY <2>0, <2>2, <3>0 DEF Next, PushRoute, InterfaceComesUp, DropWrongRoute, ProtectTunnelRoute,
         ProtectFails, AddSplitRoute, SetDefaultRoute, AddNameservers, InterfaceDown,
         RestoreRoutes, RemoveNameservers, PppGone, Renew, Cancel, routeVars, Saved
    <3>2. gtw.net = "gw" /\ gtw \notin before
      BY <1>0, <2>0, <3>1 DEF Saved, ForeignInv
    <3> QED
      BY <1>2, <3>1, <3>2
  <2> QED
    BY <2>1, <2>2
<1> QED
  BY <1>2, <1>3, <1>4

-----------------------------------------------------------------------------
(* The table as a whole *)

\* What a step does to the table.
TableStep ==
  \/ table' = table
  \/ \E r \in Route : r.dev # "ppp" /\ r.net \in {"gw", "all"} /\ table' = SetRoute(table, r)
  \/ \E n \in Net : table' = SetRoute(table, PppRoute(n))
  \/ \E r \in Route : split # <<>> /\ split' = split /\ table' = SetRoute(table, r)
  \/ \E r \in Route : table' = DelRoute(table, r)
  \/ /\ table' = table \cup {PppRoute("gw")} /\ pppUp' = TRUE
     /\ cfg.os = "mac" => \A r \in table : r.net # "gw"
  \/ table' = {r \in table : r.dev # "ppp"}
  \/ table' = Renewed(table)

\* Each step does one of these, and the interface changes with the table.
LEMMA TableSteps ==
  ASSUME TypeInv, Saved, Next
  PROVE  /\ TableStep /\ cfg' = cfg
         /\ pppUp' \in {pppUp, TRUE} \/ table' = {r \in table : r.dev # "ppp"}
         /\ before' = before \/ (before' = Renewed(before) /\ table' = Renewed(table))
         /\ split' = <<>> => split = <<>>
<1> USE DEF TypeInv, RouteType, TableStep, routeVars, envVars, dnsVars, envButFaults, Call
<1>1. CASE PushRoute \/ ProtectTunnelRoute \/ ProtectFails
  <2>1. PushRoute => split' # <<>> \/ split' = split
    BY DEF PushRoute
  <2> QED
    BY <1>1, <2>1 DEF PushRoute, ProtectTunnelRoute, ProtectFails
<1>2. CASE \E wrong \in BOOLEAN : InterfaceComesUp(wrong)
  BY <1>2 DEF InterfaceComesUp
<1>3. CASE DropWrongRoute
  <2>1. PppRoute("gw") \in Route
    BY PppRouteFields DEF Net, Length
  <2> QED
    BY <1>3, <2>1 DEF DropWrongRoute
<1>4. CASE AddGatewayRoute
  <2>1. gtw \in Route /\ gtw.dev # "ppp" /\ gtw.net = "gw"
    BY <1>4 DEF AddGatewayRoute, Saved
  <2> QED
    BY <1>4, <2>1 DEF AddGatewayRoute
<1>5. CASE AddSplitRoute
  <2>1. i <= Len(split) => \A q \in SplitRoutes(split[i]) : q \in Route
    BY ElementOfSeq, SplitRouteFields
  <2>2. split # <<>> /\ UNCHANGED <<cfg, split, pppUp, before>>
    BY <1>5 DEF AddSplitRoute, Saved
  <2> QED
    BY <1>5, <2>1, <2>2 DEF AddSplitRoute, SetSplitRoute
<1>6. CASE SetDefaultRoute
  <2>1. def \in Route /\ {"low", "high", "all"} \subseteq Net
    BY <1>6 DEF SetDefaultRoute, Saved, Net, Length
  <2> QED
    BY <1>6, <2>1 DEF SetDefaultRoute
<1>7. CASE AddNameservers
  BY <1>7 DEF AddNameservers
<1>8. CASE InterfaceDown \/ RemoveNameservers \/ Cancel
  BY <1>8 DEF InterfaceDown, RemoveNameservers, Cancel
<1>9. CASE RestoreRoutes
  <2>1. /\ gtw \in Route /\ def \in Route /\ def.dev # "ppp" /\ def.net = "all"
        /\ pc = "restore2" => ppp \in Route
    BY <1>9 DEF RestoreRoutes, Saved
  <2> QED
    BY <1>9, <2>1 DEF RestoreRoutes
<1>10. CASE PppGone
  BY <1>10 DEF PppGone
<1>11. CASE Renew
  BY <1>11 DEF Renew
<1> QED
  BY <1>1, <1>2, <1>3, <1>4, <1>5, <1>6, <1>7, <1>8, <1>9, <1>10, <1>11 DEF Next

\* Without split routes, routes around the tunnel are those of others, the default route,
\* and a route to the gateway; there are none through an interface that is not there; on macOS there is
\* one for a network.
TableInv ==
  /\ \A r \in before : r.dev # "ppp"
  /\ split = <<>> =>
       \A r \in table : r.dev # "ppp" => r \in before \/ r.net \in {"gw", "all"}
  /\ pppUp = FALSE => \A r \in table : r.dev # "ppp"
  /\ cfg.os = "mac" => OnePerNet(table) /\ OnePerNet(before)

\* Setting a route adds it or does nothing.
LEMMA SetAdds ==
  ASSUME NEW t, NEW r
  PROVE  /\ SetRoute(t, r) \in {t, t \cup {r}}
         /\ r.dev = "ppp" /\ ~pppUp => SetRoute(t, r) = t
         /\ cfg.os = "mac" /\ OnePerNet(t) => OnePerNet(SetRoute(t, r))
BY DEF SetRoute, OnePerNet

LEMMA DelRemoves ==
  ASSUME NEW t, NEW r PROVE DelRoute(t, r) \subseteq t
BY DEF DelRoute

\* A renewal leaves one default route on macOS and adds no other.
LEMMA RenewedFacts ==
  ASSUME NEW t \in SUBSET Route
  PROVE  /\ \A r \in Renewed(t) : r \in t \/ (r.net = "all" /\ r.dev # "ppp")
         /\ \A r \in t : r.net # "all" => r \in Renewed(t)
         /\ cfg.os = "mac" /\ OnePerNet(t) => OnePerNet(Renewed(t))
BY DEF Renewed, OnePerNet

LEMMA TableInvStep ==
  ASSUME TypeInv, Saved, TableInv, Next PROVE TableInv'
<1> USE DEF TypeInv, RouteType, EnvType
<1>0. /\ TableStep /\ cfg' = cfg /\ (split' = <<>> => split = <<>>)
      /\ pppUp' \in {pppUp, TRUE} \/ table' = {r \in table : r.dev # "ppp"}
      /\ before' = before \/ (before' = Renewed(before) /\ table' = Renewed(table))
  BY TableSteps
<1>1. ASSUME table' \subseteq table, before' = before PROVE TableInv'
  <2>1. pppUp' = FALSE => \A r \in table' : r.dev # "ppp"
    BY <1>0, <1>1 DEF TableInv, Route, Dev
  <2> QED
    BY <1>0, <1>1, <2>1 DEF TableInv, OnePerNet
<1>2. ASSUME NEW r \in Route, r.dev # "ppp", r.net \in {"gw", "all"}, before' = before,
             table' = SetRoute(table, r)
      PROVE  TableInv'
  <2>1. table' \in {table, table \cup {r}}
        /\ (cfg.os = "mac" /\ OnePerNet(table) => OnePerNet(table'))
    BY <1>2, SetAdds
  <2>2. pppUp' = FALSE => \A q \in table' : q.dev # "ppp"
    BY <1>0, <1>2, <2>1 DEF TableInv, Route, Dev
  <2> QED
    BY <1>0, <1>2, <2>1, <2>2 DEF TableInv
<1>3. ASSUME NEW n \in Net, before' = before, table' = SetRoute(table, PppRoute(n))
      PROVE  TableInv'
  <2>1. PppRoute(n).dev = "ppp"
    BY PppRouteFields
  <2>2. /\ table' \in {table, table \cup {PppRoute(n)}}
        /\ ~pppUp => table' = table
        /\ cfg.os = "mac" /\ OnePerNet(table) => OnePerNet(table')
    BY <1>3, <2>1, SetAdds
  <2>3. ASSUME pppUp' = FALSE PROVE \A q \in table' : q.dev # "ppp"
    <3>1. CASE pppUp = FALSE
      BY <2>2, <3>1 DEF TableInv
    <3>2. CASE table' = {q \in table : q.dev # "ppp"}
      BY <3>2 DEF Route, Dev
    <3> QED
      BY <1>0, <2>3, <3>1, <3>2
  <2> QED
    BY <1>0, <1>3, <2>1, <2>2, <2>3 DEF TableInv
<1>8. ASSUME NEW r \in Route, split' # <<>>, before' = before, table' = SetRoute(table, r)
      PROVE  TableInv'
  <2>1. /\ table' \in {table, table \cup {r}} /\ (r.dev = "ppp" /\ ~pppUp => table' = table)
        /\ cfg.os = "mac" /\ OnePerNet(table) => OnePerNet(table')
    BY <1>8, SetAdds
  <2>2. ASSUME pppUp' = FALSE PROVE \A q \in table' : q.dev # "ppp"
    <3>1. CASE pppUp = FALSE
      BY <2>1, <3>1 DEF TableInv
    <3>2. CASE table' = {q \in table : q.dev # "ppp"}
      BY <3>2
    <3> QED
      BY <1>0, <2>2, <3>1, <3>2
  <2> QED
    BY <1>0, <1>8, <2>1, <2>2 DEF TableInv
<1>4. ASSUME /\ table' = table \cup {PppRoute("gw")} /\ pppUp' = TRUE
             /\ cfg.os = "mac" => \A r \in table : r.net # "gw",
             before' = before
      PROVE  TableInv'
  <2>1. PppRoute("gw").dev = "ppp" /\ PppRoute("gw").net = "gw"
    BY PppRouteFields DEF Net, Length
  <2>2. cfg.os = "mac" => OnePerNet(table')
    BY <1>4, <2>1 DEF TableInv, OnePerNet
  <2> QED
    BY <1>0, <1>4, <2>1, <2>2 DEF TableInv
<1>5. ASSUME table' = Renewed(table), before' = Renewed(before) PROVE TableInv'
  <2>1. ASSUME pppUp' = FALSE PROVE \A r \in table' : r.dev # "ppp"
    <3>1. CASE pppUp = FALSE
      BY <1>5, <3>1, RenewedFacts DEF TableInv
    <3>2. CASE table' = {q \in table : q.dev # "ppp"}
      BY <3>2 DEF Route, Dev
    <3> QED
      BY <1>0, <2>1, <3>1, <3>2
  <2>2. /\ \A r \in before' : r.dev # "ppp"
        /\ split' = <<>> =>
             \A r \in table' : r.dev # "ppp" => r \in before' \/ r.net \in {"gw", "all"}
    BY <1>0, <1>5, RenewedFacts DEF TableInv
  <2>3. cfg'.os = "mac" => OnePerNet(table') /\ OnePerNet(before')
    BY <1>0, <1>5, RenewedFacts DEF TableInv
  <2> QED
    BY <2>1, <2>2, <2>3 DEF TableInv
<1>6. ASSUME table' = Renewed(table), before' = before PROVE TableInv'
  <2>1. ASSUME pppUp' = FALSE PROVE \A r \in table' : r.dev # "ppp"
    <3>1. CASE pppUp = FALSE
      BY <1>6, <3>1, RenewedFacts DEF TableInv
    <3>2. CASE table' = {q \in table : q.dev # "ppp"}
      BY <3>2 DEF Route, Dev
    <3> QED
      BY <1>0, <2>1, <3>1, <3>2
  <2>2. /\ \A r \in before' : r.dev # "ppp"
        /\ split' = <<>> =>
             \A r \in table' : r.dev # "ppp" => r \in before' \/ r.net \in {"gw", "all"}
    BY <1>0, <1>6, RenewedFacts DEF TableInv
  <2>3. cfg'.os = "mac" => OnePerNet(table') /\ OnePerNet(before')
    BY <1>0, <1>6, RenewedFacts DEF TableInv
  <2> QED
    BY <2>1, <2>2, <2>3 DEF TableInv
<1>7. before' = before => TableInv'
  BY <1>0, <1>1, <1>2, <1>3, <1>4, <1>6, <1>8, DelRemoves DEF TableStep
<1> QED
  BY <1>0, <1>5, <1>7

-----------------------------------------------------------------------------
(* The two halves of the Internet *)

\* Neither another route to one of the halves nor a failure.
Plain == /\ cfg.half /\ cfg.push = <<>> /\ faults = 0
         /\ ~\E r \in before : r.net \in {"low", "high"}

\* Each half is there as soon as it was set.
HalfInv ==
  /\ cfg.push = <<>> => split = <<>>
  /\ Plain /\ pppUp =>
       /\ pc = "default2" => PppRoute("low") \in table
       /\ pc \in {"dns", "up"} /\ gtw # NoRoute =>
            PppRoute("low") \in table /\ PppRoute("high") \in table

\* A half that nobody else routes is set.
LEMMA HalfSet ==
  ASSUME TypeInv, AssignedInv, TableInv, Plain, pppUp, split = <<>>,
         NEW n \in {"low", "high"}
  PROVE  PppRoute(n) \in SetRoute(table, PppRoute(n))
<1>1. n \in Net
  BY DEF Net, Length
<1>2. ASSUME NEW q \in table, q.net = n PROVE q = PppRoute(n)
  <2>1. q \in Route /\ q.dev \in Dev
    BY DEF TypeInv, RouteType, Route
  <2>2. q.dev = "ppp"
    BY <1>2, <2>1 DEF TableInv, Plain, Dev
  <2>3. q.via = "link"
    BY <2>2 DEF AssignedInv
  <2> QED
    BY <1>2, <2>1, <2>2, <2>3 DEF Route, PppRoute
<1>3. PppRoute(n).net = n
  BY <1>1, PppRouteFields
<1>4. CASE cfg.os = "mac" /\ \E q \in table : q.net = n
  <2>1. SetRoute(table, PppRoute(n)) = table
    BY <1>3, <1>4 DEF SetRoute
  <2> QED
    BY <1>2, <1>4, <2>1
<1>5. CASE ~(cfg.os = "mac" /\ \E q \in table : q.net = n)
  <2>1. SetRoute(table, PppRoute(n)) = table \cup {PppRoute(n)}
    BY <1>3, <1>5 DEF SetRoute
  <2> QED
    BY <2>1
<1> QED
  BY <1>4, <1>5

LEMMA HalfStep ==
  ASSUME TypeInv, Saved, AssignedInv, TableInv, HalfInv, Next PROVE HalfInv'
<1> USE DEF TypeInv, RouteType, EnvType, HalfInv, routeVars, envVars, dnsVars, envButFaults
<1>0. cfg' = cfg /\ (before' = before \/ before' = Renewed(before))
  BY TableSteps
<1>1. cfg.push = <<>> => split' = <<>>
  <2>1. CASE PushRoute
    <3>1. cfg.push # <<>>
      <4>1. i <= Len(cfg.push) /\ i \in Nat \ {0}
        BY <2>1 DEF PushRoute
      <4> QED
        BY <4>1
    <3> QED
      BY <3>1
  <2>2. CASE ~PushRoute
    <3>1. split' = split
      BY <2>2 DEF Next, InterfaceComesUp, DropWrongRoute, ProtectTunnelRoute, ProtectFails,
         AddGatewayRoute, AddSplitRoute, SetDefaultRoute, AddNameservers, InterfaceDown,
         RestoreRoutes, RemoveNameservers, PppGone, Renew, Cancel
    <3> QED
      BY <3>1
  <2> QED
    BY <2>1, <2>2
<1> SUFFICES ASSUME Plain', pppUp' = TRUE
             PROVE  /\ pc' = "default2" => PppRoute("low") \in table'
                    /\ pc' \in {"dns", "up"} /\ gtw' # NoRoute =>
                         PppRoute("low") \in table' /\ PppRoute("high") \in table'
  BY <1>0, <1>1
<1>2. Plain /\ faults = 0 /\ faults' = 0
  <2>1. faults' = 0 /\ faults = 0
    BY FaultsGrow DEF Plain
  <2>2. \A r \in before : r.net \in {"low", "high"} => r \in before'
    BY <1>0, RenewedFacts
  <2> QED
    BY <1>0, <2>1, <2>2 DEF Plain
<1>3. split = <<>>
  BY <1>2 DEF Plain
<1>4. CASE SetDefaultRoute
  <2>1. pppUp = TRUE /\ pc \in {"default1", "default2"}
    BY <1>4 DEF SetDefaultRoute
  <2>2. /\ PppRoute("low") \in SetRoute(table, PppRoute("low"))
        /\ PppRoute("high") \in SetRoute(table, PppRoute("high"))
    BY <1>2, <1>3, <2>1, HalfSet
  <2>3. /\ pc = "default1" => table' = SetRoute(table, PppRoute("low")) /\ pc' = "default2"
        /\ pc = "default2" => table' = SetRoute(table, PppRoute("high")) /\ pc' = "dns"
    BY <1>2, <1>4 DEF SetDefaultRoute, Call, Plain
  <2>4. pc = "default2" => PppRoute("low") \in table'
    BY <1>2, <2>1, <2>3, SetAdds
  <2> QED
    BY <2>1, <2>2, <2>3, <2>4
<1>5. CASE AddNameservers
  BY <1>2, <1>5 DEF AddNameservers
<1>6. CASE Renew
  <2>1. \A n \in {"low", "high"} : PppRoute(n).net # "all"
    BY PppRouteFields DEF Net, Length
  <2>2. table' = Renewed(table) /\ UNCHANGED <<pc, gtw, pppUp>>
    BY <1>6 DEF Renew
  <2> QED
    BY <1>2, <2>1, <2>2, RenewedFacts
<1>7. CASE AddSplitRoute
  BY <1>3, <1>7 DEF AddSplitRoute, Saved
<1>8. CASE PushRoute \/ (\E wrong \in BOOLEAN : InterfaceComesUp(wrong)) \/ DropWrongRoute
  BY <1>8 DEF PushRoute, InterfaceComesUp, DropWrongRoute, Saved
<1>9. CASE ProtectTunnelRoute \/ ProtectFails \/ AddGatewayRoute
  <2>1. ProtectFails => gtw' = NoRoute
    BY <1>2 DEF ProtectFails, Saved
  <2> QED
    BY <1>3, <1>9, <2>1 DEF ProtectTunnelRoute, ProtectFails, AddGatewayRoute, AfterProtect, Saved
<1>10. CASE InterfaceDown \/ RestoreRoutes \/ RemoveNameservers \/ PppGone \/ Cancel
  BY <1>10 DEF InterfaceDown, RestoreRoutes, RemoveNameservers, PppGone, Cancel
<1> QED
  BY <1>4, <1>5, <1>6, <1>7, <1>8, <1>9, <1>10 DEF Next

-----------------------------------------------------------------------------
(* What a session leaves of the table *)

Replaced == ~cfg.half /\ split = <<>>
Others(t) == {r \in t : r.dev # "ppp" /\ r.via # "assigned"}
Protected == IF cfg.os = "mac" /\ HostRouteWasThere THEN before ELSE before \cup {gtw}
Kept == IF cfg.os = "mac" /\ added THEN {r \in before : r.net # "gw"} ELSE before
Less(t) == IF Replaced THEN t \ {def} ELSE t

\* The routes around the tunnel at each place of an undisturbed session.
Expected ==
  IF gtw = NoRoute \/ pc = "addGateway" THEN before
  ELSE IF pc \in {"addSplit", "default1"} THEN Protected
  ELSE IF pc \in {"default2", "dns", "up", "restore1"} THEN Less(Protected)
  ELSE IF pc \in {"restore2", "restore3"} \/ ~added THEN Less(Kept)
  ELSE Kept

\* What was saved was there, and on Linux it counts as added only if it was not.
SavedBefore ==
  gtw # NoRoute =>
    /\ cfg.setRoutes /\ def \in before
    /\ pc # "addGateway" => (added <=> (cfg.os = "mac" \/ gtw \notin before))

\* The default route of the tunnel is taken out again before the saved one is set.
DefaultTaken ==
  /\ pc \in {"restore2", "restore3"} => Replaced /\ added
  /\ pc = "restore3" /\ cfg.os = "mac" => \A r \in table : r.net # "all"
  /\ Replaced /\ ((pc \in {"dns", "up"} /\ added) \/ pc \in {"restore1", "restore2"}) =>
       ppp = PppRoute("all")

RoutesInv ==
  /\ pc = "protect" => cfg.setRoutes
  /\ pc \in {"default1", "default2"} => split = <<>>
  /\ Undisturbed => Others(table) = Expected /\ SavedBefore /\ DefaultTaken

\* A session that is undisturbed has been so all the time.
LEMMA UndisturbedBefore ==
  ASSUME TypeInv, Next, Undisturbed'
  PROVE  Undisturbed /\ faults = 0 /\ faults' = 0 /\ cfg' = cfg /\ before' = before
         /\ ~Renew /\ ~Cancel
<1> USE DEF routeVars, envVars, dnsVars, envButFaults
<1>1. faults = 0 /\ faults' = 0
  BY FaultsGrow DEF Undisturbed
<1>2. renewals \in Nat /\ renewals' = 0 /\ cancelled' = FALSE /\ cancelled \in BOOLEAN
  BY CasesAssumption DEF TypeInv, EnvType, Undisturbed
<1>3. ~Renew /\ ~Cancel
  BY <1>2 DEF Renew, Cancel
<1>4. UNCHANGED <<cfg, before, renewals, cancelled>>
  <2>1. CASE PushRoute \/ (\E wrong \in BOOLEAN : InterfaceComesUp(wrong)) \/ DropWrongRoute
    BY <2>1 DEF PushRoute, InterfaceComesUp, DropWrongRoute
  <2>2. CASE ProtectTunnelRoute \/ ProtectFails \/ AddGatewayRoute
    BY <2>2 DEF ProtectTunnelRoute, ProtectFails, AddGatewayRoute
  <2>3. CASE AddSplitRoute \/ SetDefaultRoute \/ AddNameservers \/ InterfaceDown
    BY <2>3 DEF AddSplitRoute, SetDefaultRoute, AddNameservers, InterfaceDown
  <2>4. CASE RestoreRoutes \/ RemoveNameservers \/ PppGone
    BY <2>4 DEF RestoreRoutes, RemoveNameservers, PppGone
  <2> QED
    BY <1>3, <2>1, <2>2, <2>3, <2>4 DEF Next
<1> QED
  BY <1>1, <1>2, <1>3, <1>4 DEF Undisturbed

\* Without failures a call does what it was to do.
LEMMA CallWorks ==
  ASSUME TypeInv, NEW t, Call(t), faults' = 0 PROVE table' = t
<1>1. faults \in Nat
  BY CasesAssumption DEF TypeInv, EnvType
<1> QED
  BY <1>1 DEF Call

\* Routes of the tunnel come and go without the others, as long as no other has the
\* network on macOS.
LEMMA OthersSet ==
  ASSUME NEW t \in SUBSET Route, NEW n \in Net
  PROVE  Others(SetRoute(t, PppRoute(n))) = Others(t)
<1>1. PppRoute(n).dev = "ppp"
  BY PppRouteFields
<1> QED
  BY <1>1 DEF SetRoute, Others

LEMMA OthersDel ==
  ASSUME NEW t \in SUBSET Route, NEW n \in Net,
         cfg.os \in {"linux", "mac"},
         cfg.os = "mac" => \A r \in Others(t) : r.net # n
  PROVE  Others(DelRoute(t, PppRoute(n))) = Others(t)
<1>1. PppRoute(n).dev = "ppp" /\ PppRoute(n).net = n
  BY PppRouteFields
<1> QED
  BY <1>1 DEF DelRoute, Others

\* Two routes to one network are one on macOS.
LEMMA OthersDelOwn ==
  ASSUME NEW t \in SUBSET Route, NEW r \in Others(t),
         cfg.os \in {"linux", "mac"}, cfg.os = "mac" => OnePerNet(t)
  PROVE  Others(DelRoute(t, r)) = Others(t) \ {r}
BY DEF DelRoute, Others, OnePerNet

LEMMA RoutesStep ==
  ASSUME TypeInv, Saved, AssignedInv, GatewayInv, TableInv, RoutesInv, Next
  PROVE  RoutesInv'
<1> USE DEF TypeInv, RouteType, EnvType, routeVars, envVars, dnsVars, envButFaults
<1>1. pc' = "protect" => cfg'.setRoutes
  <2>0. cfg' = cfg
    BY TableSteps
  <2>1. pc' = "protect" => pc = "protect" \/ DropWrongRoute
    BY DEF Next, PushRoute, InterfaceComesUp, ProtectTunnelRoute, ProtectFails,
       AddGatewayRoute, AddSplitRoute, SetDefaultRoute, AddNameservers, InterfaceDown,
       RestoreRoutes, RemoveNameservers, PppGone, Renew, Cancel, AfterProtect
  <2> QED
    BY <2>0, <2>1 DEF RoutesInv, DropWrongRoute
<1>2. pc' \in {"default1", "default2"} => split' = <<>>
  <2>1. CASE PushRoute \/ (\E wrong \in BOOLEAN : InterfaceComesUp(wrong)) \/ DropWrongRoute
    BY <2>1 DEF PushRoute, InterfaceComesUp, DropWrongRoute
  <2>2. CASE ProtectTunnelRoute \/ ProtectFails \/ AddGatewayRoute
    BY <2>2 DEF ProtectTunnelRoute, ProtectFails, AddGatewayRoute, AfterProtect
  <2>3. CASE AddSplitRoute \/ SetDefaultRoute \/ AddNameservers \/ InterfaceDown
    BY <2>3 DEF AddSplitRoute, SetDefaultRoute, AddNameservers, InterfaceDown, RoutesInv
  <2>4. CASE RestoreRoutes \/ RemoveNameservers \/ PppGone \/ Renew \/ Cancel
    BY <2>4 DEF RestoreRoutes, RemoveNameservers, PppGone, Renew, Cancel, RoutesInv
  <2> QED
    BY <2>1, <2>2, <2>3, <2>4 DEF Next
<1> SUFFICES ASSUME Undisturbed'
             PROVE  Others(table') = Expected' /\ SavedBefore' /\ DefaultTaken'
  BY <1>1, <1>2 DEF RoutesInv, Others
<1>3. /\ Undisturbed /\ faults = 0 /\ faults' = 0 /\ cfg' = cfg /\ before' = before
      /\ ~Renew /\ ~Cancel
  BY UndisturbedBefore
<1>4. Others(table) = Expected /\ SavedBefore /\ DefaultTaken
  BY <1>3 DEF RoutesInv
<1>5. cfg.os \in {"linux", "mac"}
  BY DEF ConfigType
<1>6. gtw # NoRoute => gtw \in Route /\ gtw.net = "gw" /\ gtw.dev # "ppp"
                       /\ def \in Route /\ def.net = "all" /\ def.dev # "ppp"
                       /\ gtw.via # "assigned" /\ def.via # "assigned"
  BY <1>3 DEF Saved, AssignedInv
<1>7. before \subseteq Route /\ \A r \in before : r.dev # "ppp" /\ r.via # "assigned"
  BY DEF TableInv, AssignedInv
<1>10. CASE PushRoute
  <2>1. /\ pc = "config" /\ pc' = "config" /\ gtw = NoRoute /\ gtw' = NoRoute
        /\ table' = table
    BY <1>10 DEF PushRoute, Saved
  <2> QED
    BY <1>3, <1>4, <2>1 DEF Expected, SavedBefore, DefaultTaken
<1>11. CASE \E wrong \in BOOLEAN : InterfaceComesUp(wrong)
  <2>1. /\ pc' = "drop" /\ gtw = NoRoute /\ gtw' = NoRoute
        /\ table' \in {table, table \cup {PppRoute("gw")}}
    BY <1>11 DEF InterfaceComesUp, Saved
  <2>2. Others(table') = Others(table)
    BY <2>1, PppRouteFields DEF Others, Net, Length
  <2> QED
    BY <1>3, <1>4, <2>1, <2>2 DEF Expected, SavedBefore, DefaultTaken
<1>12. CASE DropWrongRoute
  <2>1. /\ pc' \in {"protect", "dns"} /\ gtw = NoRoute /\ gtw' = NoRoute
        /\ added' = added /\ added = FALSE
    BY <1>12 DEF DropWrongRoute, Saved
  <2>2. Others(table') = Others(table)
    <3>1. CASE table' = table
      BY <3>1
    <3>2. CASE /\ PppRoute("gw") \in GetRoute(table, "gw", {"ppp"})
               /\ Call(DelRoute(table, PppRoute("gw")))
      <4>1. "gw" \in Net /\ table \in SUBSET Route
        BY DEF Net, Length
      <4>2. PppRoute("gw") \in table
        BY <3>2, <4>1, BestOfRoutes
      <4>3. PppRoute("gw").net = "gw" /\ PppRoute("gw").dev = "ppp"
        BY <4>1, PppRouteFields
      <4>4. cfg.os = "mac" => \A r \in Others(table) : r.net # "gw"
        BY <4>2, <4>3 DEF TableInv, OnePerNet, Others
      <4>5. table' = DelRoute(table, PppRoute("gw"))
        BY <1>3, <3>2, CallWorks
      <4> QED
        BY <1>5, <4>1, <4>4, <4>5, OthersDel
    <3> QED
      BY <1>12, <3>1, <3>2 DEF DropWrongRoute
  <2> QED
    BY <1>3, <1>4, <2>1, <2>2 DEF Expected, SavedBefore, DefaultTaken
<1>13. CASE ProtectTunnelRoute
  <2>1. PICK d \in GetRoute(table, "all", Outside), g \in GetRoute(table, "gw", Outside) :
             def' = d /\ gtw' = [g EXCEPT !.net = "gw"]
    BY <1>13 DEF ProtectTunnelRoute
  <2>2. def' \in Others(table)
    BY <1>13, <2>1, BestOfRoutes
    DEF Others, Net, Length, Outside, AssignedInv, Early, ProtectTunnelRoute
  <2>3. gtw = NoRoute /\ pc' = "addGateway" /\ table' = table /\ cfg.setRoutes
    BY <1>13 DEF ProtectTunnelRoute, Saved, RoutesInv
  <2> QED
    BY <1>3, <1>4, <2>2, <2>3 DEF Expected, SavedBefore, DefaultTaken
<1>14. CASE ProtectFails
  <2>1. /\ gtw = NoRoute /\ gtw' = NoRoute /\ table' = table /\ added' = FALSE
        /\ pc' \in {"addSplit", "dns"}
    BY <1>3, <1>14 DEF ProtectFails, AfterProtect, Saved
  <2> QED
    BY <1>3, <1>4, <2>1 DEF Expected, SavedBefore, DefaultTaken
<1>15. CASE AddGatewayRoute
  <2>1. /\ gtw' = gtw /\ def' = def /\ gtw # NoRoute /\ pc' \in {"addSplit", "default1"}
        /\ pc = "addGateway" /\ split' = split
    BY <1>15 DEF AddGatewayRoute, AfterProtect, Saved
  <2>2. table' = SetRoute(table, gtw) /\ (added' <=> ~Exists(table, gtw))
    BY <1>3, <1>15, CallWorks DEF AddGatewayRoute
  <2>3. Others(table) = before
    BY <1>4, <2>1 DEF Expected
  <2>4. HostRouteWasThere <=> \E q \in table : q.net = "gw"
    <3>1. ~Wrong(table)
      BY <1>3, <2>1 DEF GatewayInv
    <3> QED
      BY <2>1, <2>3, <3>1 DEF HostRouteWasThere, Wrong, Others, AssignedInv, Early
  <2>5. Others(table') = Protected
    <3>1. CASE cfg.os = "mac" /\ HostRouteWasThere
      <4>1. table' = table
        BY <1>6, <2>1, <2>2, <2>4, <3>1 DEF SetRoute
      <4> QED
        BY <2>3, <3>1, <4>1 DEF Protected
    <3>2. CASE ~(cfg.os = "mac" /\ HostRouteWasThere)
      <4>1. table' = table \cup {gtw}
        BY <1>6, <2>1, <2>2, <2>4, <3>2 DEF SetRoute
      <4>2. Others(table') = Others(table) \cup {gtw}
        BY <1>6, <2>1, <4>1 DEF Others
      <4> QED
        BY <2>3, <3>2, <4>2 DEF Protected
    <3> QED
      BY <3>1, <3>2
  <2>6. Others(table') = Expected'
    BY <1>3, <2>1, <2>5 DEF Expected, Protected, HostRouteWasThere
  <2>7. SavedBefore'
    <3>1. gtw \in table <=> gtw \in before
      BY <1>6, <2>1, <2>3 DEF Others
    <3> QED
      BY <1>3, <1>4, <1>5, <2>1, <2>2, <3>1 DEF SavedBefore, Exists
  <2> QED
    BY <2>1, <2>6, <2>7 DEF DefaultTaken
<1>16. CASE AddSplitRoute
  <2>1. /\ UNCHANGED <<gtw, def, added, split, ppp>> /\ pc = "addSplit"
        /\ pc' \in {"addSplit", "dns"} /\ split # <<>>
    BY <1>16 DEF AddSplitRoute, Saved
  <2>2. Others(table') = Others(table)
    <3>1. i <= Len(split) => \A q \in SplitRoutes(split[i]) : q.dev = "ppp" \/ q.via = "assigned"
      BY ElementOfSeq, SplitRouteFields, PppRouteFields
    <3>2. i <= Len(split) => \A q \in SplitRoutes(split[i]) :
                               Others(SetRoute(table, q)) = Others(table)
      BY <3>1 DEF SetRoute, Others
    <3> QED
      BY <1>16, <3>2 DEF AddSplitRoute, SetSplitRoute, Call
  <2>3. Others(table') = Expected'
    BY <1>3, <1>4, <2>1, <2>2 DEF Expected, Protected, HostRouteWasThere, Less, Replaced
  <2>4. SavedBefore' /\ DefaultTaken'
    BY <1>3, <1>4, <2>1 DEF SavedBefore, DefaultTaken, Replaced
  <2> QED
    BY <2>3, <2>4
<1>17. CASE SetDefaultRoute
  <2>1. /\ UNCHANGED <<gtw, def, added, split>> /\ split = <<>> /\ gtw # NoRoute
        /\ pc = "default1" => pc' = "default2"
        /\ pc = "default2" => pc' = "dns"
        /\ pc \in {"default1", "default2"}
    BY <1>17 DEF SetDefaultRoute, Saved, RoutesInv
  <2>2. CASE cfg.half
    <3>1. Others(table') = Others(table)
      <4>1. "low" \in Net /\ "high" \in Net
        BY DEF Net, Length
      <4>2. /\ Others(SetRoute(table, PppRoute("low"))) = Others(table)
            /\ Others(SetRoute(table, PppRoute("high"))) = Others(table)
        BY <4>1, OthersSet
      <4> QED
        BY <1>17, <2>2, <4>2 DEF SetDefaultRoute, Call
    <3>2. Others(table') = Expected'
      BY <1>3, <1>4, <2>1, <2>2, <3>1
      DEF Expected, Protected, HostRouteWasThere, Less, Replaced
    <3>3. SavedBefore' /\ DefaultTaken'
      BY <1>3, <1>4, <2>1, <2>2 DEF SavedBefore, DefaultTaken, Replaced
    <3> QED
      BY <3>2, <3>3
  <2>3. CASE ~cfg.half /\ pc = "default1"
    <3>1. table' = DelRoute(table, def) /\ pc' = "default2"
      BY <1>3, <1>17, <2>1, <2>3, CallWorks DEF SetDefaultRoute
    <3>2. Others(table) = Protected
      BY <1>4, <2>1, <2>3 DEF Expected
    <3>3. def \in Others(table)
      BY <1>4, <2>1, <3>2 DEF Protected, SavedBefore
    <3>4. Others(table') = Protected \ {def}
      <4>1. table \in SUBSET Route /\ (cfg.os = "mac" => OnePerNet(table))
        BY DEF TableInv
      <4> QED
        BY <1>5, <3>1, <3>2, <3>3, <4>1, OthersDelOwn
    <3>5. Others(table') = Expected'
      BY <1>3, <2>1, <2>3, <3>1, <3>4
      DEF Expected, Protected, HostRouteWasThere, Less, Replaced
    <3>6. SavedBefore' /\ DefaultTaken'
      BY <1>3, <1>4, <2>1, <2>3, <3>1 DEF SavedBefore, DefaultTaken
    <3> QED
      BY <3>5, <3>6
  <2>4. CASE ~cfg.half /\ pc = "default2"
    <3>1. /\ table' = SetRoute(table, PppRoute("all")) /\ ppp' = PppRoute("all")
          /\ pc' = "dns"
      BY <1>3, <1>17, <2>1, <2>4, CallWorks DEF SetDefaultRoute
    <3>2. Others(table') = Others(table)
      BY <3>1, OthersSet DEF Net, Length
    <3>3. Others(table') = Expected'
      BY <1>3, <1>4, <2>1, <2>4, <3>1, <3>2
      DEF Expected, Protected, HostRouteWasThere, Less, Replaced
    <3>4. SavedBefore' /\ DefaultTaken'
      BY <1>3, <1>4, <2>1, <2>4, <3>1, PppRouteFields DEF SavedBefore, DefaultTaken, PppRoute
    <3> QED
      BY <3>3, <3>4
  <2> QED
    BY <2>1, <2>2, <2>3, <2>4
<1>18. CASE AddNameservers
  <2>1. /\ UNCHANGED <<gtw, def, added, split, ppp, table>> /\ pc = "dns" /\ pc' = "up"
    BY <1>18 DEF AddNameservers
  <2> QED
    BY <1>3, <1>4, <2>1
    DEF Expected, Protected, HostRouteWasThere, Less, Replaced, SavedBefore, DefaultTaken
<1>19. CASE InterfaceDown
  <2>1. /\ UNCHANGED <<gtw, def, added, split, ppp, table>> /\ pc = "up"
        /\ pc' = (IF cfg.setRoutes /\ added THEN "restore1" ELSE "removeDns")
    BY <1>19 DEF InterfaceDown
  <2>2. gtw # NoRoute /\ pc' = "removeDns" => ~added /\ cfg.os = "linux" /\ gtw \in before
    BY <1>4, <1>5, <2>1 DEF SavedBefore
  <2>3. Others(table') = Expected'
    <3>1. CASE gtw = NoRoute \/ pc' = "restore1"
      BY <1>3, <1>4, <2>1, <3>1
      DEF Expected, Protected, HostRouteWasThere, Less, Replaced
    <3>2. CASE gtw # NoRoute /\ pc' = "removeDns"
      <4>1. Protected = before /\ Kept = before
        BY <2>2, <3>2 DEF Protected, Kept
      <4>2. Others(table) = Less(before)
        BY <1>4, <2>1, <3>2, <4>1 DEF Expected
      <4>3. Expected' = Less(before)
        BY <1>3, <2>1, <2>2, <3>2, <4>1 DEF Expected, Less, Replaced, Kept
      <4> QED
        BY <2>1, <4>2, <4>3 DEF Others
    <3> QED
      BY <2>1, <3>1, <3>2
  <2>4. SavedBefore' /\ DefaultTaken'
    BY <1>3, <1>4, <2>1 DEF SavedBefore, DefaultTaken, Replaced
  <2> QED
    BY <2>3, <2>4
<1>20. CASE RestoreRoutes
  <2>1. UNCHANGED <<gtw, def, added, split, ppp>>
    BY <1>20 DEF RestoreRoutes
  <2>2. CASE pc = "restore1"
    <3>1. /\ table' = DelRoute(table, gtw) /\ added /\ gtw # NoRoute
          /\ pc' = (IF Replaced THEN "restore2" ELSE "removeDns")
      BY <1>3, <1>20, <2>2, CallWorks DEF RestoreRoutes, Saved, Replaced
    <3>2. Others(table) = Less(Protected)
      BY <1>4, <2>2, <3>1 DEF Expected
    <3>3. Others(table') = Less(Kept)
      <4>1. CASE cfg.os = "linux"
        <5>1. gtw \notin before
          BY <1>4, <2>2, <3>1, <4>1 DEF SavedBefore
        <5>2. Others(table') = Others(table) \ {gtw}
          BY <3>1, <4>1 DEF Others, DelRoute
        <5>3. Protected = before \cup {gtw} /\ Kept = before
          BY <4>1 DEF Protected, Kept
        <5> QED
          BY <3>2, <5>1, <5>2, <5>3 DEF Less
      <4>2. CASE cfg.os = "mac"
        <5>1. Others(table') = {r \in Others(table) : r.net # "gw"}
          BY <1>6, <3>1, <4>2 DEF Others, DelRoute
        <5>2. {r \in Protected : r.net # "gw"} = Kept
          BY <1>6, <3>1, <4>2 DEF Protected, Kept
        <5> QED
          BY <3>2, <5>1, <5>2 DEF Less
      <4> QED
        BY <1>5, <4>1, <4>2
    <3>4. Expected' = Less(Kept)
      BY <1>3, <2>1, <3>1 DEF Expected, Less, Replaced, Kept
    <3>5. SavedBefore' /\ DefaultTaken'
      BY <1>3, <1>4, <2>1, <2>2, <3>1 DEF SavedBefore, DefaultTaken, Replaced
    <3> QED
      BY <3>3, <3>4, <3>5
  <2>3. CASE pc = "restore2"
    <3>1. /\ pc' = "restore3" /\ gtw # NoRoute /\ Replaced /\ added
          /\ ppp = PppRoute("all") /\ table' = DelRoute(table, ppp)
      BY <1>3, <1>4, <1>20, <2>3, CallWorks DEF RestoreRoutes, Saved, DefaultTaken
    <3>2. Others(table) = Kept \ {def}
      BY <1>4, <2>3, <3>1 DEF Expected, Less
    <3>3. cfg.os = "mac" => \A r \in Others(table) : r.net # "all"
      BY <1>4, <1>6, <3>1, <3>2 DEF Kept, TableInv, OnePerNet, SavedBefore
    <3>4. Others(table') = Others(table)
      BY <1>5, <3>1, <3>3, OthersDel DEF Net, Length
    <3>5. Expected' = Kept \ {def}
      BY <1>3, <2>1, <3>1 DEF Expected, Less, Replaced, Kept
    <3>6. cfg.os = "mac" => \A r \in table' : r.net # "all"
      BY <3>1, PppRouteFields DEF DelRoute, Net, Length
    <3>7. SavedBefore' /\ DefaultTaken'
      BY <1>3, <1>4, <2>1, <2>3, <3>1, <3>6 DEF SavedBefore, DefaultTaken, Replaced
    <3> QED
      BY <3>2, <3>4, <3>5, <3>7
  <2>4. CASE pc = "restore3"
    <3>1. /\ pc' = "removeDns" /\ gtw # NoRoute /\ Replaced /\ added
          /\ table' = SetRoute(table, def) /\ def \in Kept
      BY <1>3, <1>4, <1>6, <1>20, <2>4, CallWorks
      DEF RestoreRoutes, Saved, DefaultTaken, Kept, SavedBefore
    <3>2. table' = table \cup {def}
      BY <1>4, <1>6, <2>4, <3>1 DEF SetRoute, DefaultTaken
    <3>3. Others(table') = Others(table) \cup {def}
      BY <1>6, <3>1, <3>2 DEF Others
    <3>4. Others(table) = Kept \ {def}
      BY <1>4, <2>4, <3>1 DEF Expected, Less
    <3>5. Expected' = Kept
      BY <1>3, <2>1, <3>1 DEF Expected, Kept
    <3>6. SavedBefore' /\ DefaultTaken'
      BY <1>3, <1>4, <2>1, <2>4, <3>1 DEF SavedBefore, DefaultTaken
    <3> QED
      BY <3>1, <3>3, <3>4, <3>5, <3>6
  <2> QED
    BY <1>20, <2>2, <2>3, <2>4 DEF RestoreRoutes
<1>21. CASE RemoveNameservers
  <2>1. /\ UNCHANGED <<gtw, def, added, split, ppp, table>> /\ pc = "removeDns" /\ pc' = "off"
    BY <1>21 DEF RemoveNameservers
  <2> QED
    BY <1>3, <1>4, <2>1
    DEF Expected, Kept, Less, Replaced, SavedBefore, DefaultTaken
<1>22. CASE PppGone
  <2>1. UNCHANGED <<gtw, def, added, split, ppp, pc>> /\ table' = {r \in table : r.dev # "ppp"}
    BY <1>22 DEF PppGone
  <2>2. Others(table') = Others(table)
    BY <2>1 DEF Others
  <2>3. Expected' = Expected
    BY <1>3, <2>1 DEF Expected, Protected, HostRouteWasThere, Kept, Less, Replaced
  <2> QED
    BY <1>3, <1>4, <2>1, <2>2, <2>3 DEF SavedBefore, DefaultTaken, Replaced
<1> QED
  BY <1>3, <1>10, <1>11, <1>12, <1>13, <1>14, <1>15, <1>16, <1>17, <1>18, <1>19, <1>20,
     <1>21, <1>22 DEF Next

-----------------------------------------------------------------------------
(* Induction and recursion on the natural numbers, for the lines of resolv.conf *)

\* Induction on the natural numbers rests on their order.
LEMMA LessIsWellFounded == IsWellFoundedOn({ss \in Nat \X Nat : ss[1] < ss[2]}, Nat)
  BY NatLessThanWellFounded DEF OpToRel

\* A set of numbers that is not empty has a least one.
LEMMA Least ==
  ASSUME NEW T \in SUBSET Nat, T # {}
  PROVE  \E n \in T : \A m \in T : n <= m
<1> DEFINE R == {ss \in Nat \X Nat : ss[1] < ss[2]}
<1>1. PICK n \in T : \A m \in T : ~(<<m, n>> \in R)
  <2>1. IsWellFoundedOn(R, Nat)
    BY LessIsWellFounded
  <2> HIDE DEF R
  <2> QED
    BY <2>1, WFMin
<1>2. \A m \in T : ~(m < n)
  BY <1>1
<1> QED
  BY <1>2

\* A set that has 0 and with a number the next one has all of them.
LEMMA SetInduction ==
  ASSUME NEW T, 0 \in T, \A n \in Nat : n \in T => n + 1 \in T
  PROVE  \A n \in Nat : n \in T
<1> SUFFICES ASSUME Nat \ T # {} PROVE FALSE
  OBVIOUS
<1>1. PICK n \in Nat \ T : \A m \in Nat \ T : n <= m
  BY Least
<1>2. n - 1 \in Nat /\ n - 1 \in T
  BY <1>1
<1> QED
  BY <1>1, <1>2

\* f has the values of a loop over n places that starts from d.
Iterates(f, n, d, step) == f[0] = d /\ \A k \in 1 .. n : f[k] = step[<<f[k - 1], k>>]

\* Such a loop has a value at each place.
LEMMA Iteration ==
  ASSUME NEW n \in Nat, NEW D, NEW d \in D, NEW step \in [D \X (1 .. n) -> D]
  PROVE  \E f \in [0 .. n -> D] : Iterates(f, n, d, step)
<1> DEFINE Runs(f, m) == f[0] = d /\ \A k \in 1 .. m : f[k] = step[<<f[k - 1], k>>]
           T == {m \in Nat : m <= n => \E f \in [0 .. m -> D] : Runs(f, m)}
<1>1. 0 \in T
  <2>1. [k \in 0 .. 0 |-> d] \in [0 .. 0 -> D] /\ Runs([k \in 0 .. 0 |-> d], 0)
    OBVIOUS
  <2> QED
    BY <2>1
<1>2. ASSUME NEW m \in Nat, m \in T PROVE m + 1 \in T
  <2> SUFFICES ASSUME m + 1 <= n PROVE \E g \in [0 .. m + 1 -> D] : Runs(g, m + 1)
    OBVIOUS
  <2>1. PICK f \in [0 .. m -> D] : Runs(f, m)
    BY <1>2
  <2> DEFINE g == [k \in 0 .. m + 1 |-> IF k <= m THEN f[k] ELSE step[<<f[m], m + 1>>]]
  <2>2. f[m] \in D /\ m + 1 \in 1 .. n
    OBVIOUS
  <2>3. g \in [0 .. m + 1 -> D]
    BY <2>2
  <2>4. \A k \in 1 .. m + 1 : g[k] = step[<<g[k - 1], k>>]
    <3> TAKE k \in 1 .. m + 1
    <3>1. CASE k <= m
      <4>1. k \in 1 .. m /\ k - 1 \in 0 .. m /\ g[k] = f[k] /\ g[k - 1] = f[k - 1]
        BY <3>1
      <4> QED
        BY <4>1, <2>1
    <3>2. CASE k = m + 1
      <4>1. g[k] = step[<<f[m], m + 1>>] /\ g[k - 1] = f[m]
        BY <3>2
      <4> QED
        BY <4>1, <3>2
    <3> QED
      BY <3>1, <3>2
  <2>5. g[0] = d
    BY <2>1
  <2> HIDE DEF g
  <2> QED
    BY <2>3, <2>4, <2>5
<1>3. n \in T
  <2> HIDE DEF T
  <2> QED
    BY <1>1, <1>2, SetInduction
<1> QED
  BY <1>3 DEF Iterates

-----------------------------------------------------------------------------
(* Taking lines out of a file *)

\* The loop of Without, place by place.
Filters(g, f, S) ==
  /\ g \in [0 .. Len(f) -> Seq(Line)] /\ g[0] = <<>>
  /\ \A k \in 1 .. Len(f) : g[k] = IF f[k] \in S THEN g[k - 1] ELSE Append(g[k - 1], f[k])
  /\ Without(f, S) = g[Len(f)]

LEMMA WithoutRun ==
  ASSUME NEW f \in Seq(Line), NEW S
  PROVE  \E g : Filters(g, f, S)
<1> DEFINE n == Len(f)
           step == [x \in Seq(Line) \X (1 .. n) |->
                      IF f[x[2]] \in S THEN x[1] ELSE Append(x[1], f[x[2]])]
           h(g) == [k \in 0 .. Len(f) |->
                      IF k = 0 THEN <<>>
                      ELSE IF f[k] \in S THEN g[k - 1] ELSE Append(g[k - 1], f[k])]
           kept == CHOOSE g : g = h(g)
<1>1. n \in Nat /\ \A k \in 1 .. n : f[k] \in Line
  BY LenProperties, ElementOfSeq
<1>2. step \in [Seq(Line) \X (1 .. n) -> Seq(Line)]
  BY <1>1, AppendProperties
<1>3. PICK g \in [0 .. n -> Seq(Line)] :
        g[0] = <<>> /\ \A k \in 1 .. n : g[k] = step[<<g[k - 1], k>>]
  <2>1. <<>> \in Seq(Line)
    OBVIOUS
  <2>2. \E g \in [0 .. n -> Seq(Line)] : Iterates(g, n, <<>>, step)
    <3> HIDE DEF step, n
    <3> QED
      BY <1>1, <1>2, <2>1, Iteration
  <2> QED
    BY <2>2 DEF Iterates
<1>4. \A k \in 1 .. n :
        g[k] = IF f[k] \in S THEN g[k - 1] ELSE Append(g[k - 1], f[k])
  <2> TAKE k \in 1 .. n
  <2>1. k - 1 \in 0 .. n
    BY <1>1
  <2>2. <<g[k - 1], k>> \in Seq(Line) \X (1 .. n)
    BY <2>1
  <2> QED
    BY <1>3, <2>2
<1>5. g = h(g)
  <2>1. \A k \in 0 .. n :
          g[k] = IF k = 0 THEN <<>>
                 ELSE IF f[k] \in S THEN g[k - 1] ELSE Append(g[k - 1], f[k])
    <3> TAKE k \in 0 .. n
    <3>1. CASE k = 0
      BY <1>3, <3>1
    <3>2. CASE k # 0
      <4>1. k \in 1 .. n
        BY <1>1, <3>2
      <4> QED
        BY <1>4, <3>2, <4>1
    <3> QED
      BY <3>1, <3>2
  <2> QED
    BY <2>1
<1>6. kept = h(kept)
  BY <1>5, Zenon
<1>7. Without(f, S) = kept[Len(f)]
  BY Zenon DEF Without
<1>8. /\ DOMAIN kept = 0 .. n /\ kept[0] = <<>>
      /\ \A k \in 1 .. n :
           kept[k] = IF f[k] \in S THEN kept[k - 1] ELSE Append(kept[k - 1], f[k])
  <2> HIDE DEF kept
  <2>1. /\ DOMAIN kept = 0 .. n
        /\ \A k \in 0 .. n :
             kept[k] = IF k = 0 THEN <<>>
                       ELSE IF f[k] \in S THEN kept[k - 1] ELSE Append(kept[k - 1], f[k])
    BY <1>6
  <2>2. \A k \in 1 .. n :
          kept[k] = IF f[k] \in S THEN kept[k - 1] ELSE Append(kept[k - 1], f[k])
    <3> TAKE k \in 1 .. n
    <3>1. k \in 0 .. n /\ k # 0
      BY <1>1
    <3> QED
      BY <2>1, <3>1
  <2>3. 0 \in 0 .. n
    BY <1>1
  <2> QED
    BY <2>1, <2>2, <2>3
<1>9. kept \in [0 .. n -> Seq(Line)]
  <2> HIDE DEF kept
  <2> DEFINE T == {k \in Nat : k <= n => kept[k] \in Seq(Line)}
  <2>1. 0 \in T
    <3>1. kept[0] \in Seq(Line)
      <4>1. <<>> \in Seq(Line)
        OBVIOUS
      <4> QED
        BY <1>8, <4>1
    <3> QED
      BY <3>1
  <2>2. ASSUME NEW k \in Nat, k \in T PROVE k + 1 \in T
    <3> SUFFICES ASSUME k + 1 <= n PROVE kept[k + 1] \in Seq(Line)
      OBVIOUS
    <3>1. k + 1 \in 1 .. n /\ (k + 1) - 1 = k /\ kept[k] \in Seq(Line)
      BY <1>1, <2>2
    <3>2. /\ kept[k + 1] = IF f[k + 1] \in S THEN kept[k] ELSE Append(kept[k], f[k + 1])
          /\ f[k + 1] \in Line
      BY <1>1, <1>8, <3>1
    <3> QED
      BY <3>1, <3>2, AppendProperties
  <2>3. \A k \in Nat : k \in T
    <3> HIDE DEF T
    <3> QED
      BY <2>1, <2>2, SetInduction
  <2>4. \A k \in 0 .. n : kept[k] \in Seq(Line)
    BY <1>1, <2>3
  <2> QED
    BY <1>6, <1>8, <2>4
<1> QED
  <2> HIDE DEF kept
  <2> QED
    BY <1>7, <1>8, <1>9 DEF Filters

LEMMA WithoutType ==
  ASSUME NEW f \in Seq(Line), NEW S PROVE Without(f, S) \in Seq(Line)
<1>1. PICK g : Filters(g, f, S)
  BY WithoutRun
<1>2. Len(f) \in 0 .. Len(f)
  BY LenProperties
<1> QED
  BY <1>1, <1>2 DEF Filters

\* Of no line nothing is left, and of one line itself or nothing.
LEMMA WithoutFew ==
  ASSUME NEW S
  PROVE  /\ Without(<<>>, S) = <<>>
         /\ \A x \in Line : Without(<<x>>, S) = IF x \in S THEN <<>> ELSE <<x>>
<1>1. Without(<<>>, S) = <<>>
  <2>1. <<>> \in Seq(Line) /\ Len(<<>>) = 0
    OBVIOUS
  <2>2. PICK g : Filters(g, <<>>, S)
    BY <2>1, WithoutRun
  <2> QED
    BY <2>1, <2>2 DEF Filters
<1>2. ASSUME NEW x \in Line PROVE Without(<<x>>, S) = IF x \in S THEN <<>> ELSE <<x>>
  <2> DEFINE f == <<x>>
  <2>1. f \in Seq(Line) /\ Len(f) = 1 /\ f[1] = x /\ 1 \in 1 .. 1 /\ 1 - 1 = 0
    OBVIOUS
  <2> HIDE DEF f
  <2>2. PICK g : Filters(g, f, S)
    BY <2>1, WithoutRun
  <2>3. g[1] = IF f[1] \in S THEN g[1 - 1] ELSE Append(g[1 - 1], f[1])
    BY <2>1, <2>2 DEF Filters
  <2>4. g[0] = <<>> /\ Without(f, S) = g[1]
    BY <2>1, <2>2 DEF Filters
  <2>5. Append(<<>>, x) = <<x>>
    OBVIOUS
  <2>6. Without(f, S) = IF x \in S THEN <<>> ELSE <<x>>
    BY <2>1, <2>3, <2>4, <2>5
  <2> QED
    BY <2>6 DEF f
<1> QED
  BY <1>1, <1>2

\* Files laid one behind the other lose their lines one by one.
LEMMA WithoutJoined ==
  ASSUME NEW a \in Seq(Line), NEW b \in Seq(Line), NEW S
  PROVE  Without(a \o b, S) = Without(a, S) \o Without(b, S)
<1> DEFINE f == a \o b
<1>1. /\ f \in Seq(Line) /\ Len(f) = Len(a) + Len(b)
      /\ Len(a) \in Nat /\ Len(b) \in Nat
      /\ \A k \in 1 .. Len(a) : f[k] = a[k]
      /\ \A k \in 1 .. Len(b) : f[Len(a) + k] = b[k]
  <2>1. \A k \in 1 .. Len(a) + Len(b) : f[k] = IF k <= Len(a) THEN a[k] ELSE b[k - Len(a)]
    BY ConcatProperties
  <2>2. f \in Seq(Line) /\ Len(f) = Len(a) + Len(b) /\ Len(a) \in Nat /\ Len(b) \in Nat
    BY ConcatProperties, LenProperties
  <2>3. ASSUME NEW k \in 1 .. Len(a) PROVE f[k] = a[k]
    <3>1. k \in 1 .. Len(a) + Len(b) /\ k <= Len(a)
      BY <2>2
    <3> QED
      BY <2>1, <3>1
  <2>4. ASSUME NEW k \in 1 .. Len(b) PROVE f[Len(a) + k] = b[k]
    <3>1. /\ Len(a) + k \in 1 .. Len(a) + Len(b) /\ ~(Len(a) + k <= Len(a))
          /\ (Len(a) + k) - Len(a) = k
      BY <2>2
    <3> QED
      BY <2>1, <3>1
  <2> QED
    BY <2>2, <2>3, <2>4
<1> HIDE DEF f
<1>2. PICK g : Filters(g, f, S)
  BY <1>1, WithoutRun
<1>3. PICK ga : Filters(ga, a, S)
  BY WithoutRun
<1>4. PICK gb : Filters(gb, b, S)
  BY WithoutRun
<1> DEFINE start == ga[Len(a)]
           Behind(k) == g[Len(a) + k] = start \o gb[k]
           T == {k \in Nat : k <= Len(a) => g[k] = ga[k]}
           U == {k \in Nat : k <= Len(b) => Behind(k)}
<1> HIDE DEF Behind, start
<1>5. \A k \in Nat : k \in T
  <2>1. 0 \in T
    BY <1>2, <1>3 DEF Filters
  <2>2. ASSUME NEW k \in Nat, k \in T PROVE k + 1 \in T
    <3> SUFFICES ASSUME k + 1 <= Len(a) PROVE g[k + 1] = ga[k + 1]
      OBVIOUS
    <3>1. /\ k + 1 \in 1 .. Len(a) /\ k + 1 \in 1 .. Len(f) /\ (k + 1) - 1 = k
          /\ k <= Len(a)
      BY <1>1
    <3>4. g[k] = ga[k] /\ f[k + 1] = a[k + 1]
      BY <1>1, <2>2, <3>1
    <3>2. g[k + 1] = IF f[k + 1] \in S THEN g[k] ELSE Append(g[k], f[k + 1])
      BY <1>2, <3>1 DEF Filters
    <3>3. ga[k + 1] = IF a[k + 1] \in S THEN ga[k] ELSE Append(ga[k], a[k + 1])
      BY <1>3, <3>1 DEF Filters
    <3> QED
      BY <3>2, <3>3, <3>4
  <2> HIDE DEF T
  <2> QED
    BY <2>1, <2>2, SetInduction
<1>6. g[Len(a)] = start /\ start \in Seq(Line) /\ start = ga[Len(a)]
  <2>1. Len(a) \in T /\ Len(a) \in 0 .. Len(a)
    BY <1>1, <1>5
  <2> QED
    BY SMTT(30), <1>3, <2>1 DEF Filters, start
<1>7. \A k \in Nat : k \in U
  <2>1. 0 \in U
    <3>1. Len(a) + 0 = Len(a) /\ gb[0] = <<>> /\ start \o <<>> = start
      BY <1>1, <1>4, <1>6, ConcatEmptySeq DEF Filters
    <3>2. Behind(0)
      BY <1>6, <3>1 DEF Behind
    <3> QED
      BY <3>2
  <2>2. ASSUME NEW k \in Nat, k \in U PROVE k + 1 \in U
    <3> SUFFICES ASSUME k + 1 <= Len(b)
                 PROVE  Behind(k + 1)
      OBVIOUS
    <3>1. /\ k + 1 \in 1 .. Len(b) /\ (k + 1) - 1 = k /\ k \in 0 .. Len(b)
          /\ Len(a) + (k + 1) \in 1 .. Len(f)
          /\ (Len(a) + (k + 1)) - 1 = Len(a) + k /\ k <= Len(b)
      BY <1>1
    <3>7. g[Len(a) + k] = start \o gb[k]
      BY <2>2, <3>1 DEF Behind
    <3>2. f[Len(a) + (k + 1)] = b[k + 1] /\ b[k + 1] \in Line
      BY <1>1, <3>1, ElementOfSeq
    <3>3. g[Len(a) + (k + 1)] =
            IF b[k + 1] \in S THEN g[Len(a) + k] ELSE Append(g[Len(a) + k], b[k + 1])
      BY <1>2, <3>1, <3>2 DEF Filters
    <3>4. gb[k + 1] = IF b[k + 1] \in S THEN gb[k] ELSE Append(gb[k], b[k + 1])
      BY <1>4, <3>1 DEF Filters
    <3>5. gb[k] \in Seq(Line)
      BY <1>4, <3>1 DEF Filters
    <3>6. Append(start \o gb[k], b[k + 1]) = start \o Append(gb[k], b[k + 1])
      <4> DEFINE x == b[k + 1]
                 y == gb[k]
      <4>1. start \in Seq(Line) /\ y \in Seq(Line) /\ x \in Line /\ <<x>> \in Seq(Line)
            /\ start \o y \in Seq(Line)
        BY <1>6, <3>2, <3>5, ConcatProperties
      <4> HIDE DEF x, y
      <4>2. Append(start \o y, x) = (start \o y) \o <<x>> /\ Append(y, x) = y \o <<x>>
        BY <4>1, AppendIsConcat
      <4>3. (start \o y) \o <<x>> = start \o (y \o <<x>>)
        BY SMTT(30), <4>1, ConcatAssociative
      <4>4. Append(start \o y, x) = start \o Append(y, x)
        BY <4>2, <4>3
      <4> QED
        BY <4>4 DEF x, y
    <3> QED
      BY <3>1, <3>3, <3>4, <3>6, <3>7 DEF Behind
  <2> HIDE DEF U
  <2> QED
    BY <2>1, <2>2, SetInduction
<1>8. Behind(Len(b))
  <2>1. Len(b) \in U /\ Len(b) <= Len(b)
    BY <1>1, <1>7
  <2> QED
    BY <2>1
<1> QED
  BY <1>1, <1>2, <1>3, <1>4, <1>6, <1>8 DEF Filters, f, Behind

LEMMA WithoutAppend ==
  ASSUME NEW f \in Seq(Line), NEW x \in Line, NEW S
  PROVE  Without(Append(f, x), S) = IF x \in S THEN Without(f, S) ELSE Append(Without(f, S), x)
<1> DEFINE one == <<x>>
           left == Without(f, S)
<1>1. one \in Seq(Line) /\ left \in Seq(Line)
  BY WithoutType
<1>2. Append(f, x) = f \o one /\ Append(left, x) = left \o one
  BY <1>1, AppendIsConcat
<1>3. Without(one, S) = IF x \in S THEN <<>> ELSE one
  BY WithoutFew
<1> HIDE DEF one
<1>4. Without(f \o one, S) = left \o Without(one, S)
  BY <1>1, WithoutJoined
<1> HIDE DEF left
<1>5. left \o <<>> = left
  BY <1>1, ConcatEmptySeq
<1>6. Without(Append(f, x), S) = IF x \in S THEN left ELSE Append(left, x)
  BY <1>2, <1>3, <1>4, <1>5
<1> QED
  BY <1>6 DEF left

\* Taking out lines twice is taking out both.
LEMMA WithoutTwice ==
  ASSUME NEW f \in Seq(Line), NEW S, NEW R
  PROVE  Without(Without(f, S), R) = Without(f, S \cup R)
<1>1. PICK g : Filters(g, f, S)
  BY WithoutRun
<1>2. PICK h : Filters(h, f, S \cup R)
  BY WithoutRun
<1>3. Len(f) \in Nat
  BY LenProperties
<1> DEFINE T == {k \in Nat : k <= Len(f) => Without(g[k], R) = h[k]}
<1>4. 0 \in T
  BY <1>1, <1>2, WithoutFew DEF Filters
<1>5. ASSUME NEW k \in Nat, k \in T PROVE k + 1 \in T
  <2> SUFFICES ASSUME k + 1 <= Len(f) PROVE Without(g[k + 1], R) = h[k + 1]
    OBVIOUS
  <2>1. /\ k + 1 \in 1 .. Len(f) /\ (k + 1) - 1 = k /\ k \in 0 .. Len(f)
        /\ Without(g[k], R) = h[k]
    BY <1>3, <1>5
  <2>2. f[k + 1] \in Line
    BY <2>1, ElementOfSeq
  <2>3. g[k + 1] = IF f[k + 1] \in S THEN g[k] ELSE Append(g[k], f[k + 1])
    BY <1>1, <2>1 DEF Filters
  <2>4. h[k + 1] = IF f[k + 1] \in S \cup R THEN h[k] ELSE Append(h[k], f[k + 1])
    BY <1>2, <2>1 DEF Filters
  <2>5. g[k] \in Seq(Line) /\ h[k] \in Seq(Line)
    BY <1>1, <1>2, <2>1 DEF Filters
  <2>6. CASE f[k + 1] \in S
    BY <2>1, <2>3, <2>4, <2>6
  <2>7. CASE f[k + 1] \notin S
    <3>1. g[k + 1] = Append(g[k], f[k + 1])
      BY <2>3, <2>7
    <3>2. Without(Append(g[k], f[k + 1]), R) =
            IF f[k + 1] \in R THEN Without(g[k], R) ELSE Append(Without(g[k], R), f[k + 1])
      <4> DEFINE y == g[k]
                 x == f[k + 1]
      <4>1. y \in Seq(Line) /\ x \in Line
        BY <2>2, <2>5
      <4> HIDE DEF x, y, T
      <4>2. Without(Append(y, x), R) = IF x \in R THEN Without(y, R) ELSE Append(Without(y, R), x)
        BY <4>1, WithoutAppend
      <4> QED
        BY <4>2 DEF x, y
    <3> QED
      BY <2>1, <2>4, <2>7, <3>1, <3>2
  <2> QED
    BY <2>6, <2>7
<1>6. \A k \in Nat : k \in T
  <2> HIDE DEF T
  <2> QED
    BY <1>4, <1>5, SetInduction
<1> QED
  BY <1>1, <1>2, <1>3, <1>6 DEF Filters

\* What is taken out depends on the lines of the file only.
LEMMA WithoutSame ==
  ASSUME NEW f \in Seq(Line), NEW S, NEW R, \A x \in Lines(f) : x \in S <=> x \in R
  PROVE  Without(f, S) = Without(f, R)
<1>1. PICK g : Filters(g, f, S)
  BY WithoutRun
<1>2. PICK h : Filters(h, f, R)
  BY WithoutRun
<1>3. Len(f) \in Nat
  BY LenProperties
<1> DEFINE T == {k \in Nat : k <= Len(f) => g[k] = h[k]}
<1>4. 0 \in T
  BY <1>1, <1>2 DEF Filters
<1>5. ASSUME NEW k \in Nat, k \in T PROVE k + 1 \in T
  <2> SUFFICES ASSUME k + 1 <= Len(f) PROVE g[k + 1] = h[k + 1]
    OBVIOUS
  <2>1. /\ k + 1 \in 1 .. Len(f) /\ (k + 1) - 1 = k /\ g[k] = h[k]
    BY <1>3, <1>5
  <2>2. f[k + 1] \in S <=> f[k + 1] \in R
    BY <2>1, LenProperties DEF Lines
  <2>3. g[k + 1] = IF f[k + 1] \in S THEN g[k] ELSE Append(g[k], f[k + 1])
    BY <1>1, <2>1 DEF Filters
  <2>4. h[k + 1] = IF f[k + 1] \in R THEN h[k] ELSE Append(h[k], f[k + 1])
    BY <1>2, <2>1 DEF Filters
  <2> QED
    BY <2>1, <2>2, <2>3, <2>4
<1>6. \A k \in Nat : k \in T
  <2> HIDE DEF T
  <2> QED
    BY <1>4, <1>5, SetInduction
<1> QED
  BY <1>1, <1>2, <1>3, <1>6 DEF Filters

-----------------------------------------------------------------------------
(* What a session leaves of resolv.conf *)

\* The file with what the search did not find in front.
Added(f) == Missing(Searched(f), "ns1") \o Missing(Searched(f), "ns2")
            \o Missing(Searched(f), "suffix") \o f

\* Before and after the name servers are added, and after they are removed.
Resolving ==
  /\ pc \in {"config"} \cup InUp => file = user
  /\ pc \in {"up"} \cup InDown => file = Added(user)
  /\ pc = "off" => file = Without(Added(user), Ours \cup {"blank"})
  /\ pc \in {"up", "off"} \cup InDown => wasThere = Searched(user)

DnsInv ==
  /\ file \in Seq(Line) /\ user \in Seq(Line)
  /\ Undisturbed /\ cfg.setDns /\ user # <<>> => Resolving

\* What is missing is a line of the tunnel, if there is anything to add.
LEMMA MissingType ==
  ASSUME cfg \in ConfigType, NEW f, NEW l \in {"ns1", "ns2", "suffix"}
  PROVE  Missing(Searched(f), l) \in Seq(Line)
<1>1. Searched(f)[l] = 0 => LineOf[l] \in Line
  BY DEF Searched, Found, LineOf, ConfigType, Line
<1>2. Searched(f)[l] = 0 => <<LineOf[l]>> \in Seq(Line)
  BY <1>1
<1>3. <<>> \in Seq(Line)
  OBVIOUS
<1> QED
  BY <1>2, <1>3 DEF Missing

LEMMA AddedType ==
  ASSUME cfg \in ConfigType, NEW f \in Seq(Line)
  PROVE  Added(f) \in Seq(Line)
<1> DEFINE a == Missing(Searched(f), "ns1")
           b == Missing(Searched(f), "ns2")
           c == Missing(Searched(f), "suffix")
<1>1. a \in Seq(Line) /\ b \in Seq(Line) /\ c \in Seq(Line)
  BY MissingType
<1>2. Added(f) = a \o b \o c \o f
  BY DEF Added
<1> HIDE DEF a, b, c
<1>3. a \o b \in Seq(Line)
  BY <1>1, ConcatProperties
<1>4. a \o b \o c \in Seq(Line)
  BY <1>1, <1>3, ConcatProperties
<1>5. a \o b \o c \o f \in Seq(Line)
  BY <1>4, ConcatProperties
<1> QED
  BY <1>2, <1>5

\* A step without a renewal leaves what is to be found in the user's lines.
LEMMA SearchedSame ==
  ASSUME cfg' = cfg, user' = user
  PROVE  Searched(user)' = Searched(user) /\ Added(user)' = Added(user)
<1>1. Searched(user)' = Searched(user)
  BY DEF Searched, Found
<1>2. LineOf' = LineOf
  BY DEF LineOf
<1> QED
  BY <1>1, <1>2 DEF Added, Missing

LEMMA DnsStep ==
  ASSUME TypeInv, DnsInv, Next PROVE DnsInv'
<1> USE DEF routeVars, envVars, dnsVars, envButFaults
<1>0. cfg \in ConfigType /\ file \in Seq(Line) /\ user \in Seq(Line)
  BY DEF TypeInv, RouteType, DnsInv
<1>1. /\ ~Renew => user' = user
      /\ ~Renew /\ ~AddNameservers /\ ~RemoveNameservers => UNCHANGED <<file, wasThere>>
  <2>1. CASE PushRoute \/ (\E wrong \in BOOLEAN : InterfaceComesUp(wrong)) \/ DropWrongRoute
    BY <2>1 DEF PushRoute, InterfaceComesUp, DropWrongRoute
  <2>2. CASE ProtectTunnelRoute \/ ProtectFails \/ AddGatewayRoute
    BY <2>2 DEF ProtectTunnelRoute, ProtectFails, AddGatewayRoute
  <2>3. CASE AddSplitRoute \/ SetDefaultRoute \/ AddNameservers \/ InterfaceDown
    BY <2>3 DEF AddSplitRoute, SetDefaultRoute, AddNameservers, InterfaceDown
  <2>4. CASE RestoreRoutes \/ RemoveNameservers \/ PppGone \/ Cancel
    BY <2>4 DEF RestoreRoutes, RemoveNameservers, PppGone, Cancel
  <2> QED
    BY <2>1, <2>2, <2>3, <2>4 DEF Next
<1>2. AddNameservers /\ file' # file => wasThere' = Searched(file) /\ file' = Added(file)
  BY DEF AddNameservers, Added
<1>3. file' \in Seq(Line) /\ user' \in Seq(Line)
  <2>1. CASE Renew
    <3>1. <<"user">> \in Seq(Line)
      BY DEF Line
    <3> QED
      BY <2>1, <3>1 DEF Renew
  <2>2. CASE AddNameservers
    BY <1>0, <1>1, <1>2, <2>2, AddedType DEF AddNameservers, Renew
  <2>3. CASE RemoveNameservers
    BY <1>0, <2>3, WithoutType DEF RemoveNameservers
  <2> QED
    BY <1>0, <1>1, <2>1, <2>2, <2>3
<1>4. ASSUME Undisturbed', cfg'.setDns, user' # <<>> PROVE Resolving'
  <2>1. /\ Undisturbed /\ faults = 0 /\ faults' = 0 /\ cfg' = cfg
        /\ ~Renew /\ ~Cancel
    BY <1>4, UndisturbedBefore
  <2>2. user' = user /\ user # <<>> /\ cfg.setDns
    BY <1>1, <1>4, <2>1
  <2>3. Resolving
    BY <2>1, <2>2 DEF DnsInv
  <2>4. Searched(user)' = Searched(user) /\ Added(user)' = Added(user)
    BY <2>1, <2>2, SearchedSame
  <2>5. CASE AddNameservers
    <3>1. pc = "dns" /\ pc' = "up" /\ file = user
      BY <2>3, <2>5 DEF AddNameservers, Resolving, InUp
    <3>2. wasThere' = Searched(user) /\ file' = Added(user)
      BY <2>1, <2>2, <2>5, <3>1 DEF AddNameservers, Added
    <3> QED
      BY <2>4, <3>1, <3>2 DEF Resolving, InUp, InDown
  <2>6. CASE RemoveNameservers
    <3>1. /\ pc = "removeDns" /\ pc' = "off" /\ file = Added(user)
          /\ wasThere = Searched(user) /\ wasThere' = wasThere
      BY <2>3, <2>6 DEF RemoveNameservers, Resolving, InDown
    <3>2. file' = Without(file, Ours \cup {"blank"})
      BY <2>1, <2>2, <2>6 DEF RemoveNameservers
    <3>3. Ours' = Ours
      BY <2>1, <3>1 DEF Ours
    <3> QED
      BY <2>4, <3>1, <3>2, <3>3 DEF Resolving, InUp, InDown
  <2>7. CASE ~AddNameservers /\ ~RemoveNameservers
    <3>1. UNCHANGED <<file, wasThere>>
      BY <1>1, <2>1, <2>7
    <3>2. Ours' = Ours
      BY <2>1, <3>1 DEF Ours
    <3>3. /\ pc' \in {"config"} \cup InUp => pc \in {"config"} \cup InUp
          /\ pc' \in {"up"} \cup InDown => pc \in {"up"} \cup InDown
          /\ pc' = "off" => pc = "off"
      <4> USE DEF InUp, InDown
      <4>1. CASE PushRoute \/ (\E wrong \in BOOLEAN : InterfaceComesUp(wrong)) \/ DropWrongRoute
        BY <4>1 DEF PushRoute, InterfaceComesUp, DropWrongRoute
      <4>2. CASE ProtectTunnelRoute \/ ProtectFails \/ AddGatewayRoute
        BY <4>2 DEF ProtectTunnelRoute, ProtectFails, AddGatewayRoute, AfterProtect
      <4>3. CASE AddSplitRoute \/ SetDefaultRoute \/ InterfaceDown
        BY <4>3 DEF AddSplitRoute, SetDefaultRoute, InterfaceDown
      <4>4. CASE RestoreRoutes \/ PppGone
        BY <4>4 DEF RestoreRoutes, PppGone
      <4> QED
        BY <2>1, <2>7, <4>1, <4>2, <4>3, <4>4 DEF Next
    <3> QED
      BY <2>2, <2>3, <2>4, <3>1, <3>2, <3>3 DEF Resolving, InDown
  <2> QED
    BY <2>5, <2>6, <2>7
<1> QED
  BY <1>3, <1>4 DEF DnsInv

\* The line of several domains, or of an empty one, is not recognised afterwards.
Stays == {"searchList", "bareSearch"}

\* What is taken out of the user's lines are those the search overlooked, and of the
\* tunnel's everything but such a line.
LEMMA OursFacts ==
  ASSUME cfg \in ConfigType, wasThere = Searched(user)
  PROVE  /\ \A l \in Lines(user) : l \in Ours \cup {"blank"} <=> l \in Overlooked \cup {"blank"}
         /\ \A l \in {"ns1", "ns2"} : wasThere[l] = 0 => LineOf[l] \in Ours
         /\ wasThere["suffix"] = 0 => LineOf["suffix"] \in Ours \/ cfg.suffix \in Stays
         /\ Stays \cap Ours = {}
<1>1. /\ wasThere["ns1"] = 0 <=> "ns1" \in cfg.servers /\ "ns1" \notin Lines(user)
      /\ wasThere["ns2"] = 0 <=> "ns2" \in cfg.servers /\ "ns2" \notin FirstLine(user)
      /\ wasThere["suffix"] = 0 <=> cfg.suffix # "none" /\ cfg.suffix \notin FirstLine(user)
  BY DEF Searched, Found
<1>2. cfg.suffix \in {"none", "search"} \cup Stays
  BY DEF ConfigType, Stays
<1>3. \A l \in Lines(user) : l \in Ours <=> l \in Overlooked
  BY <1>1, <1>2 DEF Ours, Overlooked, Stays
<1>4. \A l \in {"ns1", "ns2"} : wasThere[l] = 0 => LineOf[l] \in Ours
  BY <1>1 DEF Ours, LineOf
<1>5. wasThere["suffix"] = 0 => LineOf["suffix"] \in Ours \/ cfg.suffix \in Stays
  BY <1>1, <1>2 DEF Ours, LineOf, Stays
<1>6. Stays \cap Ours = {}
  BY DEF Ours, Stays
<1> QED
  BY <1>3, <1>4, <1>5, <1>6

LEMMA Restored ==
  ASSUME cfg \in ConfigType, user \in Seq(Line), wasThere = Searched(user),
         file = Without(Added(user), Ours \cup {"blank"})
  PROVE  LET kept == Without(user, Overlooked \cup {"blank"})
         IN \/ NonBlank(file) = kept
            \/ cfg.suffix \in Stays /\ NonBlank(file) = <<cfg.suffix>> \o kept
<1> DEFINE S == Ours \cup {"blank"}
           a == Missing(wasThere, "ns1")
           b == Missing(wasThere, "ns2")
           c == Missing(wasThere, "suffix")
           kept == Without(user, S)
<1>1. kept = Without(user, Overlooked \cup {"blank"}) /\ kept \in Seq(Line)
  BY OursFacts, WithoutSame, WithoutType
<1>2. NonBlank(file) = Without(Added(user), S)
  <2>1. Added(user) \in Seq(Line)
    BY AddedType
  <2>2. NonBlank(file) = Without(Added(user), S \cup {"blank"})
    <3> HIDE DEF S
    <3>1. file = Without(Added(user), S)
      BY DEF S
    <3> QED
      BY <2>1, <3>1, WithoutTwice DEF NonBlank
  <2>3. S \cup {"blank"} = S
    OBVIOUS
  <2> QED
    BY <2>2, <2>3
<1>3. a \in Seq(Line) /\ b \in Seq(Line) /\ c \in Seq(Line)
  BY MissingType
<1>4. Added(user) = a \o b \o c \o user
  BY DEF Added
<1>5. Without(a, S) = <<>> /\ Without(b, S) = <<>>
  <2>1. \A l \in {"ns1", "ns2"} : wasThere[l] = 0 => LineOf[l] \in S /\ LineOf[l] \in Line
    BY OursFacts DEF LineOf, Line
  <2>2. Without(<<>>, S) = <<>> /\ \A x \in Line \cap S : Without(<<x>>, S) = <<>>
    <3> HIDE DEF S
    <3> QED
      BY WithoutFew
  <2> QED
    BY <2>1, <2>2 DEF Missing
<1>6. \/ Without(c, S) = <<>>
      \/ cfg.suffix \in Stays /\ Without(c, S) = <<cfg.suffix>>
  <2>1. CASE wasThere["suffix"] # 0
    <3>1. c = <<>>
      BY <2>1 DEF Missing
    <3> HIDE DEF c, S
    <3> QED
      BY <3>1, WithoutFew
  <2>2. CASE wasThere["suffix"] = 0
    <3>1. c = <<LineOf["suffix"]>> /\ LineOf["suffix"] = cfg.suffix /\ cfg.suffix \in Line
      BY <2>2 DEF Missing, LineOf, Searched, Found, ConfigType, Line
    <3>2. Without(c, S) = IF cfg.suffix \in S THEN <<>> ELSE <<cfg.suffix>>
      <4> DEFINE x == cfg.suffix
      <4>1. c = <<x>> /\ x \in Line
        BY <3>1
      <4> HIDE DEF c, S, x
      <4>2. Without(<<x>>, S) = IF x \in S THEN <<>> ELSE <<x>>
        BY <4>1, WithoutFew
      <4>3. Without(c, S) = IF x \in S THEN <<>> ELSE <<x>>
        BY <4>1, <4>2
      <4> QED
        BY <4>3 DEF x
    <3>3. cfg.suffix \in S \/ cfg.suffix \in Stays
      BY <2>2, <3>1, OursFacts
    <3> QED
      BY <3>2, <3>3
  <2> QED
    BY <2>1, <2>2
<1> HIDE DEF a, b, c, S
<1>7. Without(Added(user), S) = Without(a, S) \o Without(b, S) \o Without(c, S) \o kept
  <2>1. a \o b \in Seq(Line) /\ Without(a \o b, S) = Without(a, S) \o Without(b, S)
    BY SMTT(30), <1>3, ConcatProperties, WithoutJoined
  <2>2. /\ a \o b \o c \in Seq(Line)
        /\ Without(a \o b \o c, S) = Without(a \o b, S) \o Without(c, S)
    BY <1>3, <2>1, ConcatProperties, WithoutJoined
  <2>3. Without(a \o b \o c \o user, S) = Without(a \o b \o c, S) \o kept
    BY <2>2, WithoutJoined
  <2> QED
    BY <1>4, <2>1, <2>2, <2>3
<1> HIDE DEF kept
<1>8. <<>> \o <<>> = <<>> /\ <<>> \o kept = kept
  BY <1>1, ConcatEmptySeq
<1>9. CASE Without(c, S) = <<>>
  BY <1>1, <1>2, <1>5, <1>7, <1>8, <1>9
<1>10. CASE cfg.suffix \in Stays /\ Without(c, S) = <<cfg.suffix>>
  <2>1. <<>> \o <<cfg.suffix>> = <<cfg.suffix>>
    <3>1. cfg.suffix \in Line
      BY <1>10 DEF Stays, Line
    <3> QED
      BY <3>1
  <2> QED
    BY <1>1, <1>2, <1>5, <1>7, <1>8, <1>10, <2>1
<1> QED
  BY <1>6, <1>9, <1>10

-----------------------------------------------------------------------------
(* The theorems *)

IInv ==
  /\ TypeInv /\ Saved /\ AssignedInv /\ UnprotectedInv /\ GatewayInv /\ ForeignInv
  /\ TableInv /\ HalfInv /\ RoutesInv /\ DnsInv

LEMMA InitInv == Init => IInv
<1> SUFFICES ASSUME Init PROVE IInv
  OBVIOUS
<1>1. PICK c \in Cases : cfg = c.cfg /\ table = c.table /\ file = c.file
  BY DEF Init
<1>2. /\ cfg \in ConfigType /\ table \in SUBSET Route
      /\ \A r \in table : r.dev # "ppp" /\ r.via # "assigned"
  BY <1>1, CasesAssumption
<1>3. TypeInv
  <2>1. split \in Seq(Net) /\ Len(split) <= MaxSplit
    BY CasesAssumption DEF Init
  <2>2. wasThere \in [{"ns1", "ns2", "suffix"} -> {-1, 0, 1}]
    BY DEF Init
  <2>3. RouteType
    <3>1. /\ pc = "config" /\ i = 1 /\ added \in BOOLEAN
          /\ def = NoRoute /\ gtw = NoRoute /\ ppp = NoRoute
      BY Zenon DEF Init
    <3> QED
      BY <1>2, <2>1, <3>1 DEF RouteType, Place
  <2>4. EnvType
    <3>1. /\ pppUp \in BOOLEAN /\ faults = 0 /\ renewals = 0 /\ cancelled \in BOOLEAN
          /\ before = table
      BY Zenon DEF Init
    <3> QED
      BY <1>2, <2>2, <3>1, CasesAssumption DEF EnvType
  <2> QED
    BY <2>3, <2>4 DEF TypeInv
<1>4. Saved /\ AssignedInv /\ UnprotectedInv
  BY <1>2 DEF Init, Saved, AssignedInv, UnprotectedInv, Bare
<1>5. GatewayInv
  BY <1>2 DEF Init, GatewayInv, Wrong
<1>6. ForeignInv
  BY <1>2 DEF Init, ForeignInv
<1>7. TableInv
  BY <1>1, <1>2, CasesAssumption DEF Init, TableInv
<1>8. HalfInv
  BY DEF Init, HalfInv
<1>9. RoutesInv
  BY <1>2 DEF Init, RoutesInv, Others, Expected, SavedBefore, DefaultTaken
<1>10. DnsInv
  BY <1>1, CasesAssumption DEF Init, DnsInv, Resolving, InDown
<1> QED
  BY <1>3, <1>4, <1>5, <1>6, <1>7, <1>8, <1>9, <1>10 DEF IInv

LEMMA StutterInv == IInv /\ UNCHANGED vars => IInv'
<1> SUFFICES ASSUME IInv, UNCHANGED vars PROVE IInv'
  OBVIOUS
<1> USE DEF IInv, vars, routeVars, dnsVars, envVars
<1>1. TypeInv' /\ Saved'
  BY DEF TypeInv, RouteType, EnvType, Saved
<1>7. AssignedInv' /\ UnprotectedInv'
  BY DEF AssignedInv, UnprotectedInv, Bare, Pushed
<1>2. GatewayInv' /\ ForeignInv'
  BY DEF GatewayInv, ForeignInv, Wrong, Right
<1>3. TableInv' /\ HalfInv'
  BY DEF TableInv, HalfInv, Plain, OnePerNet
<1>4. Expected' = Expected /\ Others(table') = Others(table)
  BY DEF Expected, Others, Protected, Kept, Less, Replaced, HostRouteWasThere
<1>5. RoutesInv'
  BY <1>4 DEF RoutesInv, Undisturbed, SavedBefore, DefaultTaken, Replaced, Others
<1>6. DnsInv'
  <2>1. Searched(user)' = Searched(user) /\ Added(user)' = Added(user)
    BY SearchedSame
  <2>2. Ours' = Ours
    BY DEF Ours
  <2> QED
    BY <2>1, <2>2 DEF DnsInv, Undisturbed, Resolving
<1> QED
  BY <1>1, <1>2, <1>3, <1>5, <1>6, <1>7

\* The parts of IInv hold in every reachable state.
THEOREM Invariant == Spec => []IInv
<1>1. IInv /\ [Next]_vars => IInv'
  BY RouteTypeStep, SavedStep, EnvTypeStep, AssignedStep, UnprotectedStep, GatewayStep, ForeignStep, TableInvStep,
     HalfStep, RoutesStep, DnsStep, StutterInv
  DEF IInv, TypeInv
<1> QED
  BY <1>1, InitInv, PTL DEF Spec

\* Routes that are saved are routes, the array of split routes never overflows, and no
\* more calls fail than may.
THEOREM TypeCorrect == Spec => []TypeOK
<1>1. IInv => TypeOK
  BY DEF IInv, TypeInv, RouteType, EnvType, TypeOK
<1> QED
  BY <1>1, Invariant, PTL

\* While no call has failed, packets to the gateway go around the tunnel from the
\* moment routes through it are set until it goes down: the host route to the gateway
\* is as long as a route can be, and no other of that length goes through the tunnel.
\* When nothing was protected, nothing but split routes leads into the tunnel, and there
\* was no default route before, unless one has come by a renewal.
THEOREM GatewayRoute == Spec => []GatewayOutsideTunnel
<1>1. ASSUME IInv, pc \in {"addSplit", "default1", "default2", "dns", "up"},
             gtw # NoRoute, faults = 0, NEW r \in Carriers("gateway")
      PROVE  r.dev # "ppp"
  <2> USE DEF IInv, TypeInv, RouteType, GatewayInv
  <2>1. ~Wrong(table) /\ Right(table)
    BY <1>1
  <2>2. r \in table /\ r \in Route /\ \A q \in table : "gateway" \in Hosts[q.net] =>
                                            Length[q.net] <= Length[r.net]
    BY <1>1 DEF Carriers, Best
  <2>3. PICK q \in table : q.net = "gw" /\ q.dev # "ppp"
    BY <2>1 DEF Right
  <2>4. Length[r.net] >= 32
    BY <2>2, <2>3 DEF Hosts, Length, Route, Net
  <2>5. r.net = "gw"
    BY <2>2, <2>4 DEF Route, Net, Length
  <2> QED
    BY <2>1, <2>2, <2>5 DEF Wrong, Route, Dev
<1>3. ASSUME IInv, pc \in {"addSplit", "default1", "default2", "dns", "up"},
             gtw = NoRoute, faults = 0, NEW r \in Carriers("gateway"), r.dev = "ppp"
      PROVE  /\ cfg.setRoutes /\ r.net \in Pushed
             /\ Undisturbed => \A q \in before : q.net # "all"
  <2>1. r \in table /\ Bare
    BY <1>3 DEF Carriers, Best, Bare
  <2>2. cfg.setRoutes /\ r.net \in Pushed
    BY <1>3, <2>1 DEF IInv, UnprotectedInv
  <2>3. ASSUME Undisturbed PROVE \A q \in before : q.net # "all"
    <3>1. Others(table) = before
      BY <1>3, <2>3 DEF IInv, RoutesInv, Expected
    <3>2. \A q \in table : q.net # "all"
      BY <1>3, <2>1, <2>2, <2>3 DEF IInv, UnprotectedInv, Undisturbed
    <3> QED
      BY <3>1, <3>2 DEF Others
  <2> QED
    BY <2>2, <2>3
<1>2. IInv => GatewayOutsideTunnel
  BY <1>1, <1>3 DEF GatewayOutsideTunnel
<1> QED
  BY <1>2, Invariant, PTL

\* On Linux no step takes away a route of somebody else but the default route, or a
\* host route to the gateway whose addition has failed.
THEOREM OthersKeepRoutes == Spec => ForeignRoutesKept
<1> DEFINE P == cfg.os = "linux" =>
       \A r \in table \ table' : r \in before =>
         r.net = "all" \/ (r = gtw /\ faults > 0)
<1>1. IInv /\ [Next]_vars => [P]_vars
  <2>1. ASSUME IInv, Next PROVE P
    BY <2>1, RemovedRoutes DEF IInv
  <2>2. UNCHANGED vars => [P]_vars
    OBVIOUS
  <2> QED
    BY <2>1, <2>2
<1> QED
  BY <1>1, Invariant, PTL DEF Spec, ForeignRoutesKept

\* With half_internet_routes a tunnel that is up keeps everything but the gateway when
\* DHCP renews the default route: each half has the tunnel's route, which no renewal
\* takes away, and no other route to a half is as long.
THEOREM HalfRoutes == Spec => []HalfRoutesSurviveRenewal
<1>1. ASSUME IInv, Plain, pc = "up", pppUp, gtw # NoRoute, NEW h \in {"web", "far"},
             NEW r \in Carriers(h)
      PROVE  r.dev = "ppp"
  <2> USE DEF IInv, TypeInv, RouteType
  <2>1. PppRoute("low") \in table /\ PppRoute("high") \in table
    BY <1>1 DEF HalfInv
  <2>2. PppRoute("low").net = "low" /\ PppRoute("high").net = "high"
    BY PppRouteFields DEF Net, Length
  <2>3. /\ r \in table /\ r \in Route /\ h \in Hosts[r.net]
        /\ \A q \in table : h \in Hosts[q.net] => Length[q.net] <= Length[r.net]
    BY <1>1 DEF Carriers, Best
  <2>4. Length[r.net] >= 1
    BY <2>1, <2>2, <2>3 DEF Hosts, Host, Length, Route, Net
  <2>5. r.net \in {"low", "high"}
    BY <2>3, <2>4 DEF Hosts, Host, Length, Route, Net
  <2>6. r \notin before
    BY <1>1, <2>5 DEF Plain
  <2>8. r.dev # "ppp" => r \in before \/ r.net \in {"gw", "all"}
    <3>1. split = <<>>
      BY <1>1 DEF HalfInv, Plain
    <3> QED
      BY <1>1, <2>3, <3>1 DEF TableInv
  <2> QED
    BY <2>5, <2>6, <2>8
<1>2. IInv => HalfRoutesSurviveRenewal
  BY <1>1 DEF HalfRoutesSurviveRenewal, Plain
<1> QED
  BY <1>2, Invariant, PTL

\* After an undisturbed session the table is what it was, unless a host route to the
\* gateway had been there: then Linux lacks the default route that was replaced, and
\* macOS the host route; routes by an address that is not the interface's stay on macOS.
THEOREM TableRestored == Spec => []RoutesRestored
<1>1. ASSUME IInv, Ended, Undisturbed
      PROVE  LET stale == {r \in table : /\ cfg.os = "mac" /\ cfg.assigned = "other"
                                         /\ r.via = "assigned"}
             IN \/ table \ stale = before
                \/ /\ HostRouteWasThere /\ cfg.setRoutes
                   /\ table \ stale = IF cfg.os = "linux" THEN before \ {def}
                                      ELSE {r \in before : r.net # "gw"}
  <2> DEFINE rest == table \ {r \in table : /\ cfg.os = "mac" /\ cfg.assigned = "other"
                                            /\ r.via = "assigned"}
  <2> USE DEF IInv, TypeInv, RouteType
  <2>1. Others(table) = Expected /\ SavedBefore
    BY <1>1 DEF RoutesInv
  <2>2. rest = Expected
    <3>1. \A r \in table : r.dev # "ppp"
      BY <1>1 DEF Ended, TableInv
    <3>2. \A r \in table : r.via = "assigned" => cfg.os = "mac" /\ cfg.assigned = "other"
      BY <1>1, <3>1 DEF AssignedInv, ConfigType
    <3> QED
      BY <2>1, <3>1, <3>2 DEF Others
  <2> HIDE DEF rest
  <2> SUFFICES \/ rest = before
               \/ /\ HostRouteWasThere /\ cfg.setRoutes
                  /\ rest = IF cfg.os = "linux" THEN before \ {def}
                            ELSE {r \in before : r.net # "gw"}
    BY DEF rest
  <2>3. pc = "off" /\ cfg.os \in {"linux", "mac"}
    BY <1>1 DEF Ended, ConfigType
  <2>4. CASE gtw = NoRoute
    BY <2>2, <2>4 DEF Expected
  <2>5. CASE gtw # NoRoute /\ added
    <3>1. rest = Kept
      BY <2>2, <2>3, <2>5 DEF Expected
    <3>2. CASE cfg.os = "linux" \/ ~HostRouteWasThere
      BY <3>1, <3>2 DEF Kept, HostRouteWasThere
    <3>3. CASE cfg.os = "mac" /\ HostRouteWasThere
      BY <2>1, <2>5, <3>1, <3>3 DEF Kept, SavedBefore
    <3> QED
      BY <2>3, <3>2, <3>3
  <2>6. CASE gtw # NoRoute /\ ~added
    <3>1. cfg.os = "linux" /\ gtw \in before /\ gtw.net = "gw" /\ cfg.setRoutes
      <4>1. gtw.net = "gw"
        BY <1>1, <2>6 DEF Saved
      <4> QED
        BY <2>1, <2>3, <2>6, <4>1 DEF SavedBefore
    <3>2. rest = Less(before)
      BY <2>2, <2>3, <2>6 DEF Expected, Kept
    <3> QED
      BY <3>1, <3>2 DEF Less, HostRouteWasThere
  <2> QED
    BY <2>4, <2>5, <2>6
<1>2. IInv => RoutesRestored
  BY <1>1 DEF RoutesRestored
<1> QED
  BY <1>2, Invariant, PTL

\* After an undisturbed session resolv.conf has the user's lines without the blank ones,
\* but for the line of several domains, or of an empty one, which stays behind, and for a
\* server or a domain that was there after the first line, which is taken away.
THEOREM FileRestored == Spec => []ResolvRestored
<1>1. ASSUME IInv, Ended, Undisturbed, cfg.setDns, user # <<>>
      PROVE  LET kept == Without(user, Overlooked \cup {"blank"})
             IN \/ NonBlank(file) = kept
                \/ cfg.suffix \in Stays /\ NonBlank(file) = <<cfg.suffix>> \o kept
  <2>1. cfg \in ConfigType /\ user \in Seq(Line) /\ Resolving
    BY <1>1 DEF IInv, TypeInv, RouteType, DnsInv
  <2>2. file = Without(Added(user), Ours \cup {"blank"}) /\ wasThere = Searched(user)
    BY <1>1, <2>1 DEF Resolving, Ended
  <2> QED
    BY <2>1, <2>2, Restored
<1>2. IInv => ResolvRestored
  BY <1>1 DEF ResolvRestored, Stays
<1> QED
  BY <1>2, Invariant, PTL
=============================================================================
