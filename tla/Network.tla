------------------------------ MODULE Network ------------------------------
(***************************************************************************)
(* What openfortivpn does to the routing table and to /etc/resolv.conf:    *)
(* ipv4.c, called by on_ppp_if_up in the thread if_config and by           *)
(* on_ppp_if_down in the main thread (tunnel.c).                           *)
(*                                                                         *)
(* A network is a name with the length of its mask and the destinations in *)
(* it; a route is a network with a router and a device.  Linux keeps       *)
(* several routes to one network and reports errors; on macOS the route    *)
(* command keeps one per network and its failures are not seen.  A line of *)
(* resolv.conf is the name server or the search list of the tunnel,        *)
(* another line, or a blank one.                                           *)
(*                                                                         *)
(* The environment: pppd may have made a route of its own, the interface   *)
(* may go away, a DHCP client renews the default route and rewrites        *)
(* resolv.conf, calls fail, if_config is cancelled.                        *)
(***************************************************************************)
EXTENDS Integers, Sequences, FiniteSets

CONSTANTS Cases,      \* configurations and systems to start from, see Init
          MaxSplit,   \* MAX_SPLIT_ROUTES
          MaxFaults,  \* bound: calls that fail
          MaxRenewals \* bound: renewals of the DHCP client

\* The gateway's own network lies inside the lower half.
Length == [all |-> 0, low |-> 1, high |-> 1, around |-> 16, corp |-> 24, gw |-> 32]
Net == DOMAIN Length
Host == {"gateway", "server", "web", "far"}
Hosts == [all |-> Host, low |-> {"gateway", "server", "web"}, high |-> {"far"},
          around |-> {"gateway"}, corp |-> {"server"}, gw |-> {"gateway"}]
Via == {"router1", "router2", "assigned", "link"}
Dev == {"eth", "wlan", "ppp"}
Outside == Dev \ {"ppp"}
Route == [net : Net, via : Via, dev : Dev]
PppRoute(n) == [net |-> n, via |-> "link", dev |-> "ppp"]
NoRoute == [net |-> "none"]

Line == {"ns1", "ns2", "search", "searchList", "bareSearch", "user", "blank"}

ConfigType ==
  [os : {"linux", "mac"},
   half : BOOLEAN,                              \* half_internet_routes
   setRoutes : BOOLEAN, setDns : BOOLEAN,
   push : Seq(Net),                             \* split routes of the gateway
   assigned : {"own", "other"},                 \* assigned-addr: the interface's?
   servers : SUBSET {"ns1", "ns2"},
   suffix : {"none", "search", "searchList", "bareSearch"}]
                                                \* no, one, several, an empty domain

\* No network has two routes.
OnePerNet(t) == \A r, q \in t : r.net = q.net => r = q

ASSUME CasesAssumption ==
  /\ \A c \in Cases : /\ c.cfg \in ConfigType
                      /\ c.table \subseteq {r \in Route : r.dev # "ppp" /\ r.via # "assigned"}
                      /\ c.cfg.os = "mac" => OnePerNet(c.table)
                      /\ c.file \in Seq(Line)
  /\ MaxSplit \in Nat /\ MaxFaults \in Nat /\ MaxRenewals \in Nat

VARIABLES
  cfg,
  pc, i,            \* place of if_config or of the main thread, index of a route
  table,            \* routes of the system
  def, gtw, ppp,    \* def_rt, gtw_rt and ppp_rt
  added,            \* route_to_vpn_is_added
  split,            \* split_rt
  file,             \* lines of resolv.conf
  wasThere,         \* ns1_was_there, ns2_was_there, dns_suffix_was_there
  pppUp,            \* the interface exists
  faults, renewals, cancelled,
  before, user      \* table and file as others would have them without the VPN

routeVars == <<table, def, gtw, ppp, added, split, i>>
dnsVars == <<file, wasThere>>
envVars == <<pppUp, faults, renewals, cancelled, before, user>>
vars == <<cfg, pc, routeVars, dnsVars, envVars>>

InUp == {"drop", "protect", "addGateway", "addSplit", "default1", "default2", "dns"}
InDown == {"restore1", "restore2", "restore3", "removeDns"}
Place == {"config", "up", "off"} \cup InUp \cup InDown

TypeOK ==
  /\ cfg \in ConfigType /\ pc \in Place /\ i \in Nat \ {0}
  /\ table \subseteq Route
  /\ def \in Route \cup {NoRoute} /\ gtw \in Route \cup {NoRoute}
  /\ ppp \in Route \cup {NoRoute}
  /\ added \in BOOLEAN /\ split \in Seq(Net) /\ Len(split) <= MaxSplit
  /\ wasThere \in [{"ns1", "ns2", "suffix"} -> {-1, 0, 1}]
  /\ pppUp \in BOOLEAN /\ faults \in 0 .. MaxFaults
  /\ renewals \in 0 .. MaxRenewals /\ cancelled \in BOOLEAN
  /\ before \subseteq Route

Init ==
  /\ \E c \in Cases : cfg = c.cfg /\ table = c.table /\ file = c.file
  /\ pc = "config" /\ i = 1
  /\ def = NoRoute /\ gtw = NoRoute /\ ppp = NoRoute /\ added = FALSE
  /\ split = <<>>
  /\ wasThere = [l \in {"ns1", "ns2", "suffix"} |-> 0]
  /\ pppUp = FALSE /\ faults = 0 /\ renewals = 0 /\ cancelled = FALSE
  /\ before = table /\ user = file

Goto(p) == pc' = p

-----------------------------------------------------------------------------
(* The routing table: ipv4_get_route, ipv4_set_route, ipv4_del_route *)

\* The candidates for a destination: routes through an accepted device to
\* networks it lies in that are not smaller than itself; of these, the smallest.
Candidates(t, n, devs) ==
  {r \in t : r.dev \in devs /\ Hosts[n] \subseteq Hosts[r.net]
                            /\ Length[r.net] <= Length[n]}

Best(routes) == {r \in routes : \A q \in routes : Length[q.net] <= Length[r.net]}

\* The first candidate in the order of the table replaces the filter of devices by
\* its own, so that those through other devices are passed over.
GetRoute(t, n, devs) ==
  UNION {Best({r \in Candidates(t, n, devs) : r.dev = d}) : d \in devs}

\* Linux says EEXIST to a route it has; macOS refuses a second one silently.
Exists(t, r) == cfg.os = "linux" /\ r \in t

SetRoute(t, r) ==
  IF \/ r.dev = "ppp" /\ ~pppUp
     \/ cfg.os = "mac" /\ \E q \in t : q.net = r.net
  THEN t ELSE t \cup {r}

DelRoute(t, r) ==
  IF cfg.os = "linux" THEN t \ {r} ELSE {q \in t : q.net # r.net}

\* A call on the table, which may fail and then changes nothing.
Call(t) ==
  \/ table' = t /\ faults' = faults
  \/ faults < MaxFaults /\ table' = table /\ faults' = faults + 1

envButFaults == <<pppUp, renewals, cancelled, before, user>>

-----------------------------------------------------------------------------
(* on_ppp_if_up *)

\* parse_xml_config and ipv4_add_split_vpn_route, then pppd, which may make a
\* host route to the gateway through the interface.
PushRoute ==
  /\ pc = "config" /\ i <= Len(cfg.push)
  /\ split' = IF Len(split) = MaxSplit THEN split ELSE Append(split, cfg.push[i])
  /\ i' = i + 1
  /\ UNCHANGED <<cfg, pc, table, def, gtw, ppp, added, dnsVars, envVars>>

InterfaceComesUp(wrong) ==
  /\ pc = "config" /\ i > Len(cfg.push)
  /\ pppUp' = TRUE /\ i' = 1
  /\ table' = IF wrong /\ ~\E r \in table : cfg.os = "mac" /\ r.net = "gw"
              THEN table \cup {PppRoute("gw")} ELSE table
  /\ Goto("drop")
  /\ UNCHANGED <<cfg, def, gtw, ppp, added, split, dnsVars, faults, renewals,
                 cancelled, before, user>>

\* ipv4_drop_wrong_route.
DropWrongRoute ==
  /\ pc = "drop"
  /\ Goto(IF cfg.setRoutes THEN "protect" ELSE "dns")
  /\ LET found == GetRoute(table, "gw", {"ppp"})
     IN IF PppRoute("gw") \in found THEN Call(DelRoute(table, PppRoute("gw")))
                                    ELSE UNCHANGED <<table, faults>>
  /\ UNCHANGED <<cfg, def, gtw, ppp, added, split, i, dnsVars, envButFaults>>

\* Where ipv4_set_tunnel_routes goes on after protecting the gateway.
AfterProtect(worked) ==
  Goto(IF split # <<>> THEN "addSplit" ELSE IF worked THEN "default1" ELSE "dns")

\* ipv4_protect_tunnel_route, up to the addition: the default route is saved and
\* the route the gateway is reached by becomes a host route.
ProtectTunnelRoute ==
  /\ pc = "protect"
  /\ \E d \in GetRoute(table, "all", Outside), g \in GetRoute(table, "gw", Outside) :
       def' = d /\ gtw' = [g EXCEPT !.net = "gw"]
  /\ Goto("addGateway")
  /\ UNCHANGED <<cfg, table, ppp, added, split, i, dnsVars, envVars>>

\* Nothing is protected without a default route outside of the tunnel, or when memory
\* or the table cannot be had, for def_rt or for gtw_rt, which may have its address by
\* then; it is no reason not to set split routes.
ProtectFails ==
  /\ pc = "protect"
  /\ \/ GetRoute(table, "all", Outside) = {} /\ UNCHANGED <<gtw, faults>>
     \/ /\ faults < MaxFaults /\ faults' = faults + 1
        /\ \/ gtw' = gtw
           \/ \E g \in GetRoute(table, "gw", Outside) : gtw' = [g EXCEPT !.net = "gw"]
  /\ added' = FALSE
  /\ AfterProtect(FALSE)
  /\ UNCHANGED <<cfg, table, def, ppp, split, i, dnsVars, envButFaults>>

\* Mutant of AddGatewayRoute: EEXIST is like success.
AddGatewayRouteAnyway ==
  /\ pc = "addGateway"
  /\ added' = TRUE
  /\ Call(SetRoute(table, gtw))
  /\ AfterProtect(TRUE)
  /\ UNCHANGED <<cfg, def, gtw, ppp, split, i, dnsVars, envButFaults>>

\* A failure other than EEXIST counts as added.
AddGatewayRoute ==
  /\ pc = "addGateway"
  /\ Call(SetRoute(table, gtw))
  /\ added' = (~Exists(table, gtw) \/ faults' # faults)
  /\ AfterProtect(TRUE)
  /\ UNCHANGED <<cfg, def, gtw, ppp, split, i, dnsVars, envButFaults>>

\* The address of gtw_rt is left out; it is 0.0.0.0 when nothing is protected.
Skipped == IF gtw = NoRoute THEN {"all", "low"} ELSE {"gw"}

\* A split route goes by the address the gateway assigned.  If that is not the one
\* pppd got, Linux is told the device all the same; macOS takes the device that leads
\* to the address.
SplitRoutes(n) ==
  IF cfg.assigned = "own" THEN {PppRoute(n)}
  ELSE {[net |-> n, via |-> "assigned", dev |-> d] :
          d \in IF cfg.os = "linux" THEN {"ppp"} ELSE Dev}

\* The system refuses a route by an address it knows no way to.
SetSplitRoute(n) ==
  \/ \E r \in SplitRoutes(n) : Call(SetRoute(table, r))
  \/ cfg.assigned = "other" /\ UNCHANGED <<table, faults>>

\* Mutant of AddSplitRoute: a route to the gateway is set like the others.
AddSplitRouteAny ==
  /\ pc = "addSplit"
  /\ IF i > Len(split) THEN Goto("dns") /\ UNCHANGED <<i, table, faults>>
     ELSE i' = i + 1 /\ pc' = pc /\ SetSplitRoute(split[i])
  /\ UNCHANGED <<cfg, def, gtw, ppp, added, split, dnsVars, envButFaults>>

\* One round of ipv4_set_split_routes.
AddSplitRoute ==
  /\ pc = "addSplit"
  /\ IF i > Len(split) THEN Goto("dns") /\ UNCHANGED <<i, table, faults>>
     ELSE /\ i' = i + 1 /\ pc' = pc
          /\ IF split[i] \in Skipped THEN UNCHANGED <<table, faults>>
             ELSE SetSplitRoute(split[i])
  /\ UNCHANGED <<cfg, def, gtw, ppp, added, split, dnsVars, envButFaults>>

\* Mutant of SetDefaultRoute: the half routes replace the default route, too.
SetDefaultRouteAlways ==
  /\ pc \in {"default1", "default2"}
  /\ IF pc = "default1" THEN Goto("default2") ELSE Goto("dns")
  /\ ppp' = IF pc = "default1" THEN ppp ELSE PppRoute("all")
  /\ Call(IF pc = "default1" THEN DelRoute(table, def)
                             ELSE SetRoute(table, PppRoute("all")))
  /\ UNCHANGED <<cfg, def, gtw, added, split, i, dnsVars, envButFaults>>

\* ipv4_set_default_routes: the default route is deleted and set anew, or two
\* routes to one half of the Internet each are added.
SetDefaultRoute ==
  /\ pc \in {"default1", "default2"}
  /\ IF pc = "default1" THEN Goto("default2") ELSE Goto("dns")
  /\ IF cfg.half
     THEN LET r == PppRoute(IF pc = "default1" THEN "low" ELSE "high")
          IN ppp' = r /\ Call(SetRoute(table, r))
     ELSE IF pc = "default1"
     THEN ppp' = ppp /\ Call(DelRoute(table, def))
     ELSE ppp' = PppRoute("all") /\ Call(SetRoute(table, PppRoute("all")))
  /\ UNCHANGED <<cfg, def, gtw, added, split, i, dnsVars, envButFaults>>

-----------------------------------------------------------------------------
(* resolv.conf *)

\* The lines of f that are not in S.
Without(f, S) ==
  LET kept[k \in 0 .. Len(f)] ==
        IF k = 0 THEN <<>>
        ELSE IF f[k] \in S THEN kept[k - 1] ELSE Append(kept[k - 1], f[k])
  IN kept[Len(f)]

NonBlank(f) == Without(f, {"blank"})
Lines(f) == {f[k] : k \in DOMAIN f}
FirstLine(f) == IF NonBlank(f) = <<>> THEN {} ELSE {Head(NonBlank(f))}

\* -1: there is nothing to add; 1: the line is in what was searched.
Found(wanted, line, searched) ==
  IF ~wanted THEN -1 ELSE IF line \in searched THEN 1 ELSE 0

LineOf == [ns1 |-> "ns1", ns2 |-> "ns2", suffix |-> cfg.suffix]
Missing(w, l) == IF w[l] = 0 THEN <<LineOf[l]>> ELSE <<>>

\* Mutant of AddNameservers: what was found is added all the same.
AddNameserversAgain ==
  /\ pc = "dns" /\ Goto("up")
  /\ IF ~cfg.setDns THEN UNCHANGED <<dnsVars, faults>>
     ELSE /\ wasThere' = [ns1    |-> Found("ns1" \in cfg.servers, "ns1", {}),
                          ns2    |-> Found("ns2" \in cfg.servers, "ns2", {}),
                          suffix |-> Found(cfg.suffix # "none", cfg.suffix, {})]
          /\ file' = Missing(wasThere', "ns1") \o Missing(wasThere', "ns2")
                     \o Missing(wasThere', "suffix") \o file
          /\ faults' = faults
  /\ UNCHANGED <<cfg, table, def, gtw, ppp, added, split, i, envButFaults>>

\* strtok_r cuts the buffer in the search for ns1, so that the others are searched
\* in the first line only.
Searched(f) == [ns1    |-> Found("ns1" \in cfg.servers, "ns1", Lines(f)),
                ns2    |-> Found("ns2" \in cfg.servers, "ns2", FirstLine(f)),
                suffix |-> Found(cfg.suffix # "none", cfg.suffix, FirstLine(f))]
NotSearched == [ns1    |-> Found("ns1" \in cfg.servers, "ns1", {}),
                ns2    |-> Found("ns2" \in cfg.servers, "ns2", {}),
                suffix |-> 0]

\* ipv4_add_nameservers_to_resolv_conf.  An empty file is left alone, and so is one
\* that cannot be read, or not a second time after the search.
AddNameservers ==
  /\ pc = "dns" /\ Goto("up")
  /\ \/ ~cfg.setDns /\ UNCHANGED <<dnsVars, faults>>
     \/ /\ cfg.setDns /\ file # <<>>
        /\ wasThere' = Searched(file)
        /\ file' = Missing(wasThere', "ns1") \o Missing(wasThere', "ns2")
                   \o Missing(wasThere', "suffix") \o file
        /\ faults' = faults
     \/ /\ cfg.setDns /\ file = <<>>
        /\ wasThere' = NotSearched
        /\ UNCHANGED <<file, faults>>
     \/ /\ cfg.setDns /\ file # <<>> /\ faults < MaxFaults
        /\ wasThere' \in {NotSearched, Searched(file)}
        /\ faults' = faults + 1 /\ file' = file
  /\ UNCHANGED <<cfg, table, def, gtw, ppp, added, split, i, envButFaults>>

\* The lines taken out again; the suffix is compared with its semicolons, which
\* a list of several domains in the file no longer has, and an empty one not at all.
Ours == {l \in {"ns1", "ns2"} \cap cfg.servers : wasThere[l] = 0}
        \cup {l \in {"search"} \cap {cfg.suffix} : wasThere["suffix"] = 0}

\* ipv4_del_nameservers_from_resolv_conf; blank lines are lost.
RemoveNameservers ==
  /\ pc = "removeDns" /\ Goto("off")
  /\ \/ /\ cfg.setDns
        /\ file' = Without(file, Ours \cup {"blank"})
        /\ faults' = faults
     \/ /\ cfg.setDns /\ faults < MaxFaults
        /\ file' = file /\ faults' = faults + 1
     \/ ~cfg.setDns /\ UNCHANGED <<file, faults>>
  /\ UNCHANGED <<cfg, table, def, gtw, ppp, added, split, i, wasThere, envButFaults>>

-----------------------------------------------------------------------------
(* on_ppp_if_down *)

\* The I/O loop ended with the tunnel up.
InterfaceDown ==
  /\ pc = "up"
  /\ Goto(IF cfg.setRoutes /\ added THEN "restore1" ELSE "removeDns")
  /\ UNCHANGED <<cfg, routeVars, dnsVars, envVars>>

\* Mutant of RestoreRoutes: the default route is not set again.
RestoreGatewayOnly ==
  /\ pc = "restore1"
  /\ Call(DelRoute(table, gtw))
  /\ Goto("removeDns")
  /\ UNCHANGED <<cfg, def, gtw, ppp, added, split, i, dnsVars, envButFaults>>

\* ipv4_restore_routes, one call per step.
RestoreRoutes ==
  /\ \/ /\ pc = "restore1"
        /\ Call(DelRoute(table, gtw))
        /\ Goto(IF ~cfg.half /\ split = <<>> THEN "restore2" ELSE "removeDns")
     \/ /\ pc = "restore2"
        /\ Call(DelRoute(table, ppp)) /\ Goto("restore3")
     \/ /\ pc = "restore3"
        /\ Call(SetRoute(table, def)) /\ Goto("removeDns")
  /\ UNCHANGED <<cfg, def, gtw, ppp, added, split, i, dnsVars, envButFaults>>

-----------------------------------------------------------------------------
(* The environment *)

\* The interface goes away with its routes, by itself or as pppd is stopped.
PppGone ==
  /\ pppUp /\ pppUp' = FALSE
  /\ table' = {r \in table : r.dev # "ppp"}
  /\ UNCHANGED <<cfg, pc, def, gtw, ppp, added, split, i, dnsVars, faults, renewals,
                 cancelled, before, user>>

\* The DHCP client of one device sets its default route anew and writes resolv.conf.
Renewed(t) ==
  {r \in t : r.net # "all" \/ (cfg.os = "linux" /\ r.dev # "eth")}
  \cup {[net |-> "all", via |-> "router2", dev |-> "eth"]}

Renew ==
  /\ pc \notin {"config", "off"} /\ renewals < MaxRenewals
  /\ renewals' = renewals + 1
  /\ table' = Renewed(table) /\ before' = Renewed(before)
  /\ file' = <<"user">> /\ user' = <<"user">>
  /\ UNCHANGED <<cfg, pc, def, gtw, ppp, added, split, i, wasThere, pppUp, faults,
                 cancelled>>

\* io_loop cancels if_config at one of its calls; the state is not STATE_UP, and
\* run_tunnel does not call on_ppp_if_down.
Cancel ==
  /\ pc \in InUp
  /\ Goto("off") /\ cancelled' = TRUE
  /\ UNCHANGED <<cfg, routeVars, dnsVars, pppUp, faults, renewals, before, user>>

-----------------------------------------------------------------------------
Next ==
  \/ PushRoute \/ \E wrong \in BOOLEAN : InterfaceComesUp(wrong)
  \/ DropWrongRoute \/ ProtectTunnelRoute \/ ProtectFails \/ AddGatewayRoute
  \/ AddSplitRoute \/ SetDefaultRoute \/ AddNameservers
  \/ InterfaceDown \/ RestoreRoutes \/ RemoveNameservers
  \/ PppGone \/ Renew \/ Cancel

Spec == Init /\ [][Next]_vars

-----------------------------------------------------------------------------
(* Safety *)

Ended == pc = "off" /\ ~pppUp
Undisturbed == ~cancelled /\ faults = 0 /\ renewals = 0
HostRouteWasThere == \E r \in before : r.net = "gw"

\* What the kernel does with a packet to a host.
Carriers(h) == Best({r \in table : h \in Hosts[r.net]})

Pushed == {split[k] : k \in DOMAIN split}

\* From the moment routes through the tunnel are set until it goes down, no packet
\* to the gateway enters the tunnel that it carries, whatever routes the gateway
\* pushes, pppd makes by itself, are there before or are renewed meanwhile
\* (ipv4_drop_wrong_route, ipv4_protect_tunnel_route).  A failed call, which the
\* code only logs, is excepted, and so is one case in which nothing is protected:
\* there was no default route around the tunnel.  Then split routes are set all the
\* same, even one to the gateway, and only by such a route may its packets enter.
GatewayOutsideTunnel ==
  pc \in {"addSplit", "default1", "default2", "dns", "up"} /\ faults = 0 =>
    \A r \in Carriers("gateway") : r.dev = "ppp" =>
      /\ gtw = NoRoute /\ cfg.setRoutes /\ r.net \in Pushed
      /\ Undisturbed => \A q \in before : q.net # "all"

\* With half_internet_routes a tunnel that is up keeps everything but the gateway
\* when DHCP renews the default route: what the comment in ipv4_set_default_routes
\* gives as their reason.  A table that had a route to one of the halves by itself is
\* excepted: its route is as long as the tunnel's, and macOS keeps it alone.  Without
\* a default route to protect the gateway by, the halves are not set.
HalfRoutesSurviveRenewal ==
  /\ cfg.half /\ cfg.push = <<>> /\ pc = "up" /\ pppUp /\ gtw # NoRoute /\ faults = 0
  /\ ~\E r \in before : r.net \in {"low", "high"}
  => \A h \in {"web", "far"} : \A r \in Carriers(h) : r.dev = "ppp"

\* After an undisturbed session the table is what it was (ipv4_restore_routes,
\* PppGone), unless a host route to the gateway had been there: then Linux is left
\* without the default route, if that was replaced, and macOS without the host
\* route.  Routes by an address that is not the interface's stay on macOS.
RoutesRestored ==
  Ended /\ Undisturbed =>
    LET stale == {r \in table : /\ cfg.os = "mac" /\ cfg.assigned = "other"
                                /\ r.via = "assigned"}
    IN \/ table \ stale = before
       \/ /\ HostRouteWasThere /\ cfg.setRoutes
          /\ table \ stale = IF cfg.os = "linux" THEN before \ {def}
                             ELSE {r \in before : r.net # "gw"}

\* On Linux no call takes away a route of somebody else but the default route,
\* not even when calls fail or come after a renewal (ipv4_del_route is given what
\* ipv4_get_route returned some time before).  One case is excepted: a host route
\* to the gateway that was there, when the call that was to add it has failed for
\* another reason and counts as having added it.
ForeignRoutesKept ==
  [][cfg.os = "linux" =>
       \A r \in table \ table' : r \in before =>
         r.net = "all" \/ (r = gtw /\ faults > 0)]_vars

\* Lines of the user that the search of AddNameservers overlooks.
Overlooked ==
  ((cfg.servers \cap {"ns2"}) \cup ({cfg.suffix} \cap {"search"}))
  \cap (Lines(user) \ FirstLine(user))

\* After an undisturbed session resolv.conf has the lines it had, without the blank
\* ones, but for two cases: a list of several domains, or the line of an empty one,
\* stays behind, and a server or a domain that was there after the first line is taken
\* away with the tunnel's.
ResolvRestored ==
  Ended /\ Undisturbed /\ cfg.setDns /\ user # <<>> =>
    LET kept == Without(user, Overlooked \cup {"blank"})
    IN \/ NonBlank(file) = kept
       \/ /\ cfg.suffix \in {"searchList", "bareSearch"}
          /\ NonBlank(file) = <<cfg.suffix>> \o kept
=============================================================================
