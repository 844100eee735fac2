----------------------------- MODULE MCNetwork -----------------------------
(***************************************************************************)
(* Network for TLC: all route configurations on eight routing tables with  *)
(* an ordinary resolv.conf, and all DNS configurations on nine files with  *)
(* an ordinary routing table.  Whose address the gateway assigned makes no *)
(* difference without split routes.                                        *)
(***************************************************************************)
EXTENDS Network

Eth(n, v) == [net |-> n, via |-> v, dev |-> "eth"]
Wlan(n, v) == [net |-> n, via |-> v, dev |-> "wlan"]
Default == Eth("all", "router1")
Lan == Eth("around", "link")

Tables == {{Default}, {Default, Lan}, {Default, Eth("gw", "router1")},
           {Default, Lan, Eth("gw", "link")}, {Default, Eth("corp", "router1")},
           {Default, Wlan("all", "router2"), Wlan("around", "link")},
           {Default, Eth("low", "router1")}, {}}
Pushes == {<<>>, <<"corp">>, <<"gw", "corp">>, <<"all">>, <<"low", "high", "corp">>,
           <<"around", "corp">>}
Files == {<<>>, <<"user">>, <<"user", "blank", "user">>, <<"ns1", "user">>,
          <<"user", "ns1", "ns2">>, <<"ns2", "user">>, <<"user", "search">>,
          <<"blank", "search", "user">>, <<"user", "searchList", "ns2">>}

AllRouteCases ==
  {[cfg |-> [os |-> o, half |-> h, setRoutes |-> s, setDns |-> FALSE, push |-> p,
             assigned |-> a, servers |-> {}, suffix |-> "none"],
    table |-> t, file |-> <<"user">>] :
     o \in {"linux", "mac"}, h \in BOOLEAN, s \in BOOLEAN, p \in Pushes, t \in Tables,
     a \in {"own", "other"}}
RouteCases ==
  {c \in AllRouteCases : /\ c.cfg.os = "mac" => OnePerNet(c.table)
                         /\ c.cfg.assigned = "other" => /\ c.cfg.setRoutes /\ ~c.cfg.half
                                                        /\ c.cfg.push # <<>>}
DnsCases ==
  {[cfg |-> [os |-> "linux", half |-> FALSE, setRoutes |-> FALSE, setDns |-> TRUE,
             push |-> <<>>, assigned |-> "own", servers |-> n, suffix |-> d],
    table |-> {Default}, file |-> f] :
     n \in SUBSET {"ns1", "ns2"}, d \in {"none", "search", "searchList", "bareSearch"},
     f \in Files}

MCCases == RouteCases \cup DnsCases
=============================================================================
