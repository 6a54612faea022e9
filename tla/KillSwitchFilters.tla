-------------------------- MODULE KillSwitchFilters --------------------------
(***************************************************************************)
(* What the kill switch lets through: the filters that                     *)
(* firewall::enable_blocking puts into one WFP transaction, and the        *)
(* verdict WFP reaches from them on each outbound connection.              *)
(* HelperBroker models when the filters are there; this module models what *)
(* they say.  Settings arrive from connect and from the live toggle        *)
(* (kill_switch_apply); every step of the transaction may fail.            *)
(***************************************************************************)
EXTENDS AddressRanges, FiniteSets

CONSTANTS
  Addresses,    \* destinations, as sequences of octets
  Servers       \* the addresses the VPN server's name may resolve to

ASSUME AddressesAreOctets ==
  \A a \in Addresses \cup Servers : a \in Seq(0..255) /\ Len(a) \in {4, 16}

VARIABLES
  settings,     \* the request being applied or in force
  stage,        \* next section of the transaction
  pending,      \* filters added in the open transaction
  installed     \* filters in force in the kernel

filterVars == <<settings, stage, pending, installed>>

Programs == {"engine", "helper", "ui", "other"}
OurPrograms == Programs \ {"other"}
Ports == {"dns", "dhcp", "other"}
Wildcard == "any"
AnyNet == <<<<>>, 0>>

Flows == [dst : Addresses \cup Servers, app : Programs, port : Ports,
                proto : {"tcp", "udp"}, iface : {"nic", "tun"}]

\* connect: the fake-ip resolver on the adapter is the one DNS server left
\* open, and only in TUN mode.
DnsVia == V4(198, 18, 0, 1)

AllowDns(s) == IF s.blockDns /\ s.tun THEN {DnsVia} ELSE {}

SettingsSpace == [servers : SUBSET Servers, lan : BOOLEAN, blockDns : BOOLEAN,
                  tun : BOOLEAN, strict : BOOLEAN, noV6 : BOOLEAN]

-----------------------------------------------------------------------------
(* Filters (wfp.rs): conditions that are absent match everything; within   *)
(* the sublayer the heaviest matching filter decides.                      *)

\* Variant: the exception for DNS one step above the scale.
WBeyond == [block |-> 0, lan |-> 8, dnsBlock |-> 9, loopback |-> 10, server |-> 12,
            app |-> 13, dnsPermit |-> 14, tun |-> 16]

W == [block |-> 0, lan |-> 8, dnsBlock |-> 9, loopback |-> 10, server |-> 12,
      app |-> 13, dnsPermit |-> 14, tun |-> 15]

Blank == [layer |-> "v4", weight |-> 0, action |-> "permit", net |-> AnyNet,
          app |-> Wildcard, port |-> Wildcard, proto |-> Wildcard, iface |-> Wildcard]

LayerOf(a) == IF IsV4(a) THEN "v4" ELSE "v6"

BlockAll(layer) == [Blank EXCEPT !.layer = layer, !.weight = W.block, !.action = "block"]

AllowSubnet(range, weight) ==
  [Blank EXCEPT !.layer = LayerOf(range[1]), !.weight = weight, !.net = range]

AllowAddr(a, weight) == AllowSubnet(<<a, 8 * Len(a)>>, weight)

AllowAddrPort(a, proto) ==
  [AllowAddr(a, W.dnsPermit) EXCEPT !.port = "dns", !.proto = proto]

BlockPort(layer, proto) ==
  [Blank EXCEPT !.layer = layer, !.weight = W.dnsBlock, !.action = "block",
                !.port = "dns", !.proto = proto]

AllowInterface(layer) ==
  [Blank EXCEPT !.layer = layer, !.weight = W.tun, !.iface = "tun"]

AllowApp(layer, app) ==
  [Blank EXCEPT !.layer = layer, !.weight = W.app, !.app = app]

Matches(f, c) == /\ f.layer = LayerOf(c.dst)
                 /\ f.net = AnyNet \/ Within(c.dst, f.net)
                 /\ f.app \in {Wildcard, c.app}
                 /\ f.port \in {Wildcard, c.port}
                 /\ f.proto \in {Wildcard, c.proto}
                 /\ f.iface \in {Wildcard, c.iface}

\* Filters of equal weight are in no documented order: each may decide.
Verdicts(F, c) ==
  LET M == {f \in F : Matches(f, c)}
  IN  IF M = {} THEN {"permit"}
      ELSE {f.action : f \in {g \in M : \A h \in M : h.weight <= g.weight}}

Blocks(F, c)  == Verdicts(F, c) = {"block"}
Permits(F, c) == Verdicts(F, c) = {"permit"}

-----------------------------------------------------------------------------
(* The sections of the transaction, in the order of the code.              *)

Layers(s) == IF s.noV6 THEN {"v4"} ELSE {"v4", "v6"}

BaseFilters == {BlockAll(l) : l \in {"v4", "v6"}}

LoopbackFilters == {AllowSubnet(r, W.loopback) : r \in Loopbacks}

\* Variant: link-local and multicast IPv6 stay open.
LanFiltersV6Open(s) ==
  IF s.lan THEN {AllowSubnet(r, W.lan) : r \in LanV4 \cup LanV6} ELSE {}

LanFilters(s) ==
  IF s.lan
    THEN {AllowSubnet(r, W.lan) : r \in LanV4 \cup (IF s.noV6 THEN {} ELSE LanV6)}
    ELSE {}

ServerFilters(s) ==
  {AllowAddr(a, W.server) : a \in {b \in s.servers : LayerOf(b) \in Layers(s)}}

\* Variant: strict mode forgets that the engine has its own permit.
AllowedAppsLax(s) == OurPrograms

\* Strict mode withholds the engine's permit.
AllowedApps(s) == IF s.strict THEN OurPrograms \ {"engine"} ELSE OurPrograms

\* An executable whose id cannot be read is skipped, in IPv6 also after its
\* IPv4 filter was added.
AppFilters(s, known4, known6) ==
  {AllowApp("v4", a) : a \in AllowedApps(s) \cap known4} \cup
  {AllowApp("v6", a) : a \in {b \in AllowedApps(s) \cap known4 \cap known6 : ~s.noV6}}

\* Variant: the adapter's permit without its interface.
TunFiltersUnbound(s) ==
  IF s.tun THEN {[AllowInterface(l) EXCEPT !.iface = Wildcard] : l \in Layers(s)} ELSE {}

TunFilters(s) == IF s.tun THEN {AllowInterface(l) : l \in Layers(s)} ELSE {}

\* Variant: the permits and the blocks of port 53 have the same weight.
DnsFiltersTied(s) ==
  IF s.blockDns
    THEN {[AllowAddrPort(a, p) EXCEPT !.weight = W.dnsBlock]
            : a \in AllowDns(s), p \in {"tcp", "udp"}} \cup
         {BlockPort(l, p) : l \in {"v4", "v6"}, p \in {"tcp", "udp"}}
    ELSE {}

\* Variant: DNS over TCP is forgotten.
DnsFiltersUdp(s) ==
  IF s.blockDns
    THEN {AllowAddrPort(a, "udp") : a \in AllowDns(s)} \cup
         {BlockPort(l, "udp") : l \in {"v4", "v6"}}
    ELSE {}

DnsFilters(s) ==
  IF s.blockDns
    THEN {AllowAddrPort(a, p) : a \in AllowDns(s), p \in {"tcp", "udp"}} \cup
         {BlockPort(l, p) : l \in {"v4", "v6"}, p \in {"tcp", "udp"}}
    ELSE {}

-----------------------------------------------------------------------------
Off == [servers |-> {}, lan |-> FALSE, blockDns |-> FALSE, tun |-> FALSE,
        strict |-> FALSE, noV6 |-> FALSE]

FiltersInit ==
  /\ settings = Off
  /\ stage = "idle"
  /\ pending = {}
  /\ installed = {}

\* connect or kill_switch_apply: the old session closes first, and its
\* filters go with it.
Begin(s) ==
  /\ stage = "idle"
  /\ settings' = s
  /\ stage' = "base"
  /\ pending' = {}
  /\ installed' = {}

Add(from, to, filters) ==
  /\ stage = from
  /\ stage' = to
  /\ pending' = pending \cup filters
  /\ UNCHANGED <<settings, installed>>

\* Variant: filters outside a transaction are in force one by one.
AddBareDirect(from, to, filters) ==
  /\ stage = from
  /\ stage' = to
  /\ pending' = pending \cup filters
  /\ installed' = installed \cup filters
  /\ UNCHANGED settings

AddBare(from, to, filters) == Add(from, to, filters)

AddBase == AddBare("base", "loopback", BaseFilters)
AddLoopback == Add("loopback", "lan", LoopbackFilters)
AddLan == Add("lan", "server", LanFilters(settings))
AddServers == Add("server", "apps", ServerFilters(settings))
AddApps == \E k4, k6 \in SUBSET OurPrograms : Add("apps", "tun", AppFilters(settings, k4, k6))
AddTun == Add("tun", "dns", TunFilters(settings))
AddDns == Add("dns", "commit", DnsFilters(settings))

Commit ==
  /\ stage = "commit"
  /\ stage' = "idle"
  /\ installed' = pending
  /\ pending' = {}
  /\ UNCHANGED settings

\* FwpmTransactionAbort0, or the commit failed; the engine handle closes.
Abort ==
  /\ stage # "idle"
  /\ stage' = "idle"
  /\ pending' = {}
  /\ UNCHANGED <<settings, installed>>

\* disable, the watchdog or the end of the process: the session closes.
Drop ==
  /\ stage = "idle" /\ installed # {}
  /\ installed' = {}
  /\ UNCHANGED <<settings, stage, pending>>

FiltersNext ==
  \/ \E s \in SettingsSpace : Begin(s)
  \/ AddBase \/ AddLoopback \/ AddLan \/ AddServers \/ AddApps
  \/ AddTun \/ AddDns
  \/ Commit \/ Abort \/ Drop

FiltersSpec == FiltersInit /\ [][FiltersNext]_filterVars

-----------------------------------------------------------------------------
(* Properties.                                                             *)

FilterSpace == [layer : {"v4", "v6"}, weight : 0..15, action : {"permit", "block"},
                net : {AnyNet} \cup Loopbacks \cup LanV4 \cup LanV6
                      \cup {<<a, 8 * Len(a)>> : a \in Servers \cup {DnsVia}},
                app : Programs \cup {Wildcard}, port : {"dns", Wildcard},
                proto : {"tcp", "udp", Wildcard}, iface : {"tun", Wildcard}]

\* Every filter added is one WFP accepts; its weight fits four bits.
FilterTypes ==
  /\ settings \in SettingsSpace
  /\ stage \in {"idle", "base", "loopback", "lan", "server", "apps", "tun", "dns", "commit"}
  /\ pending \subseteq FilterSpace
  /\ installed \subseteq FilterSpace

Active == installed # {}

\* A local destination, by the reading of is_public_ip.
Local(a) == ~IsPublicIp(a)

\* With the kill switch on, traffic of a foreign program that does not go
\* through the tunnel reaches nothing but the VPN server, this machine and,
\* if the user allowed it, the local network (firewall.rs: "block all
\* outbound but the allowlist").
NothingLeaks ==
  Active => \A c \in Flows :
    (/\ c.app = "other" /\ c.iface = "nic"
     /\ c.dst \notin settings.servers
     /\ ~WithinAny(c.dst, Loopbacks)
     /\ c.dst \notin AllowDns(settings) \/ c.port # "dns"
     /\ settings.lan => ~Local(c.dst))
    => Blocks(installed, c)

\* DNS leak protection closes port 53 over UDP and TCP to every resolver,
\* the router on the local network included, whatever else is allowed.
DnsIsSealed ==
  Active /\ settings.blockDns => \A c \in Flows :
    (/\ c.app = "other" /\ c.iface = "nic" /\ c.port = "dns"
     /\ c.dst \notin settings.servers \cup AllowDns(settings)
     /\ ~WithinAny(c.dst, Loopbacks))
    => Blocks(installed, c)

\* force_disable_ipv6 leaves ::1 and nothing else of IPv6, for every
\* program, interface and setting.
V6IsSealed ==
  Active /\ settings.noV6 => \A c \in Flows :
    LayerOf(c.dst) = "v6" /\ ~WithinAny(c.dst, Loopbacks) => Blocks(installed, c)

\* In strict mode the engine itself reaches the server and nothing else on
\* the Internet outside the tunnel: a DIRECT rule of a subscription leads
\* nowhere.
StrictHoldsTheEngine ==
  Active /\ settings.strict => \A c \in Flows :
    (/\ c.app = "engine" /\ c.iface = "nic" /\ ~Local(c.dst)
     /\ c.dst \notin settings.servers)
    => Blocks(installed, c)

\* The four promises of what is closed, under every combination of settings.
Sealed == NothingLeaks /\ DnsIsSealed /\ V6IsSealed /\ StrictHoldsTheEngine

\* Filters are never in force without the way to the server: no failure
\* half-way leaves a user behind block-all (wfp.rs, transaction), and no
\* other setting closes it.  IPv6 servers are given up by force_disable_ipv6.
ServerStaysReachable ==
  Active => \A c \in Flows :
    c.dst \in settings.servers /\ LayerOf(c.dst) \in Layers(settings)
    => Permits(installed, c)

\* allow_lan opens the private IPv4 networks to every program (but for DNS
\* under leak protection), and the adapter's resolver answers in TUN mode:
\* no two filters of one weight contradict each other on the way.
PromisedStaysOpen ==
  Active => \A c \in Flows :
    \/ /\ settings.lan /\ IsV4(c.dst)
       /\ PrivateV4(c.dst) \/ LinkLocalV4(c.dst)
       /\ settings.blockDns => c.port # "dns"
    \/ c.dst \in AllowDns(settings) /\ c.port = "dns"
    => Permits(installed, c)

\* The two promises of what is open.
StaysOpen == ServerStaysReachable /\ PromisedStaysOpen

\* firewall.rs, header: DHCP/BOOTP (UDP 67/68) passes so that an address
\* can be obtained in a new network.
DhcpPasses ==
  Active => \A c \in Flows :
    c.port = "dhcp" /\ c.proto = "udp" /\ c.dst = V4(255, 255, 255, 255)
    => Permits(installed, c)

\* mihomo_config.rs keeps the private ranges out of the tunnel so that "LAN
\* and router are reachable"; with allow_lan the kill switch lets them pass.
ExcludedIsReachable ==
  Active /\ settings.lan /\ ~settings.noV6 => \A c \in Flows :
    WithinAny(c.dst, RouteExclude) /\ c.port = "other" => Permits(installed, c)
=============================================================================
