---------------------------- MODULE MihomoConfig ----------------------------
(***************************************************************************)
(* The configuration the engine runs: how the connect command generates it *)
(* from a server (build) or from a provider's full profile                 *)
(* (patch_full_yaml), and what becomes of a profile that goes through the  *)
(* encrypted cache and back.  The engine itself is external: the first     *)
(* rule that matches a connection names its way out, the resolver of a     *)
(* name is the policy entry that covers it, else the general one.          *)
(* A name is the sequence of its labels, an address <<"ip", address>>, the *)
(* argument of a rule a name or the sequence of one word; a                *)
(* document, the provider's or a generated one, is a record of the         *)
(* top-level keys that the code treats differently.                        *)
(***************************************************************************)
EXTENDS Integers, Sequences, FiniteSets, SequencesExt

CONSTANTS
  None,         \* no value
  Names,        \* domain names that are asked for
  Hosts,        \* addresses that are asked for
  Apps,         \* processes that ask
  GeoSites,     \* geosite category |-> the names in it
  Nets,         \* geoip category or address range |-> the addresses in it
  Docs,         \* what subscriptions deliver
  Settings      \* what the user may have chosen when connecting

ASSUME LocalRangesKnown == "local" \in DOMAIN Nets
ASSUME NoneIsNoValue == None \notin STRING \cup BOOLEAN \cup {"ours", "dat"}

VARIABLES
  source,       \* the server entry in memory
  cache,        \* its copy on disk
  origin,       \* what was fetched (ghost): <<of source, of cache>>
  config,       \* what the engine runs
  used          \* the settings it was generated with

vars == <<source, cache, origin, config, used>>

Connections == [app : Apps, dst : Names \cup Hosts]

-----------------------------------------------------------------------------
(* What subscriptions deliver and what the user may choose.                *)

OrNone(S) == S \cup {None}
Word == STRING
WordOrNone == OrNone(Word)

RuleKinds == {"process", "geosite", "suffix", "exact", "keyword", "regex", "net", "match"}
Rules == [kind : RuleKinds, arg : Seq(Word), target : Word]

Forms == {"geosite", "star", "dotted", "domain", "keyword", "word", "regex", "geoip", "cidr",
          "address"}
Entries == [form : Forms, arg : Seq(Word)]

Profiles == [block : Seq(Entries), direct : Seq(Entries), proxy : Seq(Entries),
             domestic : WordOrNone, remote : WordOrNone, remoteIp : WordOrNone,
             hosts : SUBSET Word, fake : BOOLEAN, globalProxy : BOOLEAN]

Options == [apps : Seq([exe : Word, action : {"proxy", "direct", "block"}]),
            profile : OrNone(Profiles), default : {"auto", "vpn", "direct"}, tun : BOOLEAN,
            lan : BOOLEAN, ipv6 : BOOLEAN, custom : WordOrNone, dpi : WordOrNone, strict : BOOLEAN]

Dns == [nameserver : WordOrNone, bootstrap : WordOrNone, domestic : WordOrNone,
        policy : SUBSET [kind : RuleKinds, arg : Seq(Word)], fake : BOOLEAN,
        realIn : SUBSET [kind : RuleKinds, arg : Seq(Word)], hosts : SUBSET Word,
        ipv6 : BOOLEAN]

\* reject_tagged_yaml, the bounds and the names, SSH, SCRIPT, providers.
Refusals == {"tagged", "too many entries", "unsafe name", "ssh proxy",
             "script rule", "file provider", "local provider"}

Documents == [kind : {"uri", "full"}, groups : Seq(Word), rules : Seq(Rules),
              flaw : OrNone(Refusals), extras : SUBSET Word, probe : WordOrNone,
              paths : WordOrNone, tcp : OrNone(BOOLEAN), geodata : WordOrNone, log : Word,
              ipv6 : BOOLEAN, tun : Word, process : BOOLEAN,
              inbound : [listen : Word, auth : WordOrNone, port : WordOrNone,
                         controller : WordOrNone],
              dns : Dns]

\* The entry of a single server brings no document of its own.
Plain(d) == d.extras = {} /\ d.probe = None /\ d.paths = None

ASSUME DocsAreDocuments ==
  Docs \subseteq Documents /\ \A d \in Docs : d.kind = "uri" => Plain(d)
ASSUME SettingsAreOptions == Settings \subseteq Options

-----------------------------------------------------------------------------
(* The engine.                                                             *)

Rule(kind, arg, target) == [kind |-> kind, arg |-> arg, target |-> target]

Hits(r, c) ==
  \/ r.kind = "process" /\ r.arg = <<c.app>>
  \/ r.kind = "geosite" /\ c.dst \in GeoSites[Head(r.arg)]
  \/ r.kind = "suffix" /\ IsSuffix(r.arg, c.dst)
  \/ r.kind = "exact" /\ c.dst = r.arg
  \/ r.kind \in {"keyword", "regex"} /\ Head(r.arg) \in Range(c.dst)
  \/ r.kind = "net" /\ c.dst \in Nets[Head(r.arg)]
  \/ r.kind = "match"

Route(rules, c) ==
  LET hit == {i \in DOMAIN rules : Hits(rules[i], c)}
  IN  IF hit = {} THEN "DIRECT"
      ELSE rules[CHOOSE i \in hit : \A j \in hit : i <= j].target

\* A key of nameserver-policy or fake-ip-filter is a zone: a name covered
\* by one has the resolver of the policy and its real address.
InZone(key, name) == Hits(Rule(key.kind, key.arg, None), [app |-> None, dst |-> name])
InZones(keys, name) == \E k \in keys : InZone(k, name)

Resolver(dns, name) == IF InZones(dns.policy, name) THEN dns.domestic ELSE dns.nameserver

-----------------------------------------------------------------------------
(* Rules.                                                                  *)

KindOf(form) ==
  IF form \in {"star", "dotted"} THEN "suffix"
  ELSE IF form = "domain" THEN "exact"
  ELSE IF form \in {"keyword", "word"} THEN "keyword"
  ELSE IF form \in {"geoip", "cidr", "address"} THEN "net"
  ELSE form      \* geosite, regex

RulesOf(entries, target) ==
  [i \in DOMAIN entries |-> Rule(KindOf(entries[i].form), entries[i].arg, target)]

\* Variant: direct entries come before blocked ones.
ProfileRulesDirectFirst(p, target) ==
  RulesOf(p.direct, "DIRECT") \o RulesOf(p.block, "REJECT") \o RulesOf(p.proxy, target)

ProfileRules(p, target) ==
  RulesOf(p.block, "REJECT") \o RulesOf(p.direct, "DIRECT") \o RulesOf(p.proxy, target)

AppTarget(action, target) ==
  IF action = "proxy" THEN target ELSE IF action = "direct" THEN "DIRECT" ELSE "REJECT"

AppRules(s, target) ==
  [i \in DOMAIN s.apps |-> Rule("process", <<s.apps[i].exe>>, AppTarget(s.apps[i].action, target))]

UserRules(s, target) ==
  AppRules(s, target) \o (IF s.profile = None THEN <<>> ELSE ProfileRules(s.profile, target))

LocalRules == <<Rule("net", <<"local">>, "DIRECT")>>

IsTerminal(r) == r.kind = "match"
NotTerminal(r) == ~IsTerminal(r)

\* Variant: whatever the terminal rule names.
ProxyTargetUnchecked(doc) ==
  LET named == {i \in DOMAIN doc.rules : IsTerminal(doc.rules[i])}
  IN  IF named # {} THEN doc.rules[CHOOSE i \in named : \A j \in named : i <= j].target
      ELSE IF doc.groups # <<>> THEN doc.groups[1]
      ELSE "GLOBAL"

ProxyTarget(doc) ==
  LET named == {i \in DOMAIN doc.rules :
                  IsTerminal(doc.rules[i]) /\ doc.rules[i].target \in Range(doc.groups)}
  IN  IF named # {} THEN doc.rules[CHOOSE i \in named : \A j \in named : i <= j].target
      ELSE IF doc.groups # <<>> THEN doc.groups[1]
      ELSE "GLOBAL"

ExplicitTarget(s, target) == IF s.default = "direct" THEN "DIRECT" ELSE target

\* Variant: the provider's own catch-all stays where it was.
WithDefaultAppended(rules, s, target) ==
  IF s.default = "auto" THEN rules
  ELSE Append(rules, Rule("match", <<>>, ExplicitTarget(s, target)))

\* The rules without the catch-alls, in their order: the k-th that is kept is
\* the one up to which k are kept.
WithoutTerminal(rules) ==
  LET kept == {i \in DOMAIN rules : NotTerminal(rules[i])}
      Rank(i) == Cardinality({j \in kept : j <= i})
  IN  [k \in 1..Cardinality(kept) |-> rules[CHOOSE i \in kept : Rank(i) = k]]

WithDefault(rules, s, target) ==
  IF s.default = "auto" THEN rules
  ELSE Append(WithoutTerminal(rules), Rule("match", <<>>, ExplicitTarget(s, target)))

-----------------------------------------------------------------------------
(* DNS.                                                                    *)

\* Variant: "domain:x" covers what is below x, too.
PolicyKeysBroad(entries) ==
  {[kind |-> IF e.form = "geosite" THEN "geosite" ELSE "suffix", arg |-> e.arg]
     : e \in {e \in Range(entries) : e.form \in {"geosite", "star", "dotted", "domain"}}}

\* Variant: wildcard entries are skipped like keywords.
PolicyKeysNoStar(entries) ==
  {[kind |-> KindOf(e.form), arg |-> e.arg]
     : e \in {e \in Range(entries) : e.form \in {"geosite", "dotted", "domain"}}}

\* "regex:" is not known here: with a dot in it the entry becomes the zone
\* of a name that starts with "regex:", which no name is in.
PolicyKeys(entries) ==
  {[kind |-> KindOf(e.form), arg |-> e.arg]
     : e \in {e \in Range(entries) : e.form \in {"geosite", "star", "dotted", "domain"}}}

FirstOf(a, b, c) == IF a # None THEN a ELSE IF b # None THEN b ELSE c

\* A profile's addresses are a URL and a plain address; the URL comes first.
Remote(p)   == IF p = None THEN None ELSE FirstOf(p.remote, p.remoteIp, None)
RemoteIp(p) == IF p = None THEN None ELSE p.remoteIp
Domestic(p) == IF p = None THEN None ELSE p.domestic

\* s.dpi is the resolver of the anti-DPI settings, if they are on.
BuildDns(s) ==
  LET p == s.profile
      keys == IF p = None THEN {} ELSE PolicyKeys(p.direct)
      fake == p # None /\ p.fake
  IN  [nameserver |-> FirstOf(s.custom, Remote(p), FirstOf(s.dpi, "default", None)),
       bootstrap  |-> FirstOf(RemoteIp(p), s.dpi, "default"),
       domestic   |-> Domestic(p),
       policy     |-> IF Domestic(p) = None THEN {} ELSE keys,
       fake       |-> fake,
       realIn     |-> IF fake THEN keys ELSE {},
       hosts      |-> IF p = None THEN {} ELSE p.hosts,
       ipv6       |-> s.ipv6]

\* What patch_full_yaml does to the section once it is rebuilt.  The merge
\* of the profile (merge_profile_dns) finds there what build_dns has put.
PatchDns(dns, s) ==
  [dns EXCEPT !.nameserver = FirstOf(s.custom, s.dpi, @),
              !.bootstrap = FirstOf(s.dpi, @, None)]

-----------------------------------------------------------------------------
(* Documents.                                                              *)

Auth(s) == IF s.tun \/ s.lan THEN "ours" ELSE None

Inbound(s) == [listen |-> IF s.lan THEN "lan" ELSE "loopback", auth |-> Auth(s),
               port |-> "ours", controller |-> "ours"]

UriDefault(s) ==
  IF s.default # "auto" THEN ExplicitTarget(s, "PROXY")
  ELSE IF s.profile = None \/ s.profile.globalProxy THEN "PROXY" ELSE "DIRECT"

Build(doc, s) ==
  [doc EXCEPT !.groups = <<"PROXY">>,
              !.rules = UserRules(s, "PROXY") \o LocalRules
                        \o <<Rule("match", <<>>, UriDefault(s))>>,
              !.dns = BuildDns(s),
              !.inbound = Inbound(s),
              !.log = "info",
              !.ipv6 = s.ipv6,
              !.tun = IF s.tun THEN "ours" ELSE "off",
              !.process = s.apps # <<>>,
              !.tcp = TRUE,
              !.geodata = "dat"]

\* The keys that sanitize_full_profile and patch_full_yaml take out; any other
\* key that the code does not set passes.
RemovedKeys ==
  {"listeners", "inbounds", "tunnels", "ss-config", "vmess-config", "tuic-server",
   "script", "script-mode", "experimental", "external-ui", "external-ui-name",
   "external-ui-url", "external-controller-tls", "external-controller-pipe",
   "external-controller-unix", "external-controller-cors", "external-doh-server",
   "geox-url", "ntp", "skip-auth-prefixes", "lan-allowed-ips", "lan-disallowed-ips",
   "interface-name", "routing-mark", "tls", "hosts",
   "socks-port", "port", "redir-port", "tproxy-port"}

\* Variant: the log level is left to the provider.
SanitizedKeepingLog(doc, s) ==
  [doc EXCEPT !.extras = @ \ RemovedKeys, !.ipv6 = s.ipv6,
              !.process = s.apps # <<>>, !.probe = IF @ = None THEN None ELSE "ours",
              !.paths = IF @ = None THEN None ELSE "ours",
              !.dns = BuildDns(s), !.tun = IF s.tun THEN "ours" ELSE "off"]

Sanitized(doc, s) ==
  [doc EXCEPT !.extras = @ \ RemovedKeys, !.log = "warning", !.ipv6 = s.ipv6,
              !.process = s.apps # <<>>, !.probe = IF @ = None THEN None ELSE "ours",
              !.paths = IF @ = None THEN None ELSE "ours",
              !.dns = BuildDns(s), !.tun = IF s.tun THEN "ours" ELSE "off"]

Accepts(doc) == doc.flaw \notin Refusals

PatchFull(doc, s) ==
  LET clean  == Sanitized(doc, s)
      target == ProxyTarget(clean)
  IN  [clean EXCEPT !.inbound = Inbound(s),
                    !.dns = PatchDns(@, s),
                    !.rules = WithDefault(UserRules(s, target) \o @, s, target),
                    !.geodata = IF @ = None /\ s.profile # None THEN "dat" ELSE @,
                    !.tcp = IF @ = None THEN TRUE ELSE @]

Generate(doc, s) == IF doc.kind = "full" THEN PatchFull(doc, s) ELSE Build(doc, s)

\* Variant: the cache is sanitised with the default of the URI branch.
NeutralVpn == [apps |-> <<>>, profile |-> None, default |-> "vpn", tun |-> FALSE, lan |-> FALSE,
               ipv6 |-> FALSE, custom |-> None, dpi |-> None, strict |-> FALSE]

Neutral == [apps |-> <<>>, profile |-> None, default |-> "auto", tun |-> FALSE, lan |-> FALSE,
            ipv6 |-> FALSE, custom |-> None, dpi |-> None, strict |-> FALSE]

\* sanitize_servers_for_cache; a plain server is only tried.
ForCache(doc) == IF doc.kind = "full" THEN PatchFull(doc, Neutral) ELSE doc

-----------------------------------------------------------------------------
Init == /\ source = None
        /\ cache = None
        /\ origin = <<None, None>>
        /\ config = None
        /\ used = None

\* A document fetched while connected waits for the next connection: it is
\* as good as fetched after Disconnect.
Fetch(d) ==
  /\ config = None
  /\ source' = d
  /\ origin' = <<d, origin[2]>>
  /\ UNCHANGED <<cache, config, used>>

Save ==
  /\ source # None /\ Accepts(source)
  /\ cache' = ForCache(source)
  /\ origin' = <<origin[1], origin[1]>>
  /\ UNCHANGED <<source, config, used>>

\* The application starts again and has only the cache, sanitised again.
Restart ==
  /\ cache # None
  /\ source' = ForCache(cache)
  /\ origin' = <<origin[2], origin[2]>>
  /\ config' = None
  /\ used' = None
  /\ UNCHANGED cache

\* A strict kill switch together with the explicit choice of DIRECT is refused.
Connect(s) ==
  /\ config = None
  /\ source # None /\ Accepts(source)
  /\ ~(s.strict /\ s.default = "direct")
  /\ config' = Generate(source, s)
  /\ used' = s
  /\ UNCHANGED <<source, cache, origin>>

Disconnect ==
  /\ config # None
  /\ config' = None
  /\ used' = None
  /\ UNCHANGED <<source, cache, origin>>

Next == \/ \E d \in Docs : Fetch(d)
        \/ Save \/ Restart
        \/ \E s \in Settings : Connect(s)
        \/ Disconnect

Spec == Init /\ [][Next]_vars

-----------------------------------------------------------------------------
(* Properties.                                                             *)

Running == config # None

\* What runs is a document the code has gone over: every key has a value
\* that the code, not the provider, chose, or that it lets pass.
TypeOK ==
  Running =>
    /\ config.kind \in {"uri", "full"} /\ config.flaw = None
    /\ config.log \in {"info", "warning"}
    /\ config.ipv6 \in BOOLEAN /\ config.process \in BOOLEAN
    /\ config.tun \in {"ours", "off"}
    /\ config.probe \in {"ours", None} /\ config.paths \in {"ours", None}
    /\ \A r \in Range(config.rules) :
         r.kind \in RuleKinds

\* A connection made from the cache, after a restart and without the
\* network, is the one the fresh document would have given, under every
\* setting: sanitising twice loses nothing.
CacheDoesNotChangeTheConnection ==
  Running => config = Generate(origin[1], used)

\* The reading of an entry by the table above mihomo_rules_from_profile.
Covers(e, c) ==
  \/ e.form = "geosite" /\ c.dst \in GeoSites[Head(e.arg)]
  \/ e.form \in {"star", "dotted"} /\ IsSuffix(e.arg, c.dst)
  \/ e.form = "domain" /\ c.dst = e.arg
  \/ e.form \in {"keyword", "word", "regex"} /\ Head(e.arg) \in Range(c.dst)
  \/ e.form \in {"geoip", "cidr", "address"} /\ c.dst \in Nets[Head(e.arg)]

CoveredBy(entries, c) == \E e \in Range(entries) : Covers(e, c)

UserApp(c) == {i \in DOMAIN used.apps : used.apps[i].exe = c.app}

UserZone(c) == /\ used.profile # None
               /\ \/ CoveredBy(used.profile.block, c)
                  \/ CoveredBy(used.profile.direct, c)
                  \/ CoveredBy(used.profile.proxy, c)

\* The way out that "proxy" means.
OurTarget == IF config.kind = "full" THEN ProxyTarget(origin[1]) ELSE "PROXY"

ProfileTarget(c) ==
  IF CoveredBy(used.profile.block, c) THEN "REJECT"
  ELSE IF CoveredBy(used.profile.direct, c) THEN "DIRECT"
  ELSE OurTarget

\* The user's rules decide before the provider's: the rule of the process
\* first, then block over direct over proxy, whichever path built the
\* configuration and whatever the provider's rules say.
UserRulesWin ==
  Running => \A c \in Connections :
    /\ UserApp(c) # {} =>
         \E i \in UserApp(c) :
           /\ \A j \in UserApp(c) : i <= j
           /\ Route(config.rules, c) = AppTarget(used.apps[i].action, OurTarget)
    /\ UserApp(c) = {} /\ UserZone(c) => Route(config.rules, c) = ProfileTarget(c)

\* What the user's rules leave open, the provider's specific rules decide,
\* also those behind an early catch-all once the user has chosen a default;
\* the rest goes where the user said, or with Auto where the provider said.
ProviderRulesKept ==
  Running /\ config.kind = "full" => \A c \in Connections :
    UserApp(c) = {} /\ ~UserZone(c) =>
      LET theirs == origin[1].rules
          specific == WithoutTerminal(theirs)
      IN  Route(config.rules, c) =
            IF used.default = "auto" THEN Route(theirs, c)
            ELSE IF \E r \in Range(specific) : Hits(r, c) THEN Route(specific, c)
            ELSE ExplicitTarget(used, OurTarget)

\* A rule that the code writes names a way out that exists: the engine
\* refuses a configuration with any other.
OurTargetsExist ==
  Running => \A r \in Range(config.rules) :
    \/ r.target \in {"DIRECT", "REJECT", "GLOBAL"} \cup Range(config.groups)
    \/ config.kind = "full" /\ r \in Range(origin[1].rules)

\* The rules of the code, the user and the provider in one list that means
\* what each of them meant.
RulesInOrder == UserRulesWin /\ ProviderRulesKept /\ OurTargetsExist

Asked(name) == [app |-> None, dst |-> name]

\* The first rule of the user for the process sends it through the proxy.
ProxiedApp(c) ==
  \E i \in UserApp(c) :
    used.apps[i].action = "proxy" /\ \A j \in UserApp(c) : i <= j

ToldAtHome(c) == c.dst \in Names /\ InZones(config.dns.policy, c.dst)

\* Where the traffic goes, there its name is resolved (build_dns): a connection to
\* a name that the domestic resolver is told goes direct or nowhere, whatever the
\* provider's and the profile's rules say; only the user's own rule for the
\* process, of which the resolver knows nothing, can send it through the proxy.
ProxiedNamesStayRemote ==
  Running => \A c \in Connections :
    ToldAtHome(c) /\ ~ProxiedApp(c) => Route(config.rules, c) \in {"DIRECT", "REJECT"}

Zoned(p, forms) == {n \in Names : \E e \in Range(p.direct) : e.form \in forms /\ Covers(e, Asked(n))}

\* A zone that goes direct has the domestic resolver, if there is one, and
\* under fake-ip its real address.
DirectZonesResolveAtHome ==
  Running /\ used.profile # None =>
    \A n \in Zoned(used.profile, {"geosite", "star", "domain", "dotted"}) :
      /\ used.profile.domestic # None => Resolver(config.dns, n) = used.profile.domestic
      /\ config.dns.fake => InZones(config.dns.realIn, n)

\* A name is resolved on the side its traffic goes to, rules of processes apart.
NamesFollowTraffic == ProxiedNamesStayRemote /\ DirectZonesResolveAtHome

\* "проксируемые домены резолвятся ВНУТРИ туннеля (провайдер/DPI не видит их)"
\* (build_dns): no connection that leaves through the proxy is to a name that the
\* domestic resolver is told.
ProxiedNamesUnseen ==
  Running => \A c \in Connections :
    ToldAtHome(c) => Route(config.rules, c) \in {"DIRECT", "REJECT"}

\* build_dns: the profile's resolver comes before the anti-DPI one.
ProfileDnsFirst ==
  Running /\ used.custom = None /\ Remote(used.profile) # None
    => config.dns.nameserver = Remote(used.profile)

\* patch_full_yaml keeps the provider's dns and hosts.
ProviderDnsKept ==
  Running /\ config.kind = "full" =>
    /\ "hosts" \in origin[1].extras => "hosts" \in config.extras
    /\ used.custom = None /\ used.dpi = None
         => config.dns.nameserver = origin[1].dns.nameserver

\* dns_policy_keys: only keyword and bare-word entries have no zone.
DirectRegexResolvesAtHome ==
  Running /\ used.profile # None /\ used.profile.domestic # None =>
    \A n \in Zoned(used.profile, {"regex"}) :
      Resolver(config.dns, n) = used.profile.domestic

\* Connections that no rule of user or provider speaks of do not go direct
\* under a strict kill switch (connect refuses the combination).
StrictNeverDefaultsToDirect ==
  Running /\ used.strict => \A c \in Connections :
    (\A r \in Range(config.rules) : NotTerminal(r) => ~Hits(r, c))
      => Route(config.rules, c) # "DIRECT"

\* builtin_tun_mapping: with the adapter, the local ranges have their DIRECT
\* rules, unless a rule of the user says otherwise.
LocalGoesDirect ==
  Running /\ config.tun = "ours" => \A c \in Connections :
    c.dst \in Nets["local"] /\ UserApp(c) = {} /\ ~UserZone(c)
      => Route(config.rules, c) = "DIRECT"
=============================================================================
