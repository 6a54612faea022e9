--------------------------- MODULE MCMihomoConfig ---------------------------
(* Instances of MihomoConfig for TLC. *)
EXTENDS MihomoConfig

\* a.ru and mail.a.ru, foreign names of one site.
MCNames == {<<"a", "ru">>, <<"mail", "a", "ru">>, <<"video", "com">>, <<"ads", "video", "com">>,
            <<"live", "video", "com">>}
MCHosts == {<<"ip", "10.0.0.5">>, <<"ip", "77.88.8.8">>, <<"ip", "8.8.4.4">>}
MCApps == {"browser", "game"}
MCGeoSites == [ru |-> {<<"a", "ru">>, <<"mail", "a", "ru">>}, ads |-> {<<"ads", "video", "com">>}]
MCNets == [local |-> {<<"ip", "10.0.0.5">>}, ru |-> {<<"ip", "77.88.8.8">>}]

E_(form, arg) == [form |-> form, arg |-> arg]
Profile(block, direct, proxy, domestic, remote, fake, global) ==
  [block |-> block, direct |-> direct, proxy |-> proxy, domestic |-> domestic,
   remote |-> remote, remoteIp |-> IF fake THEN "9.9.9.9" ELSE None, hosts |-> {},
   fake |-> fake, globalProxy |-> global]

\* minimal_ru; one that contradicts itself; one with every form of a name.
MCProfiles ==
  {None,
   Profile(<<E_("geosite", <<"ads">>)>>, <<E_("geosite", <<"ru">>), E_("geoip", <<"ru">>), E_("cidr", <<"local">>)>>,
           <<>>, None, None, FALSE, TRUE),
   Profile(<<E_("keyword", <<"ads">>)>>, <<E_("domain", <<"video", "com">>), E_("star", <<"ru">>)>>,
           <<E_("word", <<"video">>), E_("address", <<"local">>), E_("dotted", <<"mail", "a", "ru">>)>>,
           "77.88.8.1", "https://dns", TRUE, FALSE),
   Profile(<<E_("keyword", <<"mail">>)>>, <<E_("regex", <<"video">>), E_("dotted", <<"a", "ru">>)>>,
           <<E_("geosite", <<"ru">>)>>, "77.88.8.1", None, FALSE, TRUE)}

Doc(kind, groups, rules, flaw, extras, probe, tcp, geodata) ==
  [kind |-> kind, groups |-> groups, rules |-> rules, flaw |-> flaw, extras |-> extras,
   probe |-> probe, paths |-> IF probe = None THEN None ELSE "theirs", tcp |-> tcp,
   geodata |-> geodata, log |-> IF kind = "full" THEN "silent" ELSE "info",
   ipv6 |-> kind = "full", tun |-> IF kind = "full" THEN "theirs" ELSE "off", process |-> FALSE,
   inbound |-> [listen |-> "lan", auth |-> None, port |-> "theirs", controller |-> "theirs"],
   dns |-> [nameserver |-> "theirs", bootstrap |-> "theirs", domestic |-> None, policy |-> {},
            fake |-> FALSE, realIn |-> {}, hosts |-> {}, ipv6 |-> TRUE]]

M(t) == Rule("match", <<>>, t)
MCDocs ==
  {Doc("uri", <<>>, <<>>, None, {}, None, None, None),
   Doc("full", <<"AUTO", "BEST">>, <<Rule("geosite", <<"ru">>, "DIRECT"), Rule("process", <<"game">>, "BEST"), M("BEST")>>,
       None, {"listeners", "hosts", "port", "keep-alive-interval"}, "theirs", FALSE, "mmdb"),
   \* a catch-all in the middle, whose target is no group
   Doc("full", <<"AUTO">>, <<Rule("suffix", <<"com">>, "AUTO"), M("DIRECT"), Rule("net", <<"ru">>, "REJECT")>>,
       None, {"hosts"}, None, None, None),
   Doc("full", <<>>, <<Rule("keyword", <<"a">>, "NODE"), M("NODE")>>, None, {}, None, TRUE, None),
   Doc("full", <<"AUTO">>, <<>>, None, {}, None, None, None),
   Doc("full", <<"AUTO">>, <<M("AUTO")>>, "script rule", {}, None, None, None)}

A(exe, action) == [exe |-> exe, action |-> action]
MCAppLists == {<<>>, <<A("game", "direct"), A("browser", "proxy")>>, <<A("game", "block"), A("game", "proxy")>>}

\* Settings that do not touch each other in the code vary together.
MCSettings ==
  {[apps |-> a, profile |-> p, default |-> d, tun |-> t, lan |-> l, ipv6 |-> l,
    custom |-> c, dpi |-> x, strict |-> t]
     : a \in MCAppLists, p \in MCProfiles, d \in {"auto", "vpn", "direct"}, t \in BOOLEAN,
       l \in BOOLEAN, c \in {None, "mydns"}, x \in {None, "https://doh"}}
=============================================================================
