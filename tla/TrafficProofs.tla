--------------------------- MODULE TrafficProofs ---------------------------
(***************************************************************************)
(* Where traffic may go: the rules and resolvers of every configuration    *)
(* the engine is given, and the filters of the kill switch around it, for  *)
(* every profile, every setting, every address and every set of servers.   *)
(*                                                                         *)
(* Five parts about the configuration: the first rule that hits; the       *)
(* documents, key by key, and what the cache keeps of them; the rules of   *)
(* the user; the whole list; the names.  Three about the filters: the      *)
(* octets of an address against a range and against is_public_ip; the      *)
(* reasons for which a filter can match, and the verdict that follows; the *)
(* transaction, whose filters come into force all at once or not at all.   *)
(***************************************************************************)
EXTENDS MihomoConfig, KillSwitchFilters, SequenceTheorems, FiniteSetTheorems,
        WellFoundedInduction, TLAPS

-----------------------------------------------------------------------------
(* The first rule that hits.                                               *)

\* Of any natural numbers one is the least.
LEMMA Least ==
  ASSUME NEW S \in SUBSET Nat, S # {}
  PROVE  \E m \in S : \A n \in S : m <= n
<1>1. PICK m \in S : \A n \in S : <<n, m>> \notin OpToRel(<, Nat)
  BY NatLessThanWellFounded, WFMin, Zenon
<1>2. \A n \in S : ~(n < m)
  BY <1>1, Zenon DEF OpToRel
<1> QED BY <1>2

\* The rule that decides about c.
IsFirst(rules, c, i) ==
  /\ i \in DOMAIN rules /\ Hits(rules[i], c)
  /\ \A j \in DOMAIN rules : Hits(rules[j], c) => i <= j

\* The first rule that hits names the way out.
LEMMA FirstDecides ==
  ASSUME NEW rules, DOMAIN rules \in SUBSET Nat, NEW c, NEW i, IsFirst(rules, c, i)
  PROVE  Route(rules, c) = rules[i].target
<1> DEFINE hit == {k \in DOMAIN rules : Hits(rules[k], c)}
           Low(k) == k \in hit /\ \A j \in hit : k <= j
<1>1. Low(i) /\ hit # {}
  BY Zenon DEF IsFirst
<1>2. ASSUME NEW k, Low(k) PROVE k = i
  BY <1>1, <1>2
<1>3. (CHOOSE k \in hit : \A j \in hit : k <= j) = i
  <2> HIDE DEF hit
  <2> QED BY <1>1, <1>2
<1>4. Route(rules, c) = rules[CHOOSE k \in hit : \A j \in hit : k <= j].target
  BY <1>1, Zenon DEF Route
<1> QED BY <1>3, <1>4

\* Where some rule hits, one is the first.
LEMMA FirstExists ==
  ASSUME NEW rules, DOMAIN rules \in SUBSET Nat, NEW c,
         NEW k \in DOMAIN rules, Hits(rules[k], c)
  PROVE  \E i : IsFirst(rules, c, i) /\ i <= k
<1> DEFINE hit == {j \in DOMAIN rules : Hits(rules[j], c)}
<1>1. hit \in SUBSET Nat /\ k \in hit
  BY Zenon
<1>2. \E m \in hit : \A n \in hit : m <= n
  <2> HIDE DEF hit
  <2> QED BY <1>1, Least
<1>3. PICK m \in hit : \A n \in hit : m <= n
  BY <1>2
<1>4. IsFirst(rules, c, m) /\ m <= k
  BY <1>1, <1>3, Zenon DEF IsFirst
<1> QED BY <1>4

\* Where none does, the connection goes direct.
LEMMA NoHit ==
  ASSUME NEW rules, NEW c, \A i \in DOMAIN rules : ~Hits(rules[i], c)
  PROVE  Route(rules, c) = "DIRECT"
<1>1. {i \in DOMAIN rules : Hits(rules[i], c)} = {}
  BY Zenon
<1> QED BY <1>1, Zenon DEF Route

-----------------------------------------------------------------------------
(* Documents, key by key.                                                  *)

\* The keys of a document.
Keys == {"kind", "groups", "rules", "flaw", "extras", "probe", "paths", "tcp", "geodata", "log",
         "ipv6", "tun", "process", "inbound", "dns"}

\* A document, whatever its keys hold.
Shaped(d) == d = [x \in Keys |-> d[x]] /\ d.rules \in Seq(Rules)

\* What subscriptions deliver has all of them.
LEMMA DocumentsAreShaped == \A d \in Documents : Shaped(d)
  BY DEF Documents, Shaped, Keys

\* Two documents with the same rules and groups have the same way out.
LEMMA SameTarget ==
  ASSUME NEW a, NEW b, a.rules = b.rules, a.groups = b.groups
  PROVE  ProxyTarget(a) = ProxyTarget(b)
  BY SMT DEF ProxyTarget

\* sanitize_full_profile, key by key.
LEMMA SanitizedFields ==
  ASSUME NEW d, Shaped(d), NEW s
  PROVE  LET p == Sanitized(d, s) IN
         /\ p.kind = d.kind /\ p.groups = d.groups /\ p.rules = d.rules /\ p.flaw = d.flaw
         /\ p.extras = d.extras \ RemovedKeys
         /\ p.log = "warning" /\ p.ipv6 = s.ipv6 /\ p.process = (s.apps # <<>>)
         /\ p.probe = (IF d.probe = None THEN None ELSE "ours")
         /\ p.paths = (IF d.paths = None THEN None ELSE "ours")
         /\ p.dns = BuildDns(s) /\ p.tun = (IF s.tun THEN "ours" ELSE "off")
         /\ p.geodata = d.geodata /\ p.tcp = d.tcp /\ p.inbound = d.inbound
         /\ DOMAIN p = DOMAIN d
<1>1. DOMAIN d = Keys
  BY DEF Shaped
<1> QED BY <1>1 DEF Sanitized, Keys

\* What patch_full_yaml makes of the keys of d.
IsPatchOf(p, d, s) ==
  /\ p.kind = d.kind /\ p.groups = d.groups /\ p.flaw = d.flaw
  /\ p.rules = WithDefault(UserRules(s, ProxyTarget(d)) \o d.rules, s, ProxyTarget(d))
  /\ p.extras = d.extras \ RemovedKeys
  /\ p.log = "warning" /\ p.ipv6 = s.ipv6 /\ p.process = (s.apps # <<>>)
  /\ p.probe = (IF d.probe = None THEN None ELSE "ours")
  /\ p.paths = (IF d.paths = None THEN None ELSE "ours")
  /\ p.dns = PatchDns(BuildDns(s), s) /\ p.tun = (IF s.tun THEN "ours" ELSE "off")
  /\ p.geodata = (IF d.geodata = None /\ s.profile # None THEN "dat" ELSE d.geodata)
  /\ p.tcp = (IF d.tcp = None THEN TRUE ELSE d.tcp)
  /\ p.inbound = Inbound(s)
  /\ p = [x \in Keys |-> p[x]]

\* patch_full_yaml, key by key.
LEMMA PatchedFields ==
  ASSUME NEW d, Shaped(d), NEW s
  PROVE  IsPatchOf(PatchFull(d, s), d, s)
<1> DEFINE clean == Sanitized(d, s)
           p == PatchFull(d, s)
<1>1. /\ clean.kind = d.kind /\ clean.groups = d.groups /\ clean.rules = d.rules
      /\ clean.flaw = d.flaw /\ clean.extras = d.extras \ RemovedKeys /\ clean.log = "warning"
      /\ clean.ipv6 = s.ipv6 /\ clean.process = (s.apps # <<>>)
      /\ clean.probe = (IF d.probe = None THEN None ELSE "ours")
      /\ clean.paths = (IF d.paths = None THEN None ELSE "ours")
      /\ clean.dns = BuildDns(s) /\ clean.tun = (IF s.tun THEN "ours" ELSE "off")
      /\ clean.geodata = d.geodata /\ clean.tcp = d.tcp
      /\ DOMAIN clean = DOMAIN d
  BY SanitizedFields
<1>2. DOMAIN d = Keys
  BY DEF Shaped
<1>3. ProxyTarget(clean) = ProxyTarget(d)
  <2> HIDE DEF clean
  <2> QED BY <1>1, SameTarget
<1> DEFINE target == ProxyTarget(d)
           dns == PatchDns(clean.dns, s)
           rules == WithDefault(UserRules(s, target) \o clean.rules, s, target)
           geodata == IF clean.geodata = None /\ s.profile # None THEN "dat" ELSE clean.geodata
           tcp == IF clean.tcp = None THEN TRUE ELSE clean.tcp
<1>4. p = [clean EXCEPT !.inbound = Inbound(s), !.dns = dns, !.rules = rules,
                        !.geodata = geodata, !.tcp = tcp]
  BY <1>3 DEF PatchFull
<1>5. clean = [x \in DOMAIN clean |-> clean[x]]
  BY DEF Sanitized
<1> HIDE DEF clean, dns, rules, geodata, tcp, target, p
<1>6. /\ p.kind = clean.kind /\ p.groups = clean.groups /\ p.flaw = clean.flaw /\ p.rules = rules
      /\ p.extras = clean.extras /\ p.log = clean.log /\ p.ipv6 = clean.ipv6
      /\ p.process = clean.process /\ p.probe = clean.probe /\ p.paths = clean.paths
      /\ p.dns = dns /\ p.tun = clean.tun /\ p.geodata = geodata /\ p.tcp = tcp
      /\ p.inbound = Inbound(s) /\ p = [x \in Keys |-> p[x]]
  BY <1>1, <1>2, <1>4, <1>5 DEF Keys
<1>7. rules = WithDefault(UserRules(s, ProxyTarget(d)) \o d.rules, s, ProxyTarget(d))
  BY <1>1 DEF rules, target
<1>8. dns = PatchDns(BuildDns(s), s)
  BY <1>1 DEF dns
<1>9. geodata = (IF d.geodata = None /\ s.profile # None THEN "dat" ELSE d.geodata)
  BY <1>1 DEF geodata
<1>10. tcp = (IF d.tcp = None THEN TRUE ELSE d.tcp)
  BY <1>1 DEF tcp
<1> QED BY <1>1, <1>6, <1>7, <1>8, <1>9, <1>10, Zenon DEF IsPatchOf, p

\* The neutral settings add no rule.
LEMMA NeutralRules == \A target : UserRules(Neutral, target) = <<>>
<1> SUFFICES ASSUME NEW target PROVE UserRules(Neutral, target) = <<>>
  OBVIOUS
<1>1. AppRules(Neutral, target) = <<>>
  BY DEF AppRules, Neutral
<1>2. UserRules(Neutral, target) = <<>> \o <<>>
  BY <1>1 DEF UserRules, Neutral
<1> QED BY <1>2

\* What the code writes is a value.
LEMMA Sentinel == "ours" # None /\ "dat" # None /\ TRUE # None /\ FALSE # None
<1>1. "ours" # None /\ "dat" # None
  BY NoneIsNoValue
<1>2. TRUE \in BOOLEAN /\ FALSE \in BOOLEAN
  OBVIOUS
<1>3. None \notin BOOLEAN
  BY NoneIsNoValue
<1> QED BY <1>1, <1>2, <1>3, Zenon

\* What the neutral patch keeps of a document is what every patch reads.
LEMMA PatchAfterNeutral ==
  ASSUME NEW d, Shaped(d), NEW s
  PROVE  PatchFull(PatchFull(d, Neutral), s) = PatchFull(d, s)
<1> DEFINE n == PatchFull(d, Neutral)
           p == PatchFull(n, s)
           q == PatchFull(d, s)
<1>1. IsPatchOf(n, d, Neutral) /\ IsPatchOf(q, d, s)
  BY PatchedFields
<1>2. d.rules \in Seq(Rules)
  BY DEF Shaped
<1>3. WithDefault(UserRules(Neutral, ProxyTarget(d)) \o d.rules, Neutral, ProxyTarget(d)) = d.rules
  <2>1. Neutral.default = "auto"
    BY DEF Neutral
  <2>2. UserRules(Neutral, ProxyTarget(d)) = <<>>
    BY NeutralRules
  <2>3. <<>> \o d.rules = d.rules
    BY <1>2, ConcatEmptySeq
  <2> QED BY <2>1, <2>2, <2>3 DEF WithDefault
<1> HIDE DEF n, q
<1>4. /\ n.rules = d.rules /\ n.groups = d.groups /\ n.kind = d.kind /\ n.flaw = d.flaw
      /\ Shaped(n)
  BY <1>1, <1>2, <1>3 DEF IsPatchOf, Shaped
<1>a. IsPatchOf(p, n, s)
  BY <1>4, PatchedFields
<1> HIDE DEF p
<1>5. n.geodata = d.geodata
  <2>1. Neutral.profile = None
    BY DEF Neutral
  <2> QED BY <1>1, <2>1 DEF IsPatchOf
<1>6. ProxyTarget(n) = ProxyTarget(d)
  BY <1>4, SameTarget
<1>7. p.kind = q.kind /\ p.groups = q.groups /\ p.flaw = q.flaw /\ p.rules = q.rules
  BY <1>1, <1>a, <1>4, <1>6, Zenon DEF IsPatchOf
<1>e. p.extras = q.extras
  <2>1. p.extras = (d.extras \ RemovedKeys) \ RemovedKeys /\ q.extras = d.extras \ RemovedKeys
    BY <1>1, <1>a, Zenon DEF IsPatchOf
  <2> QED BY <2>1
<1>8. /\ p.log = q.log /\ p.ipv6 = q.ipv6 /\ p.process = q.process
      /\ p.dns = q.dns /\ p.tun = q.tun /\ p.inbound = q.inbound
  BY <1>1, <1>a, Zenon DEF IsPatchOf
<1>9. p.probe = q.probe /\ p.paths = q.paths
  BY <1>1, <1>a, Sentinel, Zenon DEF IsPatchOf
<1>10. p.tcp = q.tcp /\ p.geodata = q.geodata
  BY <1>1, <1>a, <1>5, Sentinel, Zenon DEF IsPatchOf
<1>11. \A x \in Keys : p[x] = q[x]
  BY <1>7, <1>e, <1>8, <1>9, <1>10 DEF Keys
<1>12. p = [x \in Keys |-> p[x]] /\ q = [x \in Keys |-> q[x]]
  BY <1>1, <1>a, Zenon DEF IsPatchOf
<1>13. p = q
  BY <1>11, <1>12
<1> QED BY <1>13 DEF p, q, n

-----------------------------------------------------------------------------
(* The cache, and the two ways a configuration is made.                    *)

\* What is in memory was fetched, or came back from the cache.
FromDocument(d, o) == d = o \/ (o \in Docs /\ Accepts(o) /\ d = ForCache(o))

ConfigInv ==
  /\ origin \in OrNone(Docs) \X OrNone(Docs)
  /\ FromDocument(source, origin[1])
  /\ cache # None => origin[2] \in Docs /\ Accepts(origin[2]) /\ cache = ForCache(origin[2])
  /\ Running => /\ origin[1] \in Docs /\ Accepts(origin[1]) /\ used \in Settings
                /\ config = Generate(origin[1], used)

\* Sanitising is idempotent, and no setting tells its result from the original.
LEMMA CacheReads ==
  ASSUME NEW d \in Docs
  PROVE  /\ ForCache(ForCache(d)) = ForCache(d)
         /\ Accepts(ForCache(d)) <=> Accepts(d)
         /\ \A s : Generate(ForCache(d), s) = Generate(d, s)
<1>1. Shaped(d)
  BY DocsAreDocuments, DocumentsAreShaped
<1>2. CASE d.kind = "full"
  <2> DEFINE n == PatchFull(d, Neutral)
  <2>1. n.kind = "full" /\ n.flaw = d.flaw
    <3>1. IsPatchOf(n, d, Neutral)
      BY <1>1, PatchedFields
    <3> HIDE DEF n
    <3> QED BY <1>2, <3>1, Zenon DEF IsPatchOf
  <2>2. \A s : PatchFull(n, s) = PatchFull(d, s)
    BY <1>1, PatchAfterNeutral
  <2>3. ForCache(d) = n
    BY <1>2 DEF ForCache
  <2> HIDE DEF n
  <2>4. ForCache(n) = PatchFull(n, Neutral)
    BY <2>1 DEF ForCache
  <2>5. PatchFull(n, Neutral) = n
    BY <2>2 DEF n
  <2>6. \A s : Generate(n, s) = PatchFull(n, s) /\ Generate(d, s) = PatchFull(d, s)
    BY <1>2, <2>1 DEF Generate
  <2> QED BY <2>1, <2>2, <2>3, <2>4, <2>5, <2>6 DEF Accepts
<1>3. CASE d.kind # "full"
  BY <1>3 DEF ForCache
<1> QED BY <1>2, <1>3

\* Every step keeps the invariant.
LEMMA ConfigInvKept == ConfigInv /\ [Next]_vars => ConfigInv'
<1> SUFFICES ASSUME ConfigInv, [Next]_vars PROVE ConfigInv'
  OBVIOUS
<1>1. ASSUME NEW d \in Docs, Fetch(d) PROVE ConfigInv'
  BY <1>1 DEF Fetch, ConfigInv, FromDocument, Running, OrNone
<1>2. ASSUME Save PROVE ConfigInv'
  <2>1. origin[1] \in Docs /\ Accepts(origin[1]) /\ ForCache(source) = ForCache(origin[1])
    BY <1>2, CacheReads DEF Save, ConfigInv, FromDocument, OrNone
  <2> QED BY <1>2, <2>1 DEF Save, ConfigInv, FromDocument, Running, OrNone
<1>3. ASSUME Restart PROVE ConfigInv'
  <2>1. origin[2] \in Docs /\ Accepts(origin[2]) /\ ForCache(cache) = ForCache(origin[2])
    BY <1>3, CacheReads DEF Restart, ConfigInv
  <2> QED BY <1>3, <2>1 DEF Restart, ConfigInv, FromDocument, Running, OrNone
<1>4. ASSUME NEW s \in Settings, Connect(s) PROVE ConfigInv'
  <2>1. origin[1] \in Docs /\ Accepts(origin[1]) /\ Generate(source, s) = Generate(origin[1], s)
    BY <1>4, CacheReads DEF Connect, ConfigInv, FromDocument, OrNone
  <2> QED BY <1>4, <2>1 DEF Connect, ConfigInv, FromDocument, Running, OrNone
<1>5. ASSUME Disconnect PROVE ConfigInv'
  BY <1>5 DEF Disconnect, ConfigInv, FromDocument, Running
<1>6. CASE UNCHANGED vars
  BY <1>6 DEF vars, ConfigInv, FromDocument, Running
<1> QED BY <1>1, <1>2, <1>3, <1>4, <1>5, <1>6 DEF Next

\* It always holds.
LEMMA ConfigAlways == Spec => []ConfigInv
<1>1. Init => ConfigInv
  BY DEF Init, ConfigInv, FromDocument, Running, OrNone
<1> QED BY <1>1, ConfigInvKept, PTL DEF Spec

\* sanitize_servers_for_cache loses nothing that a connection needs, for every
\* document and every setting: after any number of saves and restarts the
\* configuration is the one the fetched document gives.
THEOREM CacheIsAsGood == Spec => []CacheDoesNotChangeTheConnection
<1>1. ConfigInv => CacheDoesNotChangeTheConnection
  BY DEF ConfigInv, CacheDoesNotChangeTheConnection
<1> QED BY <1>1, ConfigAlways, PTL

\* The keys of what build makes.
BuildFields(p, d, s) ==
  /\ p.kind = d.kind /\ p.flaw = d.flaw /\ p.extras = d.extras
  /\ p.groups = <<"PROXY">>
  /\ p.rules = UserRules(s, "PROXY") \o LocalRules \o <<Rule("match", <<>>, UriDefault(s))>>
  /\ p.dns = BuildDns(s) /\ p.inbound = Inbound(s)
  /\ p.log = "info" /\ p.ipv6 = s.ipv6
  /\ p.tun = (IF s.tun THEN "ours" ELSE "off") /\ p.process = (s.apps # <<>>)
  /\ p.probe = d.probe /\ p.paths = d.paths

\* build, key by key.
LEMMA BuiltFields ==
  ASSUME NEW d, Shaped(d), NEW s
  PROVE  BuildFields(Build(d, s), d, s)
<1>1. DOMAIN d = Keys
  BY DEF Shaped
<1> DEFINE groups == <<"PROXY">>
           rules == UserRules(s, "PROXY") \o LocalRules \o <<Rule("match", <<>>, UriDefault(s))>>
           dns == BuildDns(s)
           inbound == Inbound(s)
           tun == IF s.tun THEN "ours" ELSE "off"
           process == s.apps # <<>>
           p == Build(d, s)
<1>2. p = [d EXCEPT !.groups = groups, !.rules = rules, !.dns = dns, !.inbound = inbound,
                    !.log = "info", !.ipv6 = s.ipv6, !.tun = tun, !.process = process,
                    !.tcp = TRUE, !.geodata = "dat"]
  BY DEF Build
<1> HIDE DEF groups, rules, dns, inbound, tun, process, p
<1>3. /\ p.kind = d.kind /\ p.flaw = d.flaw /\ p.extras = d.extras
      /\ p.groups = groups /\ p.rules = rules /\ p.dns = dns /\ p.inbound = inbound
      /\ p.log = "info" /\ p.ipv6 = s.ipv6 /\ p.tun = tun /\ p.process = process
      /\ p.probe = d.probe /\ p.paths = d.paths
  BY <1>1, <1>2 DEF Keys
<1> QED BY <1>3 DEF BuildFields, groups, rules, dns, inbound, tun, process, p

\* The two ways a configuration is made.
LEMMA TwoPaths ==
  ASSUME ConfigInv, Running
  PROVE  /\ origin[1] \in Documents /\ used \in Options /\ origin[1].flaw = None
         /\ \/ /\ origin[1].kind = "full" /\ config.kind = "full"
               /\ IsPatchOf(config, origin[1], used)
            \/ /\ origin[1].kind = "uri" /\ config.kind = "uri" /\ Plain(origin[1])
               /\ BuildFields(config, origin[1], used)
<1>1. /\ origin[1] \in Docs /\ Accepts(origin[1]) /\ used \in Settings
      /\ config = Generate(origin[1], used)
  BY DEF ConfigInv
<1>2. origin[1] \in Documents /\ used \in Options
  BY <1>1, DocsAreDocuments, SettingsAreOptions
<1>3. origin[1].flaw \in OrNone(Refusals) /\ origin[1].kind \in {"uri", "full"}
  BY <1>2 DEF Documents
<1>4. origin[1].flaw = None
  BY <1>1, <1>3 DEF Accepts, OrNone
<1>5. Shaped(origin[1])
  BY <1>2, DocumentsAreShaped
<1>6. CASE origin[1].kind = "full"
  <2>1. IsPatchOf(config, origin[1], used)
    BY <1>1, <1>5, <1>6, PatchedFields DEF Generate
  <2> QED BY <1>2, <1>4, <1>6, <2>1 DEF IsPatchOf
<1>7. CASE origin[1].kind = "uri"
  <2>1. BuildFields(config, origin[1], used)
    BY <1>1, <1>5, <1>7, BuiltFields DEF Generate
  <2> QED BY <1>1, <1>2, <1>4, <1>7, <2>1, DocsAreDocuments DEF BuildFields
<1> QED BY <1>3, <1>6, <1>7

-----------------------------------------------------------------------------
(* The rules of the user.                                                  *)

\* Specific rules with these ways out.
RulesTo(T) == [kind : RuleKinds \ {"match"}, arg : Seq(Word), target : T]

\* The parts of a list.
LEMMA Concat ==
  ASSUME NEW S, NEW a \in Seq(S), NEW b \in Seq(S)
  PROVE  /\ a \o b \in Seq(S)
         /\ Len(a) \in Nat /\ Len(b) \in Nat /\ Len(a \o b) = Len(a) + Len(b)
         /\ DOMAIN a = 1..Len(a) /\ DOMAIN b = 1..Len(b)
         /\ DOMAIN (a \o b) = 1..(Len(a) + Len(b))
         /\ \A i \in 1..Len(a) : (a \o b)[i] = a[i]
         /\ \A i \in 1..Len(b) : (a \o b)[Len(a) + i] = b[i]
  OBVIOUS

\* No entry becomes a catch-all.
LEMMA KindsOfForms == \A f \in Forms : KindOf(f) \in RuleKinds /\ KindOf(f) # "match"
  BY DEF Forms, KindOf, RuleKinds

\* An entry of a profile and its rule speak of the same connections.
LEMMA EntryHits ==
  ASSUME NEW e \in Entries, NEW t, NEW c
  PROVE  Hits(Rule(KindOf(e.form), e.arg, t), c) <=> Covers(e, c)
<1>1. e.form \in Forms
  BY DEF Entries
<1> QED BY <1>1 DEF Forms, KindOf, Hits, Rule, Covers

\* The rules of a list of entries, one by one.
LEMMA RulesOfEntries ==
  ASSUME NEW T, NEW t \in T, NEW es \in Seq(Entries)
  PROVE  /\ RulesOf(es, t) \in Seq(RulesTo(T)) /\ Len(RulesOf(es, t)) = Len(es)
         /\ \A i \in 1..Len(es) : RulesOf(es, t)[i] = Rule(KindOf(es[i].form), es[i].arg, t)
<1>0. \A i \in 1..Len(es) : es[i] \in Entries
  BY ElementOfSeq
<1>1. \A i \in 1..Len(es) : es[i].form \in Forms /\ es[i].arg \in Seq(Word)
  BY <1>0 DEF Entries
<1>2. \A i \in 1..Len(es) : Rule(KindOf(es[i].form), es[i].arg, t) \in RulesTo(T)
  BY <1>1, KindsOfForms DEF Rule, RulesTo
<1> QED BY <1>2 DEF RulesOf

\* The rules of the applications, one by one.
LEMMA RulesOfApps ==
  ASSUME NEW T, NEW t \in T, "DIRECT" \in T, "REJECT" \in T, NEW s \in Options
  PROVE  /\ AppRules(s, t) \in Seq(RulesTo(T)) /\ Len(AppRules(s, t)) = Len(s.apps)
         /\ DOMAIN s.apps = 1..Len(s.apps) /\ Len(s.apps) \in Nat
         /\ \A i \in 1..Len(s.apps) :
              /\ s.apps[i].exe \in Word
              /\ AppRules(s, t)[i] = Rule("process", <<s.apps[i].exe>>, AppTarget(s.apps[i].action, t))
<1>1. s.apps \in Seq([exe : Word, action : {"proxy", "direct", "block"}])
  BY DEF Options
<1>0. \A i \in 1..Len(s.apps) : s.apps[i] \in [exe : Word, action : {"proxy", "direct", "block"}]
  BY <1>1, ElementOfSeq
<1>2. \A i \in 1..Len(s.apps) : s.apps[i].exe \in Word
  BY <1>0
<1>3. \A i \in 1..Len(s.apps) :
        Rule("process", <<s.apps[i].exe>>, AppTarget(s.apps[i].action, t)) \in RulesTo(T)
  BY <1>2 DEF Rule, RulesTo, RuleKinds, AppTarget
<1>4. DOMAIN s.apps = 1..Len(s.apps) /\ Len(s.apps) \in Nat
  BY <1>1
<1> HIDE DEF RulesTo
<1>5. AppRules(s, t) \in Seq(RulesTo(T)) /\ Len(AppRules(s, t)) = Len(s.apps)
  BY <1>3, <1>4 DEF AppRules
<1> QED BY <1>2, <1>4, <1>5 DEF AppRules

-----------------------------------------------------------------------------
(* The way out of a list is that of its first part with a rule that hits. *)

\* Some rule of the list hits.
HitBy(rules, c) == \E i \in DOMAIN rules : Hits(rules[i], c)

\* What comes after a part that hits does not matter.
LEMMA HeadDecides ==
  ASSUME NEW rules, DOMAIN rules \in SUBSET Nat, NEW a, DOMAIN a \in SUBSET DOMAIN rules, NEW c,
         \A i \in DOMAIN a : rules[i] = a[i],
         \A j \in DOMAIN rules \ DOMAIN a : \A i \in DOMAIN a : i < j,
         HitBy(a, c)
  PROVE  HitBy(rules, c) /\ Route(rules, c) = Route(a, c)
<1>1. PICK i : IsFirst(a, c, i)
  BY FirstExists DEF HitBy
<1>2. IsFirst(rules, c, i)
  <2>1. i \in DOMAIN rules /\ Hits(rules[i], c)
    BY <1>1 DEF IsFirst
  <2>2. ASSUME NEW j \in DOMAIN rules, Hits(rules[j], c) PROVE i <= j
    <3>1. CASE j \in DOMAIN a
      BY <1>1, <2>2, <3>1 DEF IsFirst
    <3>2. CASE j \notin DOMAIN a
      BY <1>1, <3>2 DEF IsFirst
    <3> QED BY <3>1, <3>2
  <2> QED BY <2>1, <2>2 DEF IsFirst
<1>3. Route(a, c) = a[i].target /\ Route(rules, c) = rules[i].target
  BY <1>1, <1>2, FirstDecides
<1> QED BY <1>1, <1>2, <1>3 DEF IsFirst, HitBy

\* What comes before a part, and does not hit, does not matter either.
LEMMA TailDecides ==
  ASSUME NEW rules, DOMAIN rules \in SUBSET Nat, NEW b, DOMAIN b \in SUBSET Nat, NEW n \in Nat,
         NEW c,
         \A i \in DOMAIN b : n + i \in DOMAIN rules /\ rules[n + i] = b[i],
         \A j \in DOMAIN rules :
           Hits(rules[j], c) => \E i \in DOMAIN b : j = n + i
  PROVE  (HitBy(rules, c) <=> HitBy(b, c)) /\ Route(rules, c) = Route(b, c)
<1>1. CASE HitBy(b, c)
  <2>1. PICK i : IsFirst(b, c, i)
    BY <1>1, FirstExists DEF HitBy
  <2>2. IsFirst(rules, c, n + i)
    <3>1. n + i \in DOMAIN rules /\ Hits(rules[n + i], c)
      BY <2>1 DEF IsFirst
    <3>2. ASSUME NEW j \in DOMAIN rules, Hits(rules[j], c) PROVE n + i <= j
      <4>1. PICK k \in DOMAIN b : j = n + k
        BY <3>2
      <4>2. Hits(b[k], c)
        BY <3>2, <4>1
      <4>3. i <= k /\ i \in Nat /\ k \in Nat
        BY <2>1, <4>2 DEF IsFirst
      <4> QED BY <4>1, <4>3
    <3> QED BY <3>1, <3>2 DEF IsFirst
  <2>3. Route(b, c) = b[i].target /\ Route(rules, c) = rules[n + i].target
    BY <2>1, <2>2, FirstDecides
  <2> QED BY <1>1, <2>1, <2>2, <2>3 DEF IsFirst, HitBy
<1>2. CASE ~HitBy(b, c)
  <2>1. ~HitBy(rules, c)
    BY <1>2 DEF HitBy
  <2>2. Route(b, c) = "DIRECT" /\ Route(rules, c) = "DIRECT"
    BY <1>2, <2>1, NoHit DEF HitBy
  <2> QED BY <1>2, <2>1, <2>2
<1> QED BY <1>1, <1>2

\* Of two parts the first that hits decides.
LEMMA RouteOfConcat ==
  ASSUME NEW S, NEW a \in Seq(S), NEW b \in Seq(S), NEW c
  PROVE  /\ HitBy(a \o b, c) <=> HitBy(a, c) \/ HitBy(b, c)
         /\ Route(a \o b, c) = IF HitBy(a, c) THEN Route(a, c) ELSE Route(b, c)
<1> DEFINE r == a \o b
<1>1. /\ Len(a) \in Nat /\ Len(b) \in Nat
      /\ DOMAIN a = 1..Len(a) /\ DOMAIN b = 1..Len(b) /\ DOMAIN r = 1..(Len(a) + Len(b))
      /\ \A i \in 1..Len(a) : r[i] = a[i]
      /\ \A i \in 1..Len(b) : r[Len(a) + i] = b[i]
  BY Concat
<1> HIDE DEF r
<1>2. CASE HitBy(a, c)
  <2>1. DOMAIN r \in SUBSET Nat /\ DOMAIN a \in SUBSET DOMAIN r
    BY <1>1
  <2>2. \A j \in DOMAIN r \ DOMAIN a : \A i \in DOMAIN a : i < j
    BY <1>1
  <2>3. \A i \in DOMAIN a : r[i] = a[i]
    BY <1>1
  <2> QED BY <1>2, <2>1, <2>2, <2>3, HeadDecides DEF r
<1>3. CASE ~HitBy(a, c)
  <2>1. DOMAIN r \in SUBSET Nat /\ DOMAIN b \in SUBSET Nat
    BY <1>1
  <2>2. \A i \in DOMAIN b : Len(a) + i \in DOMAIN r /\ r[Len(a) + i] = b[i]
    BY <1>1
  <2>3. ASSUME NEW j \in DOMAIN r, Hits(r[j], c) PROVE \E i \in DOMAIN b : j = Len(a) + i
    <3>1. j \notin 1..Len(a)
      BY <1>1, <1>3, <2>3 DEF HitBy
    <3>2. j - Len(a) \in 1..Len(b) /\ j = Len(a) + (j - Len(a))
      BY <1>1, <3>1
    <3> QED BY <1>1, <3>2
  <2>4. (HitBy(r, c) <=> HitBy(b, c)) /\ Route(r, c) = Route(b, c)
    BY <1>1, <2>1, <2>2, <2>3, TailDecides
  <2> QED BY <1>3, <2>4 DEF r
<1> QED BY <1>2, <1>3

-----------------------------------------------------------------------------
(* What the rules of the user decide.                                      *)

\* A list of entries sends what it covers to its target.
LEMMA RouteOfEntries ==
  ASSUME NEW t, NEW es \in Seq(Entries), NEW c
  PROVE  /\ HitBy(RulesOf(es, t), c) <=> CoveredBy(es, c)
         /\ CoveredBy(es, c) => Route(RulesOf(es, t), c) = t
<1> DEFINE r == RulesOf(es, t)
<1>1. /\ DOMAIN r = 1..Len(es) /\ DOMAIN es = 1..Len(es) /\ Len(es) \in Nat
      /\ \A i \in 1..Len(es) : r[i] = Rule(KindOf(es[i].form), es[i].arg, t)
  BY DEF RulesOf
<1>2. \A i \in 1..Len(es) : es[i] \in Entries
  BY ElementOfSeq
<1> HIDE DEF r
<1>3. \A i \in 1..Len(es) : (Hits(r[i], c) <=> Covers(es[i], c)) /\ r[i].target = t
  <2> SUFFICES ASSUME NEW i \in 1..Len(es)
               PROVE  (Hits(r[i], c) <=> Covers(es[i], c)) /\ r[i].target = t
    OBVIOUS
  <2>1. r[i] = Rule(KindOf(es[i].form), es[i].arg, t) /\ es[i] \in Entries
    BY <1>1, <1>2
  <2>2. Rule(KindOf(es[i].form), es[i].arg, t).target = t
    BY DEF Rule
  <2> QED BY <2>1, <2>2, EntryHits
<1>4. HitBy(r, c) <=> CoveredBy(es, c)
  BY <1>1, <1>3, Zenon DEF HitBy, CoveredBy, Range
<1>5. ASSUME HitBy(r, c) PROVE Route(r, c) = t
  <2>1. DOMAIN r \in SUBSET Nat
    BY <1>1
  <2>2. PICK i : IsFirst(r, c, i)
    BY <1>5, <2>1, FirstExists DEF HitBy
  <2>3. Route(r, c) = r[i].target
    BY <2>1, <2>2, FirstDecides
  <2> QED BY <1>1, <1>3, <2>2, <2>3 DEF IsFirst
<1> QED BY <1>4, <1>5 DEF r

\* The rules of the settings for the process of c.
AppsOf(s, c) == {i \in DOMAIN s.apps : s.apps[i].exe = c.app}

\* A rule of a process speaks of that process only.
LEMMA AppHits ==
  ASSUME NEW x, NEW t, NEW c
  PROVE  /\ Hits(Rule("process", <<x>>, t), c) <=> x = c.app
         /\ Rule("process", <<x>>, t).target = t
  BY DEF Hits, Rule

\* The first rule of the process decides about it.
LEMMA RouteOfApps ==
  ASSUME NEW s \in Options, NEW t, NEW c
  PROVE  /\ HitBy(AppRules(s, t), c) <=> AppsOf(s, c) # {}
         /\ AppsOf(s, c) # {} =>
              \E i \in AppsOf(s, c) :
                /\ \A j \in AppsOf(s, c) : i <= j
                /\ Route(AppRules(s, t), c) = AppTarget(s.apps[i].action, t)
<1> DEFINE r == AppRules(s, t)
<1>1. s.apps \in Seq([exe : Word, action : {"proxy", "direct", "block"}])
  BY DEF Options
<1>2. DOMAIN s.apps = 1..Len(s.apps) /\ Len(s.apps) \in Nat
  BY <1>1
<1>3. /\ DOMAIN r = DOMAIN s.apps
      /\ \A i \in DOMAIN r :
           r[i] = Rule("process", <<s.apps[i].exe>>, AppTarget(s.apps[i].action, t))
  BY DEF AppRules
<1> HIDE DEF r
<1>4. \A i \in DOMAIN r : /\ Hits(r[i], c) <=> s.apps[i].exe = c.app
                          /\ r[i].target = AppTarget(s.apps[i].action, t)
  <2> SUFFICES ASSUME NEW i \in DOMAIN r
               PROVE  /\ Hits(r[i], c) <=> s.apps[i].exe = c.app
                      /\ r[i].target = AppTarget(s.apps[i].action, t)
    OBVIOUS
  <2>1. r[i] = Rule("process", <<s.apps[i].exe>>, AppTarget(s.apps[i].action, t))
    BY <1>3
  <2> QED BY <2>1, AppHits
<1>5. HitBy(r, c) <=> AppsOf(s, c) # {}
  BY <1>3, <1>4, Zenon DEF HitBy, AppsOf
<1>6. ASSUME HitBy(r, c)
      PROVE  \E i \in AppsOf(s, c) :
               /\ \A j \in AppsOf(s, c) : i <= j
               /\ Route(r, c) = AppTarget(s.apps[i].action, t)
  <2>1. DOMAIN r \in SUBSET Nat
    BY <1>2, <1>3
  <2>2. PICK i : IsFirst(r, c, i)
    BY <1>6, <2>1, FirstExists DEF HitBy
  <2>3. Route(r, c) = r[i].target
    BY <2>1, <2>2, FirstDecides
  <2>4. i \in AppsOf(s, c) /\ \A j \in AppsOf(s, c) : i <= j
    BY <1>3, <1>4, <2>2 DEF IsFirst, AppsOf
  <2>5. Route(r, c) = AppTarget(s.apps[i].action, t)
    BY <1>4, <2>2, <2>3 DEF IsFirst
  <2> QED BY <2>4, <2>5
<1> QED BY <1>5, <1>6 DEF r

\* The profile of the settings speaks of c.
ZoneOf(s, c) == /\ s.profile # None
                /\ \/ CoveredBy(s.profile.block, c)
                   \/ CoveredBy(s.profile.direct, c)
                   \/ CoveredBy(s.profile.proxy, c)

\* Block over direct over proxy.
TargetIn(p, c, t) ==
  IF CoveredBy(p.block, c) THEN "REJECT" ELSE IF CoveredBy(p.direct, c) THEN "DIRECT" ELSE t

\* The three lists of a profile.
LEMMA ProfileParts ==
  ASSUME NEW s \in Options, s.profile # None
  PROVE  /\ s.profile.block \in Seq(Entries) /\ s.profile.direct \in Seq(Entries)
         /\ s.profile.proxy \in Seq(Entries)
<1>1. s.profile \in Profiles
  BY DEF Options, OrNone
<1> QED BY <1>1 DEF Profiles

\* The rules of the user are specific.
LEMMA UserRulesTyped ==
  ASSUME NEW T, NEW t \in T, "DIRECT" \in T, "REJECT" \in T, NEW s \in Options
  PROVE  UserRules(s, t) \in Seq(RulesTo(T))
<1>1. AppRules(s, t) \in Seq(RulesTo(T))
  BY RulesOfApps
<1>2. CASE s.profile = None
  <2>1. UserRules(s, t) = AppRules(s, t) \o <<>>
    BY <1>2 DEF UserRules
  <2> QED BY <1>1, <2>1, ConcatEmptySeq
<1>3. CASE s.profile # None
  <2> DEFINE b == RulesOf(s.profile.block, "REJECT")
             d == RulesOf(s.profile.direct, "DIRECT")
             q == RulesOf(s.profile.proxy, t)
  <2>1. b \in Seq(RulesTo(T)) /\ d \in Seq(RulesTo(T)) /\ q \in Seq(RulesTo(T))
    BY <1>3, ProfileParts, RulesOfEntries
  <2>2. UserRules(s, t) = AppRules(s, t) \o ((b \o d) \o q)
    BY <1>3 DEF UserRules, ProfileRules
  <2> HIDE DEF b, d, q
  <2>3. b \o d \in Seq(RulesTo(T))
    BY <2>1, Concat
  <2>4. (b \o d) \o q \in Seq(RulesTo(T))
    BY <2>1, <2>3, Concat
  <2> QED BY <1>1, <2>2, <2>4, Concat
<1> QED BY <1>2, <1>3

\* The rules of the user mean what the settings say.
LEMMA RouteOfUserRules ==
  ASSUME NEW s \in Options, NEW t, NEW c
  PROVE  /\ HitBy(UserRules(s, t), c) <=> AppsOf(s, c) # {} \/ ZoneOf(s, c)
         /\ AppsOf(s, c) # {} => Route(UserRules(s, t), c) = Route(AppRules(s, t), c)
         /\ AppsOf(s, c) = {} /\ ZoneOf(s, c)
              => Route(UserRules(s, t), c) = TargetIn(s.profile, c, t)
<1> DEFINE T == {t, "DIRECT", "REJECT"}
           a == AppRules(s, t)
<1>1. t \in T /\ "DIRECT" \in T /\ "REJECT" \in T
  OBVIOUS
<1> HIDE DEF T
<1>2. a \in Seq(RulesTo(T))
  BY <1>1, RulesOfApps
<1>3. HitBy(a, c) <=> AppsOf(s, c) # {}
  BY RouteOfApps
<1> HIDE DEF a
<1>4. CASE s.profile = None
  <2>1. UserRules(s, t) = a \o <<>>
    BY <1>4 DEF UserRules, a
  <2>2. UserRules(s, t) = a
    BY <1>2, <2>1, ConcatEmptySeq
  <2> QED BY <1>3, <1>4, <2>2 DEF ZoneOf, a
<1>5. CASE s.profile # None
  <2> DEFINE b == RulesOf(s.profile.block, "REJECT")
             d == RulesOf(s.profile.direct, "DIRECT")
             q == RulesOf(s.profile.proxy, t)
  <2>1. b \in Seq(RulesTo(T)) /\ d \in Seq(RulesTo(T)) /\ q \in Seq(RulesTo(T))
    BY <1>1, <1>5, ProfileParts, RulesOfEntries
  <2>2. UserRules(s, t) = a \o ((b \o d) \o q)
    BY <1>5 DEF UserRules, ProfileRules, a
  <2>3. /\ HitBy(b, c) <=> CoveredBy(s.profile.block, c)
        /\ HitBy(d, c) <=> CoveredBy(s.profile.direct, c)
        /\ HitBy(q, c) <=> CoveredBy(s.profile.proxy, c)
        /\ CoveredBy(s.profile.block, c) => Route(b, c) = "REJECT"
        /\ CoveredBy(s.profile.direct, c) => Route(d, c) = "DIRECT"
        /\ CoveredBy(s.profile.proxy, c) => Route(q, c) = t
    BY <1>5, ProfileParts, RouteOfEntries
  <2> HIDE DEF b, d, q
  <2>4. /\ b \o d \in Seq(RulesTo(T))
        /\ HitBy(b \o d, c) <=> HitBy(b, c) \/ HitBy(d, c)
        /\ Route(b \o d, c) = IF HitBy(b, c) THEN Route(b, c) ELSE Route(d, c)
    BY <2>1, Concat, RouteOfConcat
  <2>5. /\ (b \o d) \o q \in Seq(RulesTo(T))
        /\ HitBy((b \o d) \o q, c) <=> HitBy(b \o d, c) \/ HitBy(q, c)
        /\ Route((b \o d) \o q, c) = IF HitBy(b \o d, c) THEN Route(b \o d, c) ELSE Route(q, c)
    <3> DEFINE e == b \o d
    <3>1. e \in Seq(RulesTo(T))
      BY <2>4
    <3> HIDE DEF e
    <3>2. /\ e \o q \in Seq(RulesTo(T))
          /\ HitBy(e \o q, c) <=> HitBy(e, c) \/ HitBy(q, c)
          /\ Route(e \o q, c) = IF HitBy(e, c) THEN Route(e, c) ELSE Route(q, c)
      BY <2>1, <3>1, Concat, RouteOfConcat
    <3> QED BY <3>2 DEF e
  <2> DEFINE f == (b \o d) \o q
  <2>6. f \in Seq(RulesTo(T))
    BY <2>5
  <2>7. /\ HitBy(f, c) <=> ZoneOf(s, c)
        /\ ZoneOf(s, c) => Route(f, c) = TargetIn(s.profile, c, t)
    BY <1>5, <2>3, <2>4, <2>5 DEF ZoneOf, TargetIn
  <2> HIDE DEF f
  <2>8. /\ HitBy(a \o f, c) <=> HitBy(a, c) \/ HitBy(f, c)
        /\ Route(a \o f, c) = IF HitBy(a, c) THEN Route(a, c) ELSE Route(f, c)
    BY <1>2, <2>6, RouteOfConcat
  <2>9. UserRules(s, t) = a \o f
    BY <2>2 DEF f
  <2> QED BY <1>3, <2>7, <2>8, <2>9 DEF a
<1> QED BY <1>4, <1>5

-----------------------------------------------------------------------------
(* What the whole list decides.                                            *)

\* The default of the user.
Fallback(s, t) == Rule("match", <<>>, ExplicitTarget(s, t))

\* Each rule of Q is one of U or V, or this rule.
EachFrom(Q, U, V, r) ==
  \A i \in DOMAIN Q : \/ \E j \in DOMAIN U : Q[i] = U[j]
                      \/ \E j \in DOMAIN V : Q[i] = V[j]
                      \/ Q[i] = r

\* A catch-all hits everything.
LEMMA MatchHits ==
  ASSUME NEW t, NEW c
  PROVE  Hits(Rule("match", <<>>, t), c) /\ Rule("match", <<>>, t).target = t
  BY DEF Hits, Rule

\* How many numbers of K there are up to i, for i in K: each number from 1 on once.
LEMMA Ranks ==
  ASSUME NEW n \in Nat, NEW K \in SUBSET (1..n)
  PROVE  LET Rank(i) == Cardinality({j \in K : j <= i}) IN
         /\ Cardinality(K) \in Nat
         /\ \A i \in K : Rank(i) \in 1..Cardinality(K)
         /\ \A i, j \in K : i < j => Rank(i) < Rank(j)
         /\ \A k \in 1..Cardinality(K) : \E i \in K : Rank(i) = k
<1> DEFINE Up(i) == {j \in K : j <= i}
           Rank(i) == Cardinality(Up(i))
<1>0. \A j \in K : j \in Nat /\ 1 <= j /\ j <= n
  OBVIOUS
<1>1. IsFiniteSet(1..n)
  BY FS_Interval
<1>2. IsFiniteSet(K) /\ Cardinality(K) \in Nat
  BY <1>1, FS_Subset, FS_CardinalityType
<1>3. \A i : Up(i) \in SUBSET K
  OBVIOUS
<1>4. \A i : IsFiniteSet(Up(i)) /\ Rank(i) \in Nat /\ Rank(i) <= Cardinality(K)
  <2> SUFFICES ASSUME NEW i
               PROVE  IsFiniteSet(Up(i)) /\ Rank(i) \in Nat /\ Rank(i) <= Cardinality(K)
    OBVIOUS
  <2> DEFINE T == Up(i)
  <2>1. T \in SUBSET K
    BY <1>3
  <2> HIDE DEF T
  <2>2. IsFiniteSet(T) /\ Cardinality(T) \in Nat /\ Cardinality(T) <= Cardinality(K)
    BY <1>2, <2>1, FS_Subset, FS_CardinalityType
  <2> QED BY <2>2 DEF T
<1>5. ASSUME NEW i \in Nat
      PROVE  Rank(i + 1) = IF i + 1 \in K THEN Rank(i) + 1 ELSE Rank(i)
  <2>1. CASE i + 1 \in K
    <3>0. \A j \in K : j <= i + 1 <=> j <= i \/ j = i + 1
      BY <1>0
    <3>1. Up(i + 1) = Up(i) \cup {i + 1} /\ i + 1 \notin Up(i)
      <4>1. ~(i + 1 <= i)
        OBVIOUS
      <4>2. i + 1 <= i + 1
        OBVIOUS
      <4> QED BY <2>1, <3>0, <4>1, <4>2, Zenon
    <3> DEFINE T == Up(i)
    <3>2. IsFiniteSet(T) /\ i + 1 \notin T /\ Up(i + 1) = T \cup {i + 1}
      BY <1>4, <3>1
    <3> HIDE DEF T
    <3>3. Cardinality(T \cup {i + 1}) = Cardinality(T) + 1
      BY <3>2, FS_AddElement
    <3>4. Cardinality(Up(i + 1)) = Cardinality(T) + 1
      BY <3>2, <3>3
    <3> QED BY <2>1, <3>4 DEF T
  <2>2. CASE i + 1 \notin K
    <3>0. \A j \in K : j <= i + 1 <=> j <= i \/ j = i + 1
      BY <1>0
    <3>1. Up(i + 1) = Up(i)
      BY <2>2, <3>0, Zenon
    <3> QED BY <2>2, <3>1
  <2> QED BY <2>1, <2>2
<1>6. Rank(0) = 0
  <2>0. \A j \in K : ~(j <= 0)
    BY <1>0
  <2>1. Up(0) = {}
    BY <2>0, Zenon
  <2> QED BY <2>1, FS_EmptySet
<1>7. Rank(n) = Cardinality(K)
  <2>1. Up(n) = K
    BY <1>0
  <2> QED BY <2>1
<1>8. ASSUME NEW i \in K, NEW j \in K, i < j PROVE Rank(i) < Rank(j)
  <2> DEFINE T == Up(i)
             T2 == Up(j)
  <2>0. (\A l \in K : l <= i => l <= j) /\ j <= j /\ ~(j <= i)
    BY <1>0, <1>8
  <2>1. T \in SUBSET T2 /\ j \in T2 /\ j \notin T
    BY <2>0, Zenon
  <2>2. IsFiniteSet(T) /\ IsFiniteSet(T2) /\ Cardinality(T) \in Nat /\ Cardinality(T2) \in Nat
    BY <1>4
  <2> HIDE DEF T, T2
  <2>3. Cardinality(T) <= Cardinality(T2) /\ Cardinality(T) # Cardinality(T2)
    BY <2>1, <2>2, FS_Subset
  <2>4. Cardinality(T) < Cardinality(T2)
    BY <2>2, <2>3
  <2> QED BY <2>4 DEF T, T2
<1>9. ASSUME NEW i \in K PROVE Rank(i) \in 1..Cardinality(K)
  <2> DEFINE T == Up(i)
  <2>1. i \in T /\ IsFiniteSet(T) /\ Cardinality(T) \in Nat /\ Cardinality(T) <= Cardinality(K)
    BY <1>4
  <2> HIDE DEF T
  <2>2. Cardinality(T) # 0
    BY <2>1, FS_EmptySet
  <2>3. Cardinality(T) \in 1..Cardinality(K)
    BY <1>2, <2>1, <2>2
  <2> QED BY <2>3 DEF T
<1>10. ASSUME NEW k \in 1..Cardinality(K) PROVE \E i \in K : Rank(i) = k
  <2> DEFINE enough == {i \in Nat : k <= Rank(i)}
  <2>1. n \in enough
    BY <1>7
  <2>2. PICK m \in enough : \A i \in enough : m <= i
    <3>1. enough \in SUBSET Nat /\ enough # {}
      BY <2>1
    <3> HIDE DEF enough
    <3> QED BY <3>1, Least
  <2>r. \A i : Rank(i) \in Nat /\ Rank(i) <= Cardinality(K)
    BY <1>4
  <2> HIDE DEF Rank
  <2>3. m \in Nat /\ k <= Rank(m) /\ m # 0
    BY <1>2, <1>6, <2>2
  <2>4. m - 1 \in Nat /\ (m - 1) + 1 = m /\ m - 1 \notin enough
    BY <2>2, <2>3
  <2>5. Rank(m - 1) < k
    BY <1>2, <2>r, <2>4
  <2>6. Rank(m) = IF m \in K THEN Rank(m - 1) + 1 ELSE Rank(m - 1)
    BY <1>5, <2>4
  <2>7. m \in K /\ Rank(m) = k
    BY <1>2, <2>r, <2>3, <2>5, <2>6
  <2> QED BY <2>7
<1> QED BY <1>2, <1>8, <1>9, <1>10

\* Where a list without its catch-alls has its rules from.
Kept(rules) == {i \in DOMAIN rules : NotTerminal(rules[i])}

LEMMA KeptRules ==
  ASSUME NEW S, NEW rules \in Seq(S)
  PROVE  LET X == WithoutTerminal(rules)
             Rank(i) == Cardinality({j \in Kept(rules) : j <= i}) IN
         /\ X \in Seq(S)
         /\ \A k \in DOMAIN X : \E i \in Kept(rules) : Rank(i) = k /\ X[k] = rules[i]
         /\ \A i \in Kept(rules) : Rank(i) \in DOMAIN X /\ X[Rank(i)] = rules[i]
         /\ \A i, j \in Kept(rules) : i < j => Rank(i) < Rank(j)
         /\ \A i \in Kept(rules) : Rank(i) \in Nat
<1> DEFINE K == Kept(rules)
           Rank(i) == Cardinality({j \in K : j <= i})
           X == WithoutTerminal(rules)
           At(k) == CHOOSE i \in K : Rank(i) = k
<1>1. Len(rules) \in Nat /\ DOMAIN rules = 1..Len(rules)
  OBVIOUS
<1>2. K \in SUBSET (1..Len(rules)) /\ K \in SUBSET Nat
  BY <1>1 DEF Kept
<1>3. X = [k \in 1..Cardinality(K) |-> rules[At(k)]]
  BY Zenon DEF WithoutTerminal, Kept
<1> HIDE DEF K, X
<1>4. /\ Cardinality(K) \in Nat
      /\ \A i \in K : Rank(i) \in 1..Cardinality(K)
      /\ \A i, j \in K : i < j => Rank(i) < Rank(j)
      /\ \A k \in 1..Cardinality(K) : \E i \in K : Rank(i) = k
  BY <1>1, <1>2, Ranks
<1> HIDE DEF Rank
<1>5. \A k \in 1..Cardinality(K) : At(k) \in K /\ Rank(At(k)) = k
  BY <1>4
<1>6. ASSUME NEW i \in K PROVE At(Rank(i)) = i
  <2>1. At(Rank(i)) \in K /\ Rank(At(Rank(i))) = Rank(i) /\ Rank(i) \in Nat
    BY <1>4, <1>5
  <2> HIDE DEF At
  <2>2. i \in Nat /\ At(Rank(i)) \in Nat
    BY <1>2, <2>1
  <2>3. ~(At(Rank(i)) < i) /\ ~(i < At(Rank(i)))
    BY <1>4, <2>1
  <2> QED BY <2>2, <2>3
<1> HIDE DEF At
<1>7. \A k \in 1..Cardinality(K) : rules[At(k)] \in S
  <2>1. \A i \in K : rules[i] \in S
    BY <1>2, ElementOfSeq
  <2> QED BY <1>5, <2>1
<1>8. X \in Seq(S) /\ DOMAIN X = 1..Cardinality(K)
  BY <1>3, <1>4, <1>7
<1>9. \A k \in DOMAIN X : At(k) \in K /\ Rank(At(k)) = k /\ X[k] = rules[At(k)]
  BY <1>3, <1>5, <1>8
<1>10. \A i \in K : Rank(i) \in DOMAIN X /\ X[Rank(i)] = rules[i]
  BY <1>3, <1>4, <1>6, <1>8
<1>11. \A i \in K : Rank(i) \in Nat
  BY <1>4
<1> QED BY <1>4, <1>8, <1>9, <1>10, <1>11 DEF K, X, Rank

\* The first rule that hits and is no catch-all.
FirstSpecific(rules, c, i) ==
  /\ i \in Kept(rules) /\ Hits(rules[i], c)
  /\ \A j \in Kept(rules) : Hits(rules[j], c) => i <= j

\* It decides once the catch-alls are gone.
LEMMA SpecificDecides ==
  ASSUME NEW S, NEW rules \in Seq(S), NEW c
  PROVE  LET X == WithoutTerminal(rules) IN
         /\ HitBy(X, c) <=> \E i : FirstSpecific(rules, c, i)
         /\ \A i : FirstSpecific(rules, c, i) => Route(X, c) = rules[i].target
<1> DEFINE X == WithoutTerminal(rules)
           K == Kept(rules)
           Rank(i) == Cardinality({j \in K : j <= i})
<1>1. /\ X \in Seq(S)
      /\ \A k \in DOMAIN X : \E i \in K : Rank(i) = k /\ X[k] = rules[i]
      /\ \A i \in K : Rank(i) \in DOMAIN X /\ X[Rank(i)] = rules[i]
      /\ \A i, j \in K : i < j => Rank(i) < Rank(j)
      /\ \A i \in K : Rank(i) \in Nat
  BY KeptRules
<1>2. DOMAIN X \in SUBSET Nat
  BY <1>1
<1>3. K \in SUBSET Nat
  <2>1. DOMAIN rules = 1..Len(rules) /\ Len(rules) \in Nat
    OBVIOUS
  <2> QED BY <2>1 DEF Kept
<1> HIDE DEF X, Rank, K
<1>4. ASSUME NEW i, FirstSpecific(rules, c, i)
      PROVE  IsFirst(X, c, Rank(i)) /\ X[Rank(i)] = rules[i]
  <2>1. i \in K /\ Hits(rules[i], c) /\ \A j \in K : Hits(rules[j], c) => i <= j
    BY <1>4 DEF FirstSpecific, K
  <2>2. Rank(i) \in DOMAIN X /\ X[Rank(i)] = rules[i]
    BY <1>1, <2>1
  <2>3. ASSUME NEW k \in DOMAIN X, Hits(X[k], c) PROVE Rank(i) <= k
    <3>1. PICK j \in K : Rank(j) = k /\ X[k] = rules[j]
      BY <1>1
    <3>2. i <= j /\ i \in Nat /\ j \in Nat
      BY <1>3, <2>1, <2>3, <3>1
    <3>3. i = j \/ Rank(i) < Rank(j)
      BY <1>1, <2>1, <3>2
    <3> QED BY <1>1, <2>1, <3>1, <3>3
  <2> QED BY <2>1, <2>2, <2>3 DEF IsFirst
<1>5. ASSUME HitBy(X, c) PROVE \E i : FirstSpecific(rules, c, i)
  <2>1. PICK k \in DOMAIN X : Hits(X[k], c)
    BY <1>5 DEF HitBy
  <2>2. PICK j \in K : X[k] = rules[j]
    BY <1>1
  <2> DEFINE hit == {i \in K : Hits(rules[i], c)}
  <2>3. hit \in SUBSET Nat /\ hit # {}
    BY <1>3, <2>1, <2>2
  <2>4. \E i \in hit : \A l \in hit : i <= l
    <3> HIDE DEF hit
    <3> QED BY <2>3, Least
  <2> QED BY <2>4 DEF FirstSpecific, K
<1>6. ASSUME NEW i, FirstSpecific(rules, c, i)
      PROVE  HitBy(X, c) /\ Route(X, c) = rules[i].target
  <2>1. IsFirst(X, c, Rank(i)) /\ X[Rank(i)] = rules[i]
    BY <1>4, <1>6
  <2>2. Route(X, c) = X[Rank(i)].target
    BY <1>2, <2>1, FirstDecides
  <2> QED BY <2>1, <2>2 DEF IsFirst, HitBy
<1> QED BY <1>5, <1>6 DEF X

\* The user's rules stay ahead of the provider's specific ones.
LEMMA SpecificOfBoth ==
  ASSUME NEW S, NEW U \in Seq(S), NEW V \in Seq(S), \A i \in DOMAIN U : NotTerminal(U[i]), NEW c
  PROVE  LET X == WithoutTerminal(U \o V) IN
         /\ HitBy(X, c) <=> HitBy(U, c) \/ HitBy(WithoutTerminal(V), c)
         /\ HitBy(U, c) => Route(X, c) = Route(U, c)
         /\ ~HitBy(U, c) /\ HitBy(WithoutTerminal(V), c)
              => Route(X, c) = Route(WithoutTerminal(V), c)
<1> DEFINE R == U \o V
           X == WithoutTerminal(R)
           Y == WithoutTerminal(V)
<1>1. /\ Len(U) \in Nat /\ Len(V) \in Nat /\ R \in Seq(S)
      /\ DOMAIN U = 1..Len(U) /\ DOMAIN V = 1..Len(V) /\ DOMAIN R = 1..(Len(U) + Len(V))
      /\ \A i \in 1..Len(U) : R[i] = U[i]
      /\ \A i \in 1..Len(V) : R[Len(U) + i] = V[i]
  BY Concat
<1> HIDE DEF R
<1>2. \A j \in DOMAIN R : (j \in DOMAIN U /\ R[j] = U[j])
                          \/ (\E i \in DOMAIN V : j = Len(U) + i /\ R[j] = V[i])
  <2> SUFFICES ASSUME NEW j \in DOMAIN R, j \notin DOMAIN U
               PROVE  \E i \in DOMAIN V : j = Len(U) + i /\ R[j] = V[i]
    BY <1>1
  <2>1. j - Len(U) \in DOMAIN V /\ j = Len(U) + (j - Len(U))
    BY <1>1
  <2> QED BY <1>1, <2>1
<1>3. /\ HitBy(X, c) <=> \E i : FirstSpecific(R, c, i)
      /\ \A i : FirstSpecific(R, c, i) => Route(X, c) = R[i].target
  BY <1>1, SpecificDecides
<1>4. /\ HitBy(Y, c) <=> \E i : FirstSpecific(V, c, i)
      /\ \A i : FirstSpecific(V, c, i) => Route(Y, c) = V[i].target
  BY SpecificDecides
<1> HIDE DEF X, Y
<1>5. ASSUME HitBy(U, c) PROVE HitBy(X, c) /\ Route(X, c) = Route(U, c)
  <2>0. DOMAIN U \in SUBSET Nat
    BY <1>1
  <2>1. PICK i : IsFirst(U, c, i)
    BY <1>5, <2>0, FirstExists DEF HitBy
  <2>2. Route(U, c) = U[i].target
    BY <2>0, <2>1, FirstDecides
  <2>3. i \in 1..Len(U) /\ R[i] = U[i] /\ i \in Kept(R) /\ Hits(R[i], c)
    BY <1>1, <2>1 DEF IsFirst, Kept
  <2>4. ASSUME NEW j \in Kept(R), Hits(R[j], c) PROVE i <= j
    <3>1. j \in DOMAIN R
      BY DEF Kept
    <3>2. CASE j \in DOMAIN U /\ R[j] = U[j]
      BY <2>1, <2>4, <3>2 DEF IsFirst
    <3>3. CASE \E k \in DOMAIN V : j = Len(U) + k
      BY <1>1, <2>3, <3>3
    <3> QED BY <1>2, <3>1, <3>2, <3>3
  <2>5. FirstSpecific(R, c, i)
    BY <2>3, <2>4 DEF FirstSpecific
  <2> QED BY <1>3, <2>2, <2>3, <2>5
<1>6. ASSUME ~HitBy(U, c), NEW i, FirstSpecific(V, c, i)
      PROVE  FirstSpecific(R, c, Len(U) + i) /\ R[Len(U) + i] = V[i]
  <2>1. i \in 1..Len(V) /\ NotTerminal(V[i]) /\ Hits(V[i], c)
    BY <1>1, <1>6 DEF FirstSpecific, Kept
  <2>2. Len(U) + i \in DOMAIN R /\ R[Len(U) + i] = V[i]
    BY <1>1, <2>1
  <2>3. ASSUME NEW j \in Kept(R), Hits(R[j], c) PROVE Len(U) + i <= j
    <3>1. j \in DOMAIN R /\ NotTerminal(R[j])
      BY DEF Kept
    <3>2. PICK k \in DOMAIN V : j = Len(U) + k /\ R[j] = V[k]
      BY <1>2, <1>6, <2>3, <3>1 DEF HitBy
    <3>3. i <= k /\ k \in Nat /\ i \in Nat
      BY <1>1, <1>6, <2>1, <2>3, <3>1, <3>2 DEF FirstSpecific, Kept
    <3> QED BY <1>1, <3>2, <3>3
  <2> QED BY <2>1, <2>2, <2>3 DEF FirstSpecific, Kept
<1>7. ASSUME ~HitBy(U, c), NEW i, FirstSpecific(R, c, i) PROVE HitBy(Y, c)
  <2>1. i \in DOMAIN R /\ NotTerminal(R[i]) /\ Hits(R[i], c)
    BY <1>7 DEF FirstSpecific, Kept
  <2>2. PICK k \in DOMAIN V : R[i] = V[k] /\ i = Len(U) + k
    BY <1>2, <1>7, <2>1 DEF HitBy
  <2> DEFINE hit == {j \in Kept(V) : Hits(V[j], c)}
  <2>3. hit \in SUBSET Nat /\ hit # {}
    <3>1. DOMAIN V \subseteq Nat
      BY <1>1
    <3>2. NotTerminal(V[k]) /\ Hits(V[k], c)
      BY <2>1, <2>2
    <3>3. k \in hit
      BY <2>2, <3>2 DEF Kept
    <3> QED BY <3>1, <3>3 DEF Kept
  <2>4. \E j \in hit : \A l \in hit : j <= l
    <3> HIDE DEF hit
    <3> QED BY <2>3, Least
  <2>5. \E j : FirstSpecific(V, c, j)
    BY <2>4 DEF FirstSpecific
  <2> QED BY <1>4, <2>5
<1>8. ASSUME ~HitBy(U, c), HitBy(Y, c) PROVE HitBy(X, c) /\ Route(X, c) = Route(Y, c)
  <2>1. PICK i : FirstSpecific(V, c, i)
    BY <1>4, <1>8
  <2>2. FirstSpecific(R, c, Len(U) + i) /\ R[Len(U) + i] = V[i]
    BY <1>6, <1>8, <2>1
  <2> QED BY <1>3, <1>4, <2>1, <2>2
<1> QED BY <1>3, <1>5, <1>7, <1>8 DEF X, Y, R

\* The user's default, put in the place of the provider's catch-alls.
LEMMA DefaultRoutes ==
  ASSUME NEW S, NEW U \in Seq(S), NEW V \in Seq(S), \A i \in DOMAIN U : NotTerminal(U[i]),
         NEW s, NEW t, NEW c
  PROVE  LET Q == WithDefault(U \o V, s, t)
             specific == WithoutTerminal(V) IN
         /\ HitBy(U, c) => Route(Q, c) = Route(U, c)
         /\ ~HitBy(U, c) =>
              Route(Q, c) = IF s.default = "auto" THEN Route(V, c)
                            ELSE IF HitBy(specific, c) THEN Route(specific, c)
                            ELSE ExplicitTarget(s, t)
         /\ EachFrom(Q, U, V, Fallback(s, t))
<1> DEFINE R == U \o V
           Q == WithDefault(R, s, t)
           X == WithoutTerminal(R)
           Y == WithoutTerminal(V)
           f == Fallback(s, t)
<1>1. /\ R \in Seq(S) /\ Len(U) \in Nat /\ Len(V) \in Nat
      /\ DOMAIN U = 1..Len(U) /\ DOMAIN V = 1..Len(V) /\ DOMAIN R = 1..(Len(U) + Len(V))
      /\ \A i \in 1..Len(U) : R[i] = U[i]
      /\ \A i \in 1..Len(V) : R[Len(U) + i] = V[i]
  BY Concat
<1>2. Route(R, c) = IF HitBy(U, c) THEN Route(U, c) ELSE Route(V, c)
  BY RouteOfConcat
<1>3. /\ HitBy(X, c) <=> HitBy(U, c) \/ HitBy(Y, c)
      /\ HitBy(U, c) => Route(X, c) = Route(U, c)
      /\ ~HitBy(U, c) /\ HitBy(Y, c) => Route(X, c) = Route(Y, c)
  BY SpecificOfBoth
<1>4. X \in Seq(S) /\ \A k \in DOMAIN X : \E i \in Kept(R) : X[k] = R[i]
  BY <1>1, KeptRules
<1> HIDE DEF R
<1>5. \A j \in DOMAIN R : (\E i \in DOMAIN U : R[j] = U[i]) \/ (\E i \in DOMAIN V : R[j] = V[i])
  <2> SUFFICES ASSUME NEW j \in DOMAIN R, j \notin DOMAIN U
               PROVE  \E i \in DOMAIN V : R[j] = V[i]
    BY <1>1
  <2>1. j - Len(U) \in DOMAIN V /\ j = Len(U) + (j - Len(U))
    BY <1>1
  <2> QED BY <1>1, <2>1
<1>6. CASE s.default = "auto"
  <2>1. Q = R
    BY <1>6 DEF WithDefault
  <2> QED BY <1>2, <1>5, <1>6, <2>1 DEF R, EachFrom
<1>7. CASE s.default # "auto"
  <2>1. Q = Append(X, f)
    BY <1>7 DEF WithDefault, Fallback
  <2> HIDE DEF X, Y, Q, f
  <2>2. X \in Seq(S \cup {f}) /\ <<f>> \in Seq(S \cup {f}) /\ Q = X \o <<f>>
    BY <1>4, <2>1, SeqMonotonic
  <2> DEFINE last == <<f>>
  <2>3. HitBy(last, c) /\ Route(last, c) = ExplicitTarget(s, t)
    <3>1. last[1] = f /\ DOMAIN last = {1} /\ DOMAIN last \in SUBSET Nat
      OBVIOUS
    <3>2. Hits(f, c) /\ f.target = ExplicitTarget(s, t)
      BY MatchHits DEF f, Fallback
    <3> HIDE DEF last
    <3>3. IsFirst(last, c, 1)
      BY <3>1, <3>2 DEF IsFirst
    <3> QED BY <3>1, <3>2, <3>3, FirstDecides DEF HitBy
  <2>4. /\ Route(Q, c) = IF HitBy(X, c) THEN Route(X, c) ELSE Route(last, c)
        /\ \A k \in DOMAIN Q : (\E i \in DOMAIN X : Q[k] = X[i]) \/ Q[k] = f
    <3>1. last \in Seq(S \cup {f}) /\ X \in Seq(S \cup {f}) /\ Q = X \o last
      BY <2>2
    <3>2. \A k \in DOMAIN Q : (k \in DOMAIN X /\ Q[k] = X[k]) \/ Q[k] = f
      BY <2>1, <2>2
    <3> HIDE DEF last
    <3> QED BY <3>1, <3>2, RouteOfConcat
  <2>5. EachFrom(Q, U, V, f)
    <3>1. \A k \in DOMAIN X : \E j \in DOMAIN R : X[k] = R[j]
      BY <1>4 DEF Kept
    <3> QED BY <1>5, <2>4, <3>1 DEF EachFrom
  <2> QED BY <1>3, <1>7, <2>3, <2>4, <2>5 DEF X, Y, Q, R, f
<1> QED BY <1>6, <1>7

-----------------------------------------------------------------------------
(* The configuration that runs.                                            *)

\* The way out that "proxy" means exists.
LEMMA TargetExists ==
  ASSUME NEW d \in Documents
  PROVE  ProxyTarget(d) \in {"GLOBAL"} \cup Range(d.groups)
<1> DEFINE named == {i \in DOMAIN d.rules :
                       IsTerminal(d.rules[i]) /\ d.rules[i].target \in Range(d.groups)}
<1>1. d.rules \in Seq(Rules) /\ d.groups \in Seq(Word)
  BY DEF Documents
<1>2. CASE named # {}
  <2> DEFINE Low(i) == \A j \in named : i <= j
  <2>1. named \in SUBSET Nat
    BY <1>1
  <2>2. ProxyTarget(d) = d.rules[CHOOSE i \in named : Low(i)].target
    BY <1>2, Zenon DEF ProxyTarget
  <2>3. \A i \in named : d.rules[i].target \in Range(d.groups)
    OBVIOUS
  <2> HIDE DEF named
  <2>4. \E i \in named : Low(i)
    BY <1>2, <2>1, Least
  <2>5. (CHOOSE i \in named : Low(i)) \in named
    <3> HIDE DEF Low
    <3> QED BY <2>4
  <2> QED BY <2>2, <2>3, <2>5
<1>3. CASE named = {} /\ d.groups # <<>>
  <2>1. 1 \in DOMAIN d.groups
    BY <1>1, <1>3
  <2>2. ProxyTarget(d) = d.groups[1]
    BY <1>3, Zenon DEF ProxyTarget
  <2> QED BY <2>1, <2>2, Zenon DEF Range
<1>4. CASE named = {} /\ d.groups = <<>>
  BY <1>4, Zenon DEF ProxyTarget
<1> QED BY <1>2, <1>3, <1>4

\* What running configurations have in common: the rules of the user, then
\* those of the provider or those of build.
RulesOfConfig ==
  LET U == UserRules(used, OurTarget) IN
  \/ /\ config.kind = "full" /\ OurTarget = ProxyTarget(origin[1])
     /\ config.groups = origin[1].groups
     /\ config.rules = WithDefault(U \o origin[1].rules, used, OurTarget)
  \/ /\ config.kind = "uri" /\ OurTarget = "PROXY" /\ config.groups = <<"PROXY">>
     /\ config.rules = U \o LocalRules \o <<Rule("match", <<>>, UriDefault(used))>>

\* The two ways have their rules.
LEMMA RunningRules == ASSUME ConfigInv, Running PROVE RulesOfConfig
<1>1. CASE origin[1].kind = "full" /\ config.kind = "full" /\ IsPatchOf(config, origin[1], used)
  <2>1. OurTarget = ProxyTarget(origin[1])
    BY <1>1 DEF OurTarget
  <2> QED BY <1>1, <2>1 DEF RulesOfConfig, IsPatchOf
<1>2. CASE config.kind = "uri" /\ BuildFields(config, origin[1], used)
  <2>1. OurTarget = "PROXY"
    BY <1>2 DEF OurTarget
  <2> QED BY <1>2, <2>1 DEF RulesOfConfig, BuildFields
<1> QED BY <1>1, <1>2, TwoPaths

\* A rule of the user is no catch-all and goes where it may.
LEMMA SpecificRules ==
  ASSUME NEW s \in Options, NEW t
  PROVE  /\ UserRules(s, t) \in Seq(RulesTo({t, "DIRECT", "REJECT"}))
         /\ \A i \in DOMAIN UserRules(s, t) :
              /\ NotTerminal(UserRules(s, t)[i])
              /\ UserRules(s, t)[i].kind \in RuleKinds
              /\ UserRules(s, t)[i].target \in {t, "DIRECT", "REJECT"}
<1> DEFINE U == UserRules(s, t)
           T == {t, "DIRECT", "REJECT"}
<1>1. U \in Seq(RulesTo(T))
  BY UserRulesTyped
<1> HIDE DEF U
<1>2. \A i \in DOMAIN U : U[i] \in RulesTo(T)
  <2>1. DOMAIN U = 1..Len(U)
    BY <1>1
  <2> QED BY <1>1, <2>1, ElementOfSeq
<1>3. \A i \in DOMAIN U : NotTerminal(U[i]) /\ U[i].kind \in RuleKinds /\ U[i].target \in T
  BY <1>2 DEF RulesTo, NotTerminal, IsTerminal
<1> QED BY <1>1, <1>3 DEF U

\* Every rule of the configuration is the user's, the provider's or build's.
RulesFrom(rules) ==
  \A i \in DOMAIN rules :
    \/ rules[i].kind \in RuleKinds /\ rules[i].target \in {OurTarget, "DIRECT", "REJECT"}
    \/ config.kind = "full" /\ \E j \in DOMAIN origin[1].rules : rules[i] = origin[1].rules[j]

\* What the list of the running configuration decides.
Decided(c) ==
  LET U == UserRules(used, OurTarget) IN
  /\ HitBy(U, c) => Route(config.rules, c) = Route(U, c)
  /\ config.kind = "full" /\ ~HitBy(U, c) =>
       Route(config.rules, c) =
         IF used.default = "auto" THEN Route(origin[1].rules, c)
         ELSE IF HitBy(WithoutTerminal(origin[1].rules), c)
              THEN Route(WithoutTerminal(origin[1].rules), c)
         ELSE ExplicitTarget(used, OurTarget)

\* So it is with what runs.
LEMMA RunningDecides ==
  ASSUME ConfigInv, Running, NEW c
  PROVE  Decided(c) /\ RulesFrom(config.rules)
<1> DEFINE U == UserRules(used, OurTarget)
           t == OurTarget
           V == origin[1].rules
<1>1. used \in Options /\ origin[1] \in Documents
  BY TwoPaths
<1>2. V \in Seq(Rules)
  BY <1>1 DEF Documents
<1>3. /\ U \in Seq(RulesTo({t, "DIRECT", "REJECT"}))
      /\ \A i \in DOMAIN U : /\ NotTerminal(U[i]) /\ U[i].kind \in RuleKinds
                             /\ U[i].target \in {t, "DIRECT", "REJECT"}
  BY <1>1, SpecificRules
<1>4. ExplicitTarget(used, t) \in {t, "DIRECT"}
  BY DEF ExplicitTarget
<1> HIDE DEF t, U, V
<1>5. CASE /\ config.kind = "full" /\ config.rules = WithDefault(U \o V, used, t)
  <2> DEFINE S == RulesTo({t, "DIRECT", "REJECT"}) \cup Rules
             Q == WithDefault(U \o V, used, t)
  <2>1. U \in Seq(S) /\ V \in Seq(S)
    <3>1. RulesTo({t, "DIRECT", "REJECT"}) \subseteq S /\ Rules \subseteq S
      OBVIOUS
    <3> HIDE DEF S
    <3> QED BY <1>2, <1>3, <3>1, SeqMonotonic
  <2> HIDE DEF S
  <2>0. \A i \in DOMAIN U : NotTerminal(U[i])
    BY <1>3
  <2>2. /\ HitBy(U, c) => Route(Q, c) = Route(U, c)
        /\ ~HitBy(U, c) =>
             Route(Q, c) = IF used.default = "auto" THEN Route(V, c)
                           ELSE IF HitBy(WithoutTerminal(V), c) THEN Route(WithoutTerminal(V), c)
                           ELSE ExplicitTarget(used, t)
    BY <2>0, <2>1, DefaultRoutes
  <2>7. EachFrom(Q, U, V, Fallback(used, t))
    BY <2>0, <2>1, DefaultRoutes
  <2>3. Q = config.rules
    BY <1>5
  <2> HIDE DEF Q
  <2>4. Decided(c)
    BY <2>2, <2>3 DEF Decided, t, U, V
  <2>5. Fallback(used, t).kind \in RuleKinds /\ Fallback(used, t).target \in {t, "DIRECT"}
    BY <1>4 DEF Fallback, Rule, RuleKinds
  <2>6. ASSUME NEW i \in DOMAIN Q
        PROVE  \/ Q[i].kind \in RuleKinds /\ Q[i].target \in {t, "DIRECT", "REJECT"}
               \/ \E j \in DOMAIN V : Q[i] = V[j]
    BY <1>3, <2>5, <2>7 DEF EachFrom
  <2> QED BY <1>5, <2>3, <2>4, <2>6 DEF RulesFrom, t, V
<1>6. CASE /\ config.kind = "uri" /\ t = "PROXY"
           /\ config.rules = U \o LocalRules \o <<Rule("match", <<>>, UriDefault(used))>>
  <2> DEFINE m == <<Rule("match", <<>>, UriDefault(used))>>
             Written == [kind : RuleKinds, arg : Seq(Word) \cup {<<"local">>},
                         target : {"PROXY", "DIRECT", "REJECT"}]
  <2>1. UriDefault(used) \in {"PROXY", "DIRECT"}
    BY <1>4, <1>6 DEF UriDefault, ExplicitTarget
  <2>2. m \in Seq(Written) /\ LocalRules \in Seq(Written)
    BY <2>1 DEF LocalRules, Rule, RuleKinds
  <2>3. U \in Seq(Written)
    <3>1. RulesTo({t, "DIRECT", "REJECT"}) \subseteq Written
      BY <1>6 DEF RulesTo
    <3> HIDE DEF Written
    <3> QED BY <1>3, <3>1, SeqMonotonic
  <2> HIDE DEF m
  <2>4. U \o LocalRules \in Seq(Written)
    BY <2>2, <2>3, Concat
  <2>5. (U \o LocalRules) \o m \in Seq(Written)
    BY <2>2, <2>4, Concat
  <2>6. /\ HitBy(U \o LocalRules, c) <=> HitBy(U, c) \/ HitBy(LocalRules, c)
        /\ Route(U \o LocalRules, c) = IF HitBy(U, c) THEN Route(U, c) ELSE Route(LocalRules, c)
    BY <2>2, <2>3, RouteOfConcat
  <2>7. Route((U \o LocalRules) \o m, c) =
          IF HitBy(U \o LocalRules, c) THEN Route(U \o LocalRules, c) ELSE Route(m, c)
    <3> DEFINE e == U \o LocalRules
    <3>1. e \in Seq(Written) /\ m \in Seq(Written)
      BY <2>2, <2>4
    <3> HIDE DEF e, Written
    <3>2. Route(e \o m, c) = IF HitBy(e, c) THEN Route(e, c) ELSE Route(m, c)
      BY <3>1, RouteOfConcat
    <3> QED BY <3>2 DEF e
  <2>8. config.rules = (U \o LocalRules) \o m
    BY <1>6 DEF m
  <2>9. Decided(c)
    BY <1>6, <2>6, <2>7, <2>8 DEF Decided, U, t
  <2>10. \A i \in DOMAIN config.rules : config.rules[i] \in Written
    <3> DEFINE w == config.rules
    <3>1. w \in Seq(Written)
      BY <2>5, <2>8
    <3> HIDE DEF w
    <3>2. DOMAIN w = 1..Len(w)
      BY <3>1
    <3>3. \A i \in DOMAIN w : w[i] \in Written
      BY <3>1, <3>2, ElementOfSeq
    <3> QED BY <3>3 DEF w
  <2>11. RulesFrom(config.rules)
    BY <1>6, <2>10 DEF RulesFrom, t
  <2> QED BY <2>9, <2>11
<1> QED BY <1>5, <1>6, RunningRules DEF RulesOfConfig, U, V, t

\* The properties and the lemmas name the same sets.
LEMMA UserParts ==
  ASSUME NEW c
  PROVE  /\ UserApp(c) = AppsOf(used, c)
         /\ UserZone(c) <=> ZoneOf(used, c)
         /\ used.profile # None => ProfileTarget(c) = TargetIn(used.profile, c, OurTarget)
  BY DEF UserApp, AppsOf, UserZone, ZoneOf, ProfileTarget, TargetIn

\* What the user decided is what happens.
LEMMA UserDecides ==
  ASSUME ConfigInv, Running, NEW c
  PROVE  /\ UserApp(c) # {} =>
              \E i \in UserApp(c) :
                /\ \A j \in UserApp(c) : i <= j
                /\ Route(config.rules, c) = AppTarget(used.apps[i].action, OurTarget)
         /\ UserApp(c) = {} /\ UserZone(c) => Route(config.rules, c) = ProfileTarget(c)
         /\ UserApp(c) = {} /\ ~UserZone(c) => ~HitBy(UserRules(used, OurTarget), c)
<1>1. used \in Options
  BY TwoPaths
<1> DEFINE t == OurTarget
<1> HIDE DEF t
<1>2. /\ HitBy(UserRules(used, t), c) <=> AppsOf(used, c) # {} \/ ZoneOf(used, c)
      /\ AppsOf(used, c) # {} => Route(UserRules(used, t), c) = Route(AppRules(used, t), c)
      /\ AppsOf(used, c) = {} /\ ZoneOf(used, c)
           => Route(UserRules(used, t), c) = TargetIn(used.profile, c, t)
  BY <1>1, RouteOfUserRules
<1>3. AppsOf(used, c) # {} =>
        \E i \in AppsOf(used, c) :
          /\ \A j \in AppsOf(used, c) : i <= j
          /\ Route(AppRules(used, t), c) = AppTarget(used.apps[i].action, t)
  BY <1>1, RouteOfApps
<1>4. HitBy(UserRules(used, t), c) => Route(config.rules, c) = Route(UserRules(used, t), c)
  BY RunningDecides DEF Decided, t
<1> QED BY <1>2, <1>3, <1>4, UserParts DEF t, ZoneOf

\* patch_full_yaml, mihomo_rules_from_profile, detect_proxy_target and
\* normalize_terminal_default put the rules of user and provider into one list
\* in which each decides exactly what it is to decide, for every profile,
\* every list of rules and every connection.
THEOREM RulesKeepTheirOrder == Spec => []RulesInOrder
<1>1. ASSUME ConfigInv PROVE UserRulesWin
  BY <1>1, UserDecides DEF UserRulesWin
<1>2. ASSUME ConfigInv PROVE ProviderRulesKept
  <2> SUFFICES ASSUME Running, config.kind = "full", NEW c \in Connections,
                      UserApp(c) = {}, ~UserZone(c)
               PROVE  LET theirs == origin[1].rules
                          specific == WithoutTerminal(theirs)
                      IN  Route(config.rules, c) =
                            IF used.default = "auto" THEN Route(theirs, c)
                            ELSE IF \E r \in Range(specific) : Hits(r, c)
                                 THEN Route(specific, c)
                            ELSE ExplicitTarget(used, OurTarget)
    BY DEF ProviderRulesKept
  <2> DEFINE specific == WithoutTerminal(origin[1].rules)
  <2>1. Decided(c) /\ ~HitBy(UserRules(used, OurTarget), c)
    BY <1>2, RunningDecides, UserDecides
  <2>2. (\E r \in Range(specific) : Hits(r, c)) <=> HitBy(specific, c)
    BY Zenon DEF Range, HitBy
  <2> QED BY <2>1, <2>2 DEF Decided
<1>3. ASSUME ConfigInv PROVE OurTargetsExist
  <2> SUFFICES ASSUME Running, NEW i \in DOMAIN config.rules
               PROVE  \/ config.rules[i].target
                           \in {"DIRECT", "REJECT", "GLOBAL"} \cup Range(config.groups)
                      \/ config.kind = "full" /\ config.rules[i] \in Range(origin[1].rules)
    BY Zenon DEF OurTargetsExist, Range
  <2>1. OurTarget \in {"GLOBAL"} \cup Range(config.groups)
    <3>1. CASE OurTarget = ProxyTarget(origin[1]) /\ config.groups = origin[1].groups
      BY <1>3, <3>1, TwoPaths, TargetExists
    <3>2. CASE OurTarget = "PROXY" /\ config.groups = <<"PROXY">>
      BY <3>2 DEF Range
    <3> QED BY <1>3, <3>1, <3>2, RunningRules DEF RulesOfConfig
  <2>2. RulesFrom(config.rules)
    BY <1>3, RunningDecides
  <2>3. CASE config.kind = "full"
             /\ \E j \in DOMAIN origin[1].rules : config.rules[i] = origin[1].rules[j]
    BY <2>3, Zenon DEF Range
  <2> QED BY <2>1, <2>2, <2>3 DEF RulesFrom
<1> QED BY <1>1, <1>2, <1>3, ConfigAlways, PTL DEF RulesInOrder

\* What the engine is given has been gone over by sanitize_full_profile or
\* written by build, key by key, whatever was fetched.
THEOREM RunningIsChecked == Spec => []TypeOK
<1>1. ASSUME ConfigInv PROVE TypeOK
  <2> SUFFICES ASSUME Running
               PROVE  /\ config.kind \in {"uri", "full"} /\ config.flaw = None
                      /\ config.log \in {"info", "warning"}
                      /\ config.ipv6 \in BOOLEAN /\ config.process \in BOOLEAN
                      /\ config.tun \in {"ours", "off"}
                      /\ config.probe \in {"ours", None} /\ config.paths \in {"ours", None}
                      /\ \A r \in Range(config.rules) : r.kind \in RuleKinds
    BY DEF TypeOK, RuleKinds
  <2>1. used \in Options /\ origin[1] \in Documents /\ origin[1].flaw = None
    BY <1>1, TwoPaths
  <2>2. used.ipv6 \in BOOLEAN
    BY <2>1 DEF Options
  <2>3. /\ config.kind \in {"uri", "full"} /\ config.flaw = None
        /\ config.log \in {"info", "warning"}
        /\ config.ipv6 = used.ipv6 /\ config.process = (used.apps # <<>>)
        /\ config.tun \in {"ours", "off"}
        /\ config.probe \in {"ours", None} /\ config.paths \in {"ours", None}
    BY <1>1, <2>1, TwoPaths DEF IsPatchOf, BuildFields, Plain
  <2>4. ASSUME NEW i \in DOMAIN config.rules PROVE config.rules[i].kind \in RuleKinds
    <3> DEFINE V == origin[1].rules
    <3>1. V \in Seq(Rules)
      BY <2>1 DEF Documents
    <3> HIDE DEF V
    <3>2. DOMAIN V = 1..Len(V)
      BY <3>1
    <3>3. \A j \in DOMAIN V : V[j] \in Rules
      BY <3>1, <3>2, ElementOfSeq
    <3>4. \A j \in DOMAIN V : V[j].kind \in RuleKinds
      BY <3>3 DEF Rules
    <3>5. \/ config.rules[i].kind \in RuleKinds
          \/ \E j \in DOMAIN V : config.rules[i] = V[j]
      BY <1>1, RunningDecides DEF RulesFrom, V
    <3> QED BY <3>4, <3>5
  <2> QED BY <2>2, <2>3, <2>4, Zenon DEF Range
<1> QED BY <1>1, ConfigAlways, PTL

-----------------------------------------------------------------------------
(* Names.                                                                  *)

\* The zones of what runs are those of build_dns.
LEMMA RunningDns ==
  ASSUME ConfigInv, Running
  PROVE  /\ config.dns.policy = BuildDns(used).policy
         /\ config.dns.domestic = BuildDns(used).domestic
         /\ config.dns.fake = BuildDns(used).fake
         /\ config.dns.realIn = BuildDns(used).realIn
<1>1. config.dns = BuildDns(used) \/ config.dns = PatchDns(BuildDns(used), used)
  BY TwoPaths DEF IsPatchOf, BuildFields
<1> QED BY <1>1 DEF PatchDns, BuildDns

\* A name is in one of the zones exactly if such an entry covers it.
LEMMA ZonesOfEntries ==
  ASSUME NEW es \in Seq(Entries), NEW n
  PROVE  InZones(PolicyKeys(es), n) <=>
           \E e \in Range(es) :
             e.form \in {"geosite", "star", "dotted", "domain"} /\ Covers(e, Asked(n))
<1> DEFINE forms == {"geosite", "star", "dotted", "domain"}
           K(e) == [kind |-> KindOf(e.form), arg |-> e.arg]
<1>1. \A e \in Range(es) : e \in Entries
  <2>1. DOMAIN es = 1..Len(es)
    OBVIOUS
  <2>2. \A i \in DOMAIN es : es[i] \in Entries
    BY <2>1, ElementOfSeq
  <2> QED BY <2>2, Zenon DEF Range
<1>2. PolicyKeys(es) = {K(e) : e \in {e \in Range(es) : e.form \in forms}}
  BY Zenon DEF PolicyKeys
<1>3. ASSUME NEW e \in Range(es) PROVE InZone(K(e), n) <=> Covers(e, Asked(n))
  <2>1. K(e).kind = KindOf(e.form) /\ K(e).arg = e.arg
    OBVIOUS
  <2>2. InZone(K(e), n) <=> Hits(Rule(KindOf(e.form), e.arg, None), Asked(n))
    BY <2>1 DEF InZone, Asked
  <2>3. e \in Entries
    BY <1>1
  <2> QED BY <2>2, <2>3, EntryHits
<1> HIDE DEF K
<1> QED BY <1>2, <1>3, Zenon DEF InZones

\* Whether an entry covers a connection is a matter of its destination.
LEMMA AskedIsCovered ==
  ASSUME NEW e \in Entries, NEW c
  PROVE  Covers(e, Asked(c.dst)) <=> Covers(e, c)
<1>1. Asked(c.dst).dst = c.dst
  BY DEF Asked
<1> QED BY <1>1, Zenon DEF Covers

\* build_dns against the rules: of what the domestic resolver is told nothing goes
\* through the proxy unless the user's rule for the process says so, and what goes
\* direct has that resolver, for every profile and every provider's rules.
THEOREM NamesGoWithTraffic == Spec => []NamesFollowTraffic
<1>1. ASSUME ConfigInv PROVE ProxiedNamesStayRemote
  <2> SUFFICES ASSUME Running, NEW c \in Connections, ToldAtHome(c), ~ProxiedApp(c)
               PROVE  Route(config.rules, c) \in {"DIRECT", "REJECT"}
    BY DEF ProxiedNamesStayRemote
  <2> DEFINE p == used.profile
  <2>1. used \in Options
    BY <1>1, TwoPaths
  <2>2. p # None /\ InZones(PolicyKeys(p.direct), c.dst)
    <3>1. ~InZones({}, c.dst)
      BY DEF InZones
    <3> QED BY <1>1, <3>1, RunningDns DEF BuildDns, Domestic, ToldAtHome
  <2>3. CoveredBy(p.direct, c)
    <3>1. p.direct \in Seq(Entries)
      BY <2>1, <2>2, ProfileParts
    <3>2. PICK e \in Range(p.direct) : Covers(e, Asked(c.dst))
      BY <2>2, <3>1, ZonesOfEntries
    <3>3. e \in Entries
      <4>1. PICK i \in DOMAIN p.direct : e = p.direct[i]
        BY <3>2, Zenon DEF Range
      <4>2. DOMAIN p.direct = 1..Len(p.direct)
        BY <3>1
      <4> QED BY <3>1, <4>1, <4>2, ElementOfSeq
    <3> QED BY <3>2, <3>3, AskedIsCovered DEF CoveredBy
  <2>4. CASE UserApp(c) = {}
    <3>1. Route(config.rules, c) = ProfileTarget(c)
      BY <1>1, <2>2, <2>3, <2>4, UserDecides DEF UserZone
    <3> QED BY <2>3, <3>1 DEF ProfileTarget
  <2>5. CASE UserApp(c) # {}
    <3>1. PICK i \in UserApp(c) :
            /\ \A j \in UserApp(c) : i <= j
            /\ Route(config.rules, c) = AppTarget(used.apps[i].action, OurTarget)
      BY <1>1, <2>5, UserDecides
    <3>2. used.apps[i].action # "proxy"
      BY <3>1 DEF ProxiedApp
    <3> QED BY <3>1, <3>2 DEF AppTarget
  <2> QED BY <2>4, <2>5
<1>2. ASSUME ConfigInv PROVE DirectZonesResolveAtHome
  <2> SUFFICES ASSUME Running, used.profile # None,
                      NEW n \in Zoned(used.profile, {"geosite", "star", "domain", "dotted"})
               PROVE  /\ used.profile.domestic # None =>
                           Resolver(config.dns, n) = used.profile.domestic
                      /\ config.dns.fake => InZones(config.dns.realIn, n)
    BY DEF DirectZonesResolveAtHome
  <2> DEFINE p == used.profile
  <2>1. used \in Options
    BY <1>2, TwoPaths
  <2>2. InZones(PolicyKeys(p.direct), n)
    BY <2>1, ProfileParts, ZonesOfEntries DEF Zoned
  <2>3. /\ p.domestic # None =>
             config.dns.policy = PolicyKeys(p.direct) /\ config.dns.domestic = p.domestic
        /\ config.dns.fake => config.dns.realIn = PolicyKeys(p.direct)
    BY <1>2, RunningDns DEF BuildDns, Domestic
  <2> QED BY <2>2, <2>3 DEF Resolver
<1> QED BY <1>1, <1>2, ConfigAlways, PTL DEF NamesFollowTraffic

-----------------------------------------------------------------------------
(* Addresses and ranges.                                                   *)

Octets == {a \in Seq(0..255) : Len(a) \in {4, 16}}

\* What an address has at each place.
LEMMA OctetAt ==
  ASSUME NEW a \in Octets
  PROVE  /\ a \in Seq(0..255) /\ Len(a) \in {4, 16}
         /\ \A i \in 1..Len(a) : a[i] \in 0..255
  BY ElementOfSeq DEF Octets

\* The four octets every address has, and what a mask of whole octets leaves.
LEMMA FirstOctets ==
  ASSUME NEW a \in Octets
  PROVE  /\ a[1] \in 0..255 /\ a[2] \in 0..255 /\ a[3] \in 0..255 /\ a[4] \in 0..255
         /\ a[1] \div 1 = a[1] /\ a[2] \div 1 = a[2]
         /\ a[2] \div 256 = 0 /\ a[3] \div 256 = 0 /\ a[4] \div 256 = 0
<1>1. \A i \in 1..Len(a) : a[i] \in 0..255
  BY OctetAt
<1>2. 1 \in 1..Len(a) /\ 2 \in 1..Len(a) /\ 3 \in 1..Len(a) /\ 4 \in 1..Len(a)
  <2>1. Len(a) \in {4, 16}
    BY OctetAt
  <2>2. CASE Len(a) = 4
    BY <2>2
  <2>3. CASE Len(a) = 16
    BY <2>3
  <2> QED BY <2>1, <2>2, <2>3
<1>3. a[1] \in 0..255 /\ a[2] \in 0..255 /\ a[3] \in 0..255 /\ a[4] \in 0..255
  BY <1>1, <1>2, Zenon
<1> QED BY <1>3

\* The masks of the ranges in use.
LEMMA Rests == Rest(0) = 256 /\ Rest(2) = 64 /\ Rest(4) = 16 /\ Rest(8) = 1
  BY DEF Rest

LEMMA WholeOctet ==
  ASSUME NEW x \in 0..255
  PROVE  x \div 1 = x
  OBVIOUS

\* The first two octets agree with p.q on the first n bits.
Starts(a, p, q, n) ==
  a[1] = p /\ a[2] \div Rest(Clip(n - 8)) = q \div Rest(Clip(n - 8))

\* A range of IPv4 addresses whose prefix ends in the first two octets.
LEMMA WithinV4 ==
  ASSUME NEW a \in Octets, NEW p \in 0..255, NEW q \in 0..255, NEW n \in 8..16
  PROVE  Within(a, <<V4(p, q, 0, 0), n>>) <=> Len(a) = 4 /\ Starts(a, p, q, n)
<1> DEFINE b == V4(p, q, 0, 0)
<1>1. Len(b) = 4 /\ b[1] = p /\ b[2] = q /\ b[3] = 0 /\ b[4] = 0
  BY DEF V4
<1>2. /\ Clip(n - 8 * (1 - 1)) = 8 /\ Clip(n - 8 * (2 - 1)) = Clip(n - 8)
      /\ Clip(n - 8 * (3 - 1)) = 0 /\ Clip(n - 8 * (4 - 1)) = 0
  BY DEF Clip
<1>3. Within(a, <<b, n>>) <=>
        /\ Len(a) = 4
        /\ \A i \in 1..4 : a[i] \div Rest(Clip(n - 8 * (i - 1))) = b[i] \div Rest(Clip(n - 8 * (i - 1)))
  <2> HIDE DEF b
  <2> QED BY <1>1 DEF Within
<1>4. Within(a, <<b, n>>) <=>
        /\ Len(a) = 4
        /\ a[1] \div 1 = p \div 1
        /\ a[2] \div Rest(Clip(n - 8)) = q \div Rest(Clip(n - 8))
        /\ a[3] \div 256 = 0 \div 256 /\ a[4] \div 256 = 0 \div 256
  <2> HIDE DEF b
  <2> QED BY <1>1, <1>2, <1>3, Rests
<1>5. p \div 1 = p /\ 0 \div 256 = 0
  OBVIOUS
<1>6. Within(a, <<b, n>>) <=> Len(a) = 4 /\ Starts(a, p, q, n)
  <2> HIDE DEF b
  <2>1. /\ a[1] \div 1 = a[1] /\ a[3] \div 256 = 0 \div 256
        /\ a[4] \div 256 = 0 \div 256
    BY <1>5, FirstOctets
  <2> QED BY <1>4, <1>5, <2>1, Zenon DEF Starts
<1> QED BY <1>6

\* The same of IPv6.
LEMMA WithinV6 ==
  ASSUME NEW a \in Octets, NEW p \in 0..255, NEW q \in 0..255, NEW n \in 8..16,
         Within(a, <<V6(p, q, 0), n>>)
  PROVE  Len(a) = 16 /\ Starts(a, p, q, n)
<1> DEFINE b == V6(p, q, 0)
<1>1. Len(b) = 16 /\ b[1] = p /\ b[2] = q
  BY DEF V6
<1>2. Clip(n - 8 * (1 - 1)) = 8 /\ Clip(n - 8 * (2 - 1)) = Clip(n - 8)
  BY DEF Clip
<1>3. Within(a, <<b, n>>)
  OBVIOUS
<1>4. /\ Len(a) = 16
      /\ \A i \in 1..16 : a[i] \div Rest(Clip(n - 8 * (i - 1))) = b[i] \div Rest(Clip(n - 8 * (i - 1)))
  <2> HIDE DEF b
  <2> QED BY <1>1, <1>3 DEF Within
<1>5. a[1] \div 1 = p \div 1 /\ a[2] \div Rest(Clip(n - 8)) = q \div Rest(Clip(n - 8))
  <2> HIDE DEF b
  <2> QED BY <1>1, <1>2, <1>4, Rests
<1>6. p \div 1 = p
  OBVIOUS
<1> QED BY <1>4, <1>5, <1>6, FirstOctets DEF Starts

\* A range of one address holds that address only.
LEMMA WithinOne ==
  ASSUME NEW a \in Octets, NEW b \in Octets
  PROVE  Within(a, <<b, 8 * Len(b)>>) <=> a = b
<1>1. Within(a, <<b, 8 * Len(b)>>) <=>
        /\ Len(a) = Len(b)
        /\ \A i \in 1..Len(a) :
             a[i] \div Rest(Clip(8 * Len(b) - 8 * (i - 1))) = b[i] \div Rest(Clip(8 * Len(b) - 8 * (i - 1)))
  BY DEF Within
<1>2. ASSUME NEW i \in 1..Len(b)
      PROVE  Rest(Clip(8 * Len(b) - 8 * (i - 1))) = 1
  BY Rests, OctetAt DEF Clip
<1>3. ASSUME Len(a) = Len(b), NEW i \in 1..Len(b)
      PROVE  a[i] \in 0..255 /\ b[i] \in 0..255 /\ a[i] \div 1 = a[i] /\ b[i] \div 1 = b[i]
  <2>1. /\ \A j \in 1..Len(a) : a[j] \in 0..255
        /\ \A j \in 1..Len(b) : b[j] \in 0..255
    BY OctetAt
  <2>2. a[i] \in 0..255 /\ b[i] \in 0..255
    BY <1>3, <2>1
  <2> QED BY <2>2, WholeOctet
<1>4. (\A i \in 1..Len(a) : a[i] = b[i]) /\ Len(a) = Len(b) => a = b
  BY DEF Octets
<1> QED BY <1>1, <1>2, <1>3, <1>4 DEF Starts

\* The ranges one by one, octet by octet.
LEMMA Net10 ==
  ASSUME NEW a \in Octets
  PROVE  Within(a, <<V4(10, 0, 0, 0), 8>>) <=> Len(a) = 4 /\ a[1] = 10
<1>1. PICK p \in 0..255, q \in 0..255, n \in 8..16 : p = 10 /\ q = 0 /\ n = 8
  OBVIOUS
<1>2. Within(a, <<V4(p, q, 0, 0), n>>) <=> Len(a) = 4 /\ Starts(a, p, q, n)
  BY WithinV4
<1>3. Rest(Clip(n - 8)) = 256
  BY <1>1, Rests DEF Clip
<1>4. a[2] \div 256 = 0 \div 256
  BY FirstOctets
<1> QED BY <1>1, <1>2, <1>3, <1>4 DEF Starts

LEMMA Net172 ==
  ASSUME NEW a \in Octets
  PROVE  Within(a, <<V4(172, 16, 0, 0), 12>>) <=> Len(a) = 4 /\ a[1] = 172 /\ a[2] \in 16..31
<1>1. PICK p \in 0..255, q \in 0..255, n \in 8..16 : p = 172 /\ q = 16 /\ n = 12
  OBVIOUS
<1>2. Within(a, <<V4(p, q, 0, 0), n>>) <=> Len(a) = 4 /\ Starts(a, p, q, n)
  BY WithinV4
<1>3. Rest(Clip(n - 8)) = 16
  BY <1>1, Rests DEF Clip
<1>4. a[2] \div 16 = 16 \div 16 <=> a[2] \in 16..31
  BY FirstOctets
<1> QED BY <1>1, <1>2, <1>3, <1>4 DEF Starts

LEMMA Net192 ==
  ASSUME NEW a \in Octets
  PROVE  Within(a, <<V4(192, 168, 0, 0), 16>>) <=> Len(a) = 4 /\ a[1] = 192 /\ a[2] = 168
<1>1. PICK p \in 0..255, q \in 0..255, n \in 8..16 : p = 192 /\ q = 168 /\ n = 16
  OBVIOUS
<1>2. Within(a, <<V4(p, q, 0, 0), n>>) <=> Len(a) = 4 /\ Starts(a, p, q, n)
  BY WithinV4
<1>3. Rest(Clip(n - 8)) = 1
  BY <1>1, Rests DEF Clip
<1>4. a[2] \div 1 = 168 \div 1 <=> a[2] = 168
  BY FirstOctets
<1> QED BY <1>1, <1>2, <1>3, <1>4 DEF Starts

LEMMA Net169 ==
  ASSUME NEW a \in Octets
  PROVE  Within(a, <<V4(169, 254, 0, 0), 16>>) <=> Len(a) = 4 /\ a[1] = 169 /\ a[2] = 254
<1>1. PICK p \in 0..255, q \in 0..255, n \in 8..16 : p = 169 /\ q = 254 /\ n = 16
  OBVIOUS
<1>2. Within(a, <<V4(p, q, 0, 0), n>>) <=> Len(a) = 4 /\ Starts(a, p, q, n)
  BY WithinV4
<1>3. Rest(Clip(n - 8)) = 1
  BY <1>1, Rests DEF Clip
<1>4. a[2] \div 1 = 254 \div 1 <=> a[2] = 254
  BY FirstOctets
<1> QED BY <1>1, <1>2, <1>3, <1>4 DEF Starts

LEMMA Net127 ==
  ASSUME NEW a \in Octets
  PROVE  Within(a, <<V4(127, 0, 0, 0), 8>>) <=> Len(a) = 4 /\ a[1] = 127
<1>1. PICK p \in 0..255, q \in 0..255, n \in 8..16 : p = 127 /\ q = 0 /\ n = 8
  OBVIOUS
<1>2. Within(a, <<V4(p, q, 0, 0), n>>) <=> Len(a) = 4 /\ Starts(a, p, q, n)
  BY WithinV4
<1>3. Rest(Clip(n - 8)) = 256
  BY <1>1, Rests DEF Clip
<1>4. a[2] \div 256 = 0 \div 256
  BY FirstOctets
<1> QED BY <1>1, <1>2, <1>3, <1>4 DEF Starts

LEMMA NetFe80 ==
  ASSUME NEW a \in Octets
  PROVE  Within(a, <<V6(254, 128, 0), 10>>) => Len(a) = 16 /\ a[1] = 254 /\ a[2] \in 128..191
<1>1. PICK p \in 0..255, q \in 0..255, n \in 8..16 : p = 254 /\ q = 128 /\ n = 10
  OBVIOUS
<1>2. Within(a, <<V6(p, q, 0), n>>) => Len(a) = 16 /\ Starts(a, p, q, n)
  BY WithinV6
<1>3. Rest(Clip(n - 8)) = 64
  BY <1>1, Rests DEF Clip
<1>4. a[2] \div 64 = 128 \div 64 => a[2] \in 128..191
  BY FirstOctets
<1> QED BY <1>1, <1>2, <1>3, <1>4 DEF Starts

LEMMA NetFf ==
  ASSUME NEW a \in Octets
  PROVE  Within(a, <<V6(255, 0, 0), 8>>) => Len(a) = 16 /\ a[1] = 255
<1>1. PICK p \in 0..255, q \in 0..255, n \in 8..16 : p = 255 /\ q = 0 /\ n = 8
  OBVIOUS
<1>2. Within(a, <<V6(p, q, 0), n>>) => Len(a) = 16 /\ Starts(a, p, q, n)
  BY WithinV6
<1>3. Rest(Clip(n - 8)) = 256
  BY <1>1, Rests DEF Clip
<1> QED BY <1>1, <1>2, <1>3 DEF Starts

\* The IPv4 ranges of allow_lan are the private and the link-local addresses.
LEMMA LanIsPrivateV4 ==
  ASSUME NEW a \in Octets
  PROVE  WithinAny(a, LanV4) <=> Len(a) = 4 /\ (PrivateV4(a) \/ LinkLocalV4(a))
<1>1. WithinAny(a, LanV4) <=> \/ Within(a, <<V4(10, 0, 0, 0), 8>>)
                              \/ Within(a, <<V4(172, 16, 0, 0), 12>>)
                              \/ Within(a, <<V4(192, 168, 0, 0), 16>>)
                              \/ Within(a, <<V4(169, 254, 0, 0), 16>>)
  BY DEF WithinAny, LanV4
<1> QED BY <1>1, Net10, Net172, Net192, Net169 DEF PrivateV4, LinkLocalV4

\* Everything allow_lan opens is local by the reading of is_public_ip.
LEMMA LanIsLocal ==
  ASSUME NEW a \in Octets, WithinAny(a, LanV4) \/ WithinAny(a, LanV6)
  PROVE  Local(a)
<1>1. CASE WithinAny(a, LanV4)
  BY <1>1, LanIsPrivateV4 DEF Local, IsPublicIp, IsV4, PublicV4
<1>2. CASE WithinAny(a, LanV6)
  <2>1. CASE Within(a, <<V6(254, 128, 0), 10>>)
    <3>1. Len(a) = 16 /\ a[1] = 254 /\ a[2] \in 128..191
      BY <2>1, NetFe80
    <3> QED BY <3>1 DEF EmbedsV4, Local, IsPublicIp, IsV4, PublicV6
  <2>2. CASE Within(a, <<V6(255, 0, 0), 8>>)
    <3>1. Len(a) = 16 /\ a[1] = 255
      BY <2>2, NetFf
    <3> QED BY <3>1 DEF EmbedsV4, Local, IsPublicIp, IsV4, PublicV6
  <2> QED BY <1>2, <2>1, <2>2 DEF WithinAny, LanV6
<1> QED BY <1>1, <1>2

\* So is this machine.
LEMMA LoopbackIsLocal ==
  ASSUME NEW a \in Octets, WithinAny(a, Loopbacks)
  PROVE  Local(a)
<1>1. CASE Within(a, <<V4(127, 0, 0, 0), 8>>)
  <2>1. Len(a) = 4 /\ a[1] = 127
    BY <1>1, Net127
  <2> QED BY <2>1 DEF Local, IsPublicIp, IsV4, PublicV4
<1>2. CASE Within(a, <<V6(0, 0, 1), 128>>)
  <2>1. V6(0, 0, 1) \in Octets /\ 128 = 8 * Len(V6(0, 0, 1))
    BY DEF V6, Octets
  <2>2. a = V6(0, 0, 1)
    <3> DEFINE b == V6(0, 0, 1)
    <3> HIDE DEF b
    <3>1. b \in Octets /\ Within(a, <<b, 8 * Len(b)>>)
      BY <1>2, <2>1 DEF b
    <3>2. a = b
      BY <3>1, WithinOne
    <3> QED BY <3>2 DEF b
  <2>3. Len(a) = 16 /\ (\A i \in 1..15 : a[i] = 0)
    BY <2>2 DEF V6
  <2>4. EmbedsV4(a)
    BY <2>3 DEF EmbedsV4
  <2>5. SubSeq(a, 13, 16)[1] = 0
    BY <2>3 DEF Octets
  <2> QED BY <2>3, <2>4, <2>5 DEF Local, IsPublicIp, IsV4, PublicV6, PublicV4, SpecialV4
<1> QED BY <1>1, <1>2 DEF WithinAny, Loopbacks

\* The resolver on the adapter is no public address.
LEMMA ResolverIsLocal == DnsVia \in Octets /\ IsV4(DnsVia) /\ Local(DnsVia)
  BY DEF DnsVia, V4, Octets, Local, IsPublicIp, IsV4, PublicV4, SpecialV4

-----------------------------------------------------------------------------
(* What a set of filters says of a connection.                             *)

\* The weights in use.
Weights == {0, 8, 9, 10, 12, 13, 14, 15}

\* Some weight of a set of weights is largest.
LEMMA HeaviestWeight ==
  ASSUME NEW S \in SUBSET Weights, S # {}
  PROVE  \E m \in S : \A n \in S : n <= m
<1>1. CASE 15 \in S
  BY <1>1 DEF Weights
<1>2. CASE 14 \in S /\ 15 \notin S
  BY <1>2 DEF Weights
<1>3. CASE 13 \in S /\ 15 \notin S /\ 14 \notin S
  BY <1>3 DEF Weights
<1>4. CASE 12 \in S /\ 15 \notin S /\ 14 \notin S /\ 13 \notin S
  BY <1>4 DEF Weights
<1>5. CASE 10 \in S /\ 15 \notin S /\ 14 \notin S /\ 13 \notin S /\ 12 \notin S
  BY <1>5 DEF Weights
<1>6. CASE 9 \in S /\ 15 \notin S /\ 14 \notin S /\ 13 \notin S /\ 12 \notin S /\ 10 \notin S
  BY <1>6 DEF Weights
<1>7. CASE 8 \in S /\ 15 \notin S /\ 14 \notin S /\ 13 \notin S /\ 12 \notin S /\ 10 \notin S /\ 9 \notin S
  BY <1>7 DEF Weights
<1>8. CASE 0 \in S /\ 15 \notin S /\ 14 \notin S /\ 13 \notin S /\ 12 \notin S /\ 10 \notin S /\ 9 \notin S /\ 8 \notin S
  BY <1>8 DEF Weights
<1> QED BY <1>1, <1>2, <1>3, <1>4, <1>5, <1>6, <1>7, <1>8 DEF Weights

\* Some matching filter is heaviest.
LEMMA Heaviest ==
  ASSUME NEW M, M # {}, \A f \in M : f.weight \in Weights
  PROVE  \E g \in M : \A h \in M : h.weight <= g.weight
<1> DEFINE S == {f.weight : f \in M}
<1>1. S \in SUBSET Weights /\ S # {}
  OBVIOUS
<1>2. PICK m \in S : \A n \in S : n <= m
  <2> HIDE DEF S
  <2> QED BY <1>1, HeaviestWeight
<1>3. PICK g \in M : g.weight = m
  BY <1>2
<1> QED BY <1>2, <1>3

\* Where every match of another action is lighter than some match g, the
\* action of g decides.
LEMMA Decides ==
  ASSUME NEW F, NEW c, NEW g \in F, Matches(g, c),
         \A f \in F : Matches(f, c) =>
           /\ f.weight \in Weights
           /\ f.action = g.action \/ f.weight < g.weight
  PROVE  Verdicts(F, c) = {g.action}
<1> DEFINE M == {f \in F : Matches(f, c)}
           H == {f \in M : \A h \in M : h.weight <= f.weight}
<1>1. g \in M /\ \A f \in M : f.weight \in Weights /\ (f.action = g.action \/ f.weight < g.weight)
  OBVIOUS
<1>2. Verdicts(F, c) = {f.action : f \in H}
  BY <1>1 DEF Verdicts
<1> HIDE DEF M
<1>3. PICK k \in M : k \in H
  BY <1>1, Heaviest
<1>4. ASSUME NEW f \in H
      PROVE  f.action = g.action
  <2>1. f \in M /\ g.weight <= f.weight
    BY <1>1
  <2> QED BY <1>1, <2>1 DEF Weights
<1> HIDE DEF H
<1> QED BY <1>2, <1>3, <1>4

-----------------------------------------------------------------------------
(* The filters of one transaction.                                         *)

\* All sections, the executables whose id was read being k4 and k6.
Complete(s, k4, k6) ==
  BaseFilters \cup LoopbackFilters \cup LanFilters(s) \cup ServerFilters(s)
  \cup AppFilters(s, k4, k6) \cup TunFilters(s) \cup DnsFilters(s)

\* Why a filter matches.
Closed(c, f) == f.action = "block" /\ f.weight = 0
ClosedDns(s, c, f) ==
  f.action = "block" /\ f.weight = 9 /\ s.blockDns /\ c.port = "dns"
ToLoopback(c, f) ==
  f.action = "permit" /\ f.weight = 10 /\ WithinAny(c.dst, Loopbacks)
ToLan(s, c, f) ==
  /\ f.action = "permit" /\ f.weight = 8 /\ s.lan
  /\ WithinAny(c.dst, LanV4) \/ (~s.noV6 /\ WithinAny(c.dst, LanV6))
ToServer(s, c, f) ==
  f.action = "permit" /\ f.weight = 12 /\ c.dst \in s.servers /\ LayerOf(c.dst) \in Layers(s)
FromApp(s, c, f) ==
  f.action = "permit" /\ f.weight = 13 /\ c.app \in AllowedApps(s) /\ LayerOf(c.dst) \in Layers(s)
ToResolver(s, c, f) ==
  f.action = "permit" /\ f.weight = 14 /\ c.dst \in AllowDns(s) /\ c.port = "dns"
IntoTunnel(s, c, f) ==
  f.action = "permit" /\ f.weight = 15 /\ c.iface = "tun" /\ LayerOf(c.dst) \in Layers(s)

Reason(s, c, f) ==
  \/ Closed(c, f) \/ ClosedDns(s, c, f) \/ ToLoopback(c, f) \/ ToLan(s, c, f)
  \/ ToServer(s, c, f) \/ FromApp(s, c, f) \/ ToResolver(s, c, f) \/ IntoTunnel(s, c, f)

\* Destinations are addresses.
LEMMA Destinations ==
  ASSUME NEW c \in Flows
  PROVE  c.dst \in Octets
  BY AddressesAreOctets DEF Flows, Octets

\* A filter for a range matches inside the range only.
LEMMA SubnetMatches ==
  ASSUME NEW c, NEW r, NEW w, r[2] # 0, Matches(AllowSubnet(r, w), c)
  PROVE  Within(c.dst, r) /\ LayerOf(c.dst) = LayerOf(r[1])
<1>1. r # AnyNet
  BY DEF AnyNet
<1>2. AllowSubnet(r, w).net = r /\ AllowSubnet(r, w).layer = LayerOf(r[1])
  BY DEF AllowSubnet, Blank
<1> QED BY <1>1, <1>2 DEF Matches

\* A filter of the transaction matches for one of the eight reasons.
LEMMA Reasons ==
  ASSUME NEW s \in SettingsSpace, NEW k4 \in SUBSET OurPrograms, NEW k6 \in SUBSET OurPrograms,
         NEW c \in Flows, NEW f \in Complete(s, k4, k6), Matches(f, c)
  PROVE  Reason(s, c, f)
<1>1. CASE f \in BaseFilters
  BY <1>1 DEF BaseFilters, BlockAll, Blank, W, Closed, Reason
<1>2. CASE f \in LoopbackFilters
  <2>1. PICK r \in Loopbacks : f = AllowSubnet(r, W.loopback)
    BY <1>2 DEF LoopbackFilters
  <2>2. r[2] # 0
    BY DEF Loopbacks
  <2>3. f.action = "permit" /\ f.weight = 10
    BY <2>1 DEF AllowSubnet, Blank, W
  <2> QED BY <2>1, <2>2, <2>3, SubnetMatches DEF WithinAny, ToLoopback, Reason
<1>3. CASE f \in LanFilters(s)
  <2>1. PICK r \in LanV4 \cup (IF s.noV6 THEN {} ELSE LanV6) : s.lan /\ f = AllowSubnet(r, W.lan)
    BY <1>3 DEF LanFilters
  <2>2. r[2] # 0
    BY DEF LanV4, LanV6
  <2>3. f.action = "permit" /\ f.weight = 8
    BY <2>1 DEF AllowSubnet, Blank, W
  <2>4. Within(c.dst, r)
    BY <2>1, <2>2, SubnetMatches
  <2>5. WithinAny(c.dst, LanV4) \/ (~s.noV6 /\ WithinAny(c.dst, LanV6))
    <3>1. CASE r \in LanV4
      BY <2>4, <3>1 DEF WithinAny
    <3>2. CASE r \in LanV6 /\ ~s.noV6
      BY <2>4, <3>2 DEF WithinAny
    <3> QED BY <2>1, <3>1, <3>2
  <2> QED BY <2>1, <2>3, <2>5 DEF ToLan, Reason
<1>4. CASE f \in ServerFilters(s)
  <2>1. PICK a \in s.servers : LayerOf(a) \in Layers(s) /\ f = AllowAddr(a, W.server)
    BY <1>4 DEF ServerFilters
  <2>2. a \in Octets
    BY AddressesAreOctets DEF SettingsSpace, Octets
  <2>3. 8 * Len(a) # 0
    <3>1. Len(a) \in {4, 16}
      BY <2>2, OctetAt
    <3>2. CASE Len(a) = 4
      BY <3>2
    <3>3. CASE Len(a) = 16
      BY <3>3
    <3> QED BY <3>1, <3>2, <3>3
  <2>4. Within(c.dst, <<a, 8 * Len(a)>>)
    BY <2>1, <2>3, SubnetMatches DEF AllowAddr
  <2>5. c.dst = a
    BY <2>2, <2>4, WithinOne, Destinations
  <2>6. f.action = "permit" /\ f.weight = 12
    BY <2>1 DEF AllowAddr, AllowSubnet, Blank, W
  <2> QED BY <2>1, <2>5, <2>6 DEF ToServer, Reason
<1>5. CASE f \in AppFilters(s, k4, k6)
  <2>1. PICK l \in Layers(s), a \in AllowedApps(s) : f = AllowApp(l, a)
    BY <1>5 DEF AppFilters, Layers, SettingsSpace
  <2>2. f.layer = l /\ f.app = a /\ f.action = "permit" /\ f.weight = 13 /\ a # Wildcard
    BY <2>1 DEF AllowApp, Blank, W, AllowedApps, OurPrograms, Programs, Wildcard
  <2> QED BY <2>2 DEF Matches, FromApp, Reason
<1>6. CASE f \in TunFilters(s)
  <2>1. PICK l \in Layers(s) : f = AllowInterface(l)
    BY <1>6 DEF TunFilters
  <2>2. f.layer = l /\ f.iface = "tun" /\ f.action = "permit" /\ f.weight = 15
    BY <2>1 DEF AllowInterface, Blank, W
  <2> QED BY <2>2 DEF Matches, IntoTunnel, Reason, Wildcard
<1>7. CASE f \in DnsFilters(s)
  <2>1. CASE \E l \in {"v4", "v6"}, p \in {"tcp", "udp"} : s.blockDns /\ f = BlockPort(l, p)
    BY <2>1 DEF BlockPort, Blank, W, Matches, ClosedDns, Reason, Wildcard
  <2>2. CASE \E a \in AllowDns(s), p \in {"tcp", "udp"} : f = AllowAddrPort(a, p)
    <3>1. PICK a \in AllowDns(s), p \in {"tcp", "udp"} : f = AllowAddrPort(a, p)
      BY <2>2
    <3>2. a = DnsVia
      BY DEF AllowDns
    <3>3. /\ f.net = <<a, 8 * Len(a)>> /\ f.port = "dns"
          /\ f.action = "permit" /\ f.weight = 14
      BY <3>1 DEF AllowAddrPort, AllowAddr, AllowSubnet, Blank, W
    <3>4. <<a, 8 * Len(a)>> # AnyNet
      BY <3>2 DEF AnyNet, DnsVia, V4
    <3>5. Within(c.dst, <<a, 8 * Len(a)>>) /\ c.port = "dns"
      BY <3>3, <3>4 DEF Matches, Wildcard
    <3>6. c.dst = a
      BY <3>2, <3>5, ResolverIsLocal, WithinOne, Destinations
    <3> QED BY <3>3, <3>5, <3>6 DEF ToResolver, Reason
  <2> QED BY <1>7, <2>1, <2>2 DEF DnsFilters
<1> QED BY <1>1, <1>2, <1>3, <1>4, <1>5, <1>6, <1>7 DEF Complete

-----------------------------------------------------------------------------
(* What the transaction always contains.                                   *)

\* The lightest filter matches every connection.
LEMMA BlockAllMatches ==
  ASSUME NEW s, NEW k4, NEW k6, NEW c \in Flows
  PROVE  \E f \in Complete(s, k4, k6) :
           Matches(f, c) /\ f.action = "block" /\ f.weight = 0
<1> DEFINE f == BlockAll(LayerOf(c.dst))
<1>1. f \in BaseFilters
  BY DEF BaseFilters, LayerOf
<1>2. /\ f.layer = LayerOf(c.dst) /\ f.net = AnyNet /\ f.app = Wildcard /\ f.port = Wildcard
      /\ f.proto = Wildcard /\ f.iface = Wildcard /\ f.action = "block" /\ f.weight = 0
  BY DEF BlockAll, Blank, W
<1> HIDE DEF f
<1> QED BY <1>1, <1>2 DEF Complete, Matches

\* Leak protection matches every connection to port 53.
LEMMA BlockDnsMatches ==
  ASSUME NEW s, NEW k4, NEW k6, NEW c \in Flows, s.blockDns, c.port = "dns"
  PROVE  \E f \in Complete(s, k4, k6) :
           Matches(f, c) /\ f.action = "block" /\ f.weight = 9
<1> DEFINE f == BlockPort(LayerOf(c.dst), c.proto)
<1>1. f \in DnsFilters(s)
  BY DEF DnsFilters, LayerOf, Flows
<1>2. /\ f.layer = LayerOf(c.dst) /\ f.net = AnyNet /\ f.app = Wildcard /\ f.port = "dns"
      /\ f.proto = c.proto /\ f.iface = Wildcard /\ f.action = "block" /\ f.weight = 9
  BY DEF BlockPort, Blank, W
<1> HIDE DEF f
<1> QED BY <1>1, <1>2 DEF Complete, Matches

\* The way to the server.
LEMMA ServerMatches ==
  ASSUME NEW s, NEW k4, NEW k6, NEW c \in Flows,
         c.dst \in s.servers, LayerOf(c.dst) \in Layers(s)
  PROVE  \E f \in Complete(s, k4, k6) :
           Matches(f, c) /\ f.action = "permit" /\ f.weight = 12
<1> DEFINE f == AllowAddr(c.dst, W.server)
<1>1. f \in ServerFilters(s)
  BY DEF ServerFilters
<1>2. /\ f.layer = LayerOf(c.dst) /\ f.net = <<c.dst, 8 * Len(c.dst)>> /\ f.app = Wildcard
      /\ f.port = Wildcard /\ f.proto = Wildcard /\ f.iface = Wildcard /\ f.action = "permit"
      /\ f.weight = 12
  BY DEF AllowAddr, AllowSubnet, Blank, W
<1>3. Within(c.dst, <<c.dst, 8 * Len(c.dst)>>)
  BY Destinations, WithinOne
<1> HIDE DEF f
<1> QED BY <1>1, <1>2, <1>3 DEF Complete, Matches

\* The way to the local network.
LEMMA LanMatches ==
  ASSUME NEW s, NEW k4, NEW k6, NEW c \in Flows, s.lan, IsV4(c.dst),
         WithinAny(c.dst, LanV4)
  PROVE  \E f \in Complete(s, k4, k6) :
           Matches(f, c) /\ f.action = "permit" /\ f.weight = 8
<1>1. PICK r \in LanV4 : Within(c.dst, r)
  BY DEF WithinAny
<1> DEFINE f == AllowSubnet(r, W.lan)
<1>2. f \in LanFilters(s)
  BY DEF LanFilters
<1>3. LayerOf(r[1]) = LayerOf(c.dst)
  BY DEF LanV4, LayerOf, IsV4, V4
<1>4. /\ f.layer = LayerOf(c.dst) /\ f.net = r /\ f.app = Wildcard /\ f.port = Wildcard
      /\ f.proto = Wildcard /\ f.iface = Wildcard /\ f.action = "permit" /\ f.weight = 8
  BY <1>3 DEF AllowSubnet, Blank, W
<1> HIDE DEF f
<1> QED BY <1>1, <1>2, <1>4 DEF Complete, Matches

\* The way to the resolver on the adapter.
LEMMA ResolverMatches ==
  ASSUME NEW s, NEW k4, NEW k6, NEW c \in Flows,
         c.dst \in AllowDns(s), c.port = "dns"
  PROVE  \E f \in Complete(s, k4, k6) :
           Matches(f, c) /\ f.action = "permit" /\ f.weight = 14
<1> DEFINE f == AllowAddrPort(c.dst, c.proto)
<1>1. s.blockDns /\ c.proto \in {"tcp", "udp"}
  BY DEF AllowDns, Flows
<1>2. f \in DnsFilters(s)
  BY <1>1 DEF DnsFilters
<1>3. /\ f.layer = LayerOf(c.dst) /\ f.net = <<c.dst, 8 * Len(c.dst)>> /\ f.app = Wildcard
      /\ f.port = "dns" /\ f.proto = c.proto /\ f.iface = Wildcard /\ f.action = "permit"
      /\ f.weight = 14
  BY DEF AllowAddrPort, AllowAddr, AllowSubnet, Blank, W
<1>4. Within(c.dst, <<c.dst, 8 * Len(c.dst)>>)
  BY Destinations, WithinOne
<1> HIDE DEF f
<1> QED BY <1>2, <1>3, <1>4 DEF Complete, Matches

-----------------------------------------------------------------------------
(* What a complete set of filters closes and leaves open.                  *)

\* A connection that only blocks match is blocked; a permit for the local network
\* yields to leak protection.
LEMMA BlocksUnless ==
  ASSUME NEW s \in SettingsSpace, NEW k4 \in SUBSET OurPrograms, NEW k6 \in SUBSET OurPrograms,
         NEW c \in Flows,
         \A f \in Complete(s, k4, k6) :
           Reason(s, c, f) => \/ Closed(c, f) \/ ClosedDns(s, c, f)
                              \/ (s.blockDns /\ c.port = "dns" /\ ToLan(s, c, f))
  PROVE  Blocks(Complete(s, k4, k6), c)
<1> DEFINE F == Complete(s, k4, k6)
<1>1. ASSUME NEW f \in F, Matches(f, c)
      PROVE  Reason(s, c, f)
  BY <1>1, Reasons
<1>2. \A f \in F : Matches(f, c) => \/ Closed(c, f) \/ ClosedDns(s, c, f)
                                     \/ (s.blockDns /\ c.port = "dns" /\ ToLan(s, c, f))
  BY <1>1
<1>3. CASE s.blockDns /\ c.port = "dns"
  <2>1. PICK g \in F : Matches(g, c) /\ g.action = "block" /\ g.weight = 9
    BY <1>3, BlockDnsMatches
  <2>2. \A f \in F : Matches(f, c) => f.weight \in Weights /\ (f.action = "block" \/ f.weight < 9)
    BY <1>2 DEF Closed, ClosedDns, ToLan, Weights
  <2> HIDE DEF F
  <2>3. Verdicts(F, c) = {g.action}
    BY <2>1, <2>2, Decides
  <2> QED BY <2>1, <2>3 DEF Blocks, F
<1>4. CASE ~(s.blockDns /\ c.port = "dns")
  <2>1. PICK g \in F : Matches(g, c) /\ g.action = "block" /\ g.weight = 0
    BY BlockAllMatches
  <2>2. \A f \in F : Matches(f, c) => f.weight \in Weights /\ f.action = "block"
    BY <1>2, <1>4 DEF Closed, ClosedDns, Weights
  <2> HIDE DEF F
  <2>3. Verdicts(F, c) = {g.action}
    BY <2>1, <2>2, Decides
  <2> QED BY <2>1, <2>3 DEF Blocks, F
<1> QED BY <1>3, <1>4

\* A match that outweighs every block there is for the connection.
LEMMA PermitsIf ==
  ASSUME NEW s \in SettingsSpace, NEW k4 \in SUBSET OurPrograms, NEW k6 \in SUBSET OurPrograms,
         NEW c \in Flows, NEW g \in Complete(s, k4, k6),
         Matches(g, c), g.action = "permit", g.weight \in Weights \ {0},
         s.blockDns /\ c.port = "dns" => g.weight > 9
  PROVE  Permits(Complete(s, k4, k6), c)
<1> DEFINE F == Complete(s, k4, k6)
<1>1. ASSUME NEW f \in F, Matches(f, c)
      PROVE  f.weight \in Weights /\ (f.action = g.action \/ f.weight < g.weight)
  <2>1. Reason(s, c, f)
    BY <1>1, Reasons
  <2> QED BY <2>1 DEF Reason, Closed, ClosedDns, ToLoopback, ToLan, ToServer, FromApp,
                      ToResolver, IntoTunnel, Weights
<1> HIDE DEF F
<1>2. Verdicts(F, c) = {g.action}
  <2>1. g \in F
    BY DEF F
  <2> QED BY <1>1, <2>1, Decides
<1> QED BY <1>2 DEF Permits, F

\* The filters of one whole transaction.
Full(s, F) == \E k4, k6 \in SUBSET OurPrograms : F = Complete(s, k4, k6)

\* A foreign program has none of the reasons a permit needs.
LEMMA LeaksNothing ==
  ASSUME settings \in SettingsSpace, Full(settings, installed)
  PROVE  NothingLeaks
<1> SUFFICES ASSUME NEW c \in Flows,
                    c.app = "other", c.iface = "nic", c.dst \notin settings.servers,
                    ~WithinAny(c.dst, Loopbacks),
                    c.dst \notin AllowDns(settings) \/ c.port # "dns",
                    settings.lan => ~Local(c.dst)
             PROVE  Blocks(installed, c)
  BY DEF NothingLeaks
<1>1. PICK k4 \in SUBSET OurPrograms, k6 \in SUBSET OurPrograms : installed = Complete(settings, k4, k6)
  BY DEF Full
<1>2. c.app \notin AllowedApps(settings)
  BY DEF AllowedApps, OurPrograms
<1>3. settings.lan => ~WithinAny(c.dst, LanV4) /\ ~WithinAny(c.dst, LanV6)
  BY LanIsLocal, Destinations
<1>4. ASSUME NEW f \in Complete(settings, k4, k6), Reason(settings, c, f)
      PROVE  Closed(c, f) \/ ClosedDns(settings, c, f)
  BY <1>2, <1>3, <1>4 DEF Reason, ToLoopback, ToLan, ToServer, FromApp, ToResolver, IntoTunnel
<1> QED BY <1>1, <1>4, BlocksUnless

\* On port 53 the permit for the local network is outweighed.
LEMMA DnsSealed ==
  ASSUME settings \in SettingsSpace, Full(settings, installed)
  PROVE  DnsIsSealed
<1> SUFFICES ASSUME settings.blockDns, NEW c \in Flows,
                    c.app = "other", c.iface = "nic", c.port = "dns",
                    c.dst \notin settings.servers \cup AllowDns(settings),
                    ~WithinAny(c.dst, Loopbacks)
             PROVE  Blocks(installed, c)
  BY DEF DnsIsSealed
<1>1. PICK k4 \in SUBSET OurPrograms, k6 \in SUBSET OurPrograms : installed = Complete(settings, k4, k6)
  BY DEF Full
<1>2. c.app \notin AllowedApps(settings)
  BY DEF AllowedApps, OurPrograms
<1>3. ASSUME NEW f \in Complete(settings, k4, k6), Reason(settings, c, f)
      PROVE  Closed(c, f) \/ ClosedDns(settings, c, f) \/ ToLan(settings, c, f)
  BY <1>2, <1>3 DEF Reason, ToLoopback, ToServer, FromApp, ToResolver, IntoTunnel
<1> QED BY <1>1, <1>3, BlocksUnless

\* Without IPv6 no permit but loopback has an IPv6 address.
LEMMA V6Sealed ==
  ASSUME settings \in SettingsSpace, Full(settings, installed)
  PROVE  V6IsSealed
<1> SUFFICES ASSUME settings.noV6, NEW c \in Flows,
                    LayerOf(c.dst) = "v6", ~WithinAny(c.dst, Loopbacks)
             PROVE  Blocks(installed, c)
  BY DEF V6IsSealed
<1>1. PICK k4 \in SUBSET OurPrograms, k6 \in SUBSET OurPrograms : installed = Complete(settings, k4, k6)
  BY DEF Full
<1>2. LayerOf(c.dst) \notin Layers(settings)
  BY DEF Layers
<1>3. Len(c.dst) # 4
  BY DEF LayerOf, IsV4
<1>4. ~WithinAny(c.dst, LanV4)
  BY <1>3, LanIsPrivateV4, Destinations
<1>5. c.dst \notin AllowDns(settings)
  BY <1>3, ResolverIsLocal DEF AllowDns, IsV4
<1>6. ASSUME NEW f \in Complete(settings, k4, k6), Reason(settings, c, f)
      PROVE  Closed(c, f) \/ ClosedDns(settings, c, f)
  BY <1>2, <1>4, <1>5, <1>6
     DEF Reason, ToLoopback, ToLan, ToServer, FromApp, ToResolver, IntoTunnel
<1> QED BY <1>1, <1>6, BlocksUnless

\* The engine without its own permit is a program like any other.
LEMMA EngineHeld ==
  ASSUME settings \in SettingsSpace, Full(settings, installed)
  PROVE  StrictHoldsTheEngine
<1> SUFFICES ASSUME settings.strict, NEW c \in Flows,
                    c.app = "engine", c.iface = "nic", ~Local(c.dst),
                    c.dst \notin settings.servers
             PROVE  Blocks(installed, c)
  BY DEF StrictHoldsTheEngine
<1>1. PICK k4 \in SUBSET OurPrograms, k6 \in SUBSET OurPrograms : installed = Complete(settings, k4, k6)
  BY DEF Full
<1>2. c.app \notin AllowedApps(settings)
  BY DEF AllowedApps
<1>3. /\ ~WithinAny(c.dst, LanV4) /\ ~WithinAny(c.dst, LanV6)
      /\ ~WithinAny(c.dst, Loopbacks)
  BY LanIsLocal, LoopbackIsLocal, Destinations
<1>4. c.dst \notin AllowDns(settings)
  BY ResolverIsLocal DEF AllowDns
<1>5. ASSUME NEW f \in Complete(settings, k4, k6), Reason(settings, c, f)
      PROVE  Closed(c, f) \/ ClosedDns(settings, c, f)
  BY <1>2, <1>3, <1>4, <1>5
     DEF Reason, ToLoopback, ToLan, ToServer, FromApp, ToResolver, IntoTunnel
<1> QED BY <1>1, <1>5, BlocksUnless

\* Weight 12 outweighs both blocks.
LEMMA ServerReachable ==
  ASSUME settings \in SettingsSpace, Full(settings, installed)
  PROVE  ServerStaysReachable
<1> SUFFICES ASSUME NEW c \in Flows,
                    c.dst \in settings.servers, LayerOf(c.dst) \in Layers(settings)
             PROVE  Permits(installed, c)
  BY DEF ServerStaysReachable
<1>1. PICK k4 \in SUBSET OurPrograms, k6 \in SUBSET OurPrograms : installed = Complete(settings, k4, k6)
  BY DEF Full
<1>2. PICK g \in Complete(settings, k4, k6) :
        Matches(g, c) /\ g.action = "permit" /\ g.weight = 12
  BY ServerMatches
<1>3. g.weight \in Weights \ {0} /\ g.weight > 9
  BY <1>2 DEF Weights
<1> QED BY <1>1, <1>2, <1>3, PermitsIf

\* Weight 8 outweighs block-all, weight 14 the block of port 53.
LEMMA PromisedOpen ==
  ASSUME settings \in SettingsSpace, Full(settings, installed)
  PROVE  PromisedStaysOpen
<1>1. PICK k4 \in SUBSET OurPrograms, k6 \in SUBSET OurPrograms : installed = Complete(settings, k4, k6)
  BY DEF Full
<1>2. ASSUME NEW c \in Flows, settings.lan, IsV4(c.dst),
             PrivateV4(c.dst) \/ LinkLocalV4(c.dst),
             settings.blockDns => c.port # "dns"
      PROVE  Permits(installed, c)
  <2>1. WithinAny(c.dst, LanV4)
    BY <1>2, LanIsPrivateV4, Destinations DEF IsV4
  <2>2. PICK g \in Complete(settings, k4, k6) :
          Matches(g, c) /\ g.action = "permit" /\ g.weight = 8
    BY <1>2, <2>1, LanMatches
  <2>3. g.weight \in Weights \ {0}
    BY <2>2 DEF Weights
  <2>4. ~(settings.blockDns /\ c.port = "dns")
    BY <1>2
  <2> QED BY <1>1, <2>2, <2>3, <2>4, PermitsIf
<1>3. ASSUME NEW c \in Flows, c.dst \in AllowDns(settings), c.port = "dns"
      PROVE  Permits(installed, c)
  <2>1. PICK g \in Complete(settings, k4, k6) :
          Matches(g, c) /\ g.action = "permit" /\ g.weight = 14
    BY <1>3, ResolverMatches
  <2>2. g.weight \in Weights \ {0} /\ g.weight > 9
    BY <2>1 DEF Weights
  <2> QED BY <1>1, <2>1, <2>2, PermitsIf
<1> QED BY <1>2, <1>3 DEF PromisedStaysOpen

-----------------------------------------------------------------------------
(* The transaction.                                                        *)

\* What each stage has added so far; nothing is in force meanwhile.
Transaction ==
  /\ settings \in SettingsSpace
  /\ stage \in {"idle", "base", "loopback", "lan", "server", "apps", "tun", "dns", "commit"}
  /\ stage # "idle" => installed = {}
  /\ stage \in {"idle", "base"} => pending = {}
  /\ stage = "loopback" => pending = BaseFilters
  /\ stage = "lan" => pending = BaseFilters \cup LoopbackFilters
  /\ stage = "server" => pending = BaseFilters \cup LoopbackFilters \cup LanFilters(settings)
  /\ stage = "apps" => pending = BaseFilters \cup LoopbackFilters \cup LanFilters(settings)
                                \cup ServerFilters(settings)
  /\ stage = "tun" => \E k4, k6 \in SUBSET OurPrograms :
       pending = BaseFilters \cup LoopbackFilters \cup LanFilters(settings)
                 \cup ServerFilters(settings) \cup AppFilters(settings, k4, k6)
  /\ stage = "dns" => \E k4, k6 \in SUBSET OurPrograms :
       pending = BaseFilters \cup LoopbackFilters \cup LanFilters(settings)
                 \cup ServerFilters(settings) \cup AppFilters(settings, k4, k6)
                 \cup TunFilters(settings)
  /\ stage = "commit" => Full(settings, pending)

\* What is in force came from one whole transaction.
AllOrNothing == installed # {} => Full(settings, installed)

\* The first state.
LEMMA InitTransaction == FiltersInit => Transaction /\ AllOrNothing
  BY DEF FiltersInit, Transaction, AllOrNothing, Off, SettingsSpace

\* Every step.
LEMMA NextTransaction ==
  Transaction /\ AllOrNothing /\ [FiltersNext]_filterVars => Transaction' /\ AllOrNothing'
<1> SUFFICES ASSUME Transaction, AllOrNothing, [FiltersNext]_filterVars
             PROVE  Transaction' /\ AllOrNothing'
  OBVIOUS
<1>1. ASSUME NEW s \in SettingsSpace, Begin(s)
      PROVE  Transaction' /\ AllOrNothing'
  BY <1>1 DEF Begin, Transaction, AllOrNothing
<1>2. CASE AddBase
  BY <1>2 DEF AddBase, AddBare, Add, Transaction, AllOrNothing
<1>3. CASE AddLoopback
  BY <1>3 DEF AddLoopback, Add, Transaction, AllOrNothing
<1>4. CASE AddLan
  BY <1>4 DEF AddLan, Add, Transaction, AllOrNothing
<1>5. CASE AddServers
  BY <1>5 DEF AddServers, Add, Transaction, AllOrNothing
<1>6. CASE AddApps
  BY <1>6 DEF AddApps, Add, Transaction, AllOrNothing
<1>7. CASE AddTun
  BY <1>7 DEF AddTun, Add, Transaction, AllOrNothing
<1>8. CASE AddDns
  BY <1>8 DEF AddDns, Add, Transaction, AllOrNothing, Full, Complete
<1>9. CASE Commit
  BY <1>9 DEF Commit, Transaction, AllOrNothing
<1>10. CASE Abort
  BY <1>10 DEF Abort, Transaction, AllOrNothing
<1>11. CASE Drop
  BY <1>11 DEF Drop, Transaction, AllOrNothing
<1>12. CASE UNCHANGED filterVars
  BY <1>12 DEF filterVars, Transaction, AllOrNothing
<1> QED BY <1>1, <1>2, <1>3, <1>4, <1>5, <1>6, <1>7, <1>8, <1>9, <1>10, <1>11, <1>12 DEF FiltersNext

\* The invariant of the transaction.
LEMMA TransactionHolds == FiltersSpec => [](Transaction /\ AllOrNothing)
  BY InitTransaction, NextTransaction, PTL DEF FiltersSpec

\* The allowlist of firewall.rs is exact whatever the addresses of the
\* machine, the server and its resolvers are: what the kill switch promises
\* to close is closed whenever its filters are in force, after every
\* sequence of connects, toggles, failures and drops.
THEOREM AlwaysSealed == FiltersSpec => []Sealed
<1>1. Transaction /\ AllOrNothing => Sealed
  <2>1. CASE installed = {}
    BY <2>1 DEF Sealed, NothingLeaks, DnsIsSealed, V6IsSealed, StrictHoldsTheEngine, Active
  <2>2. ASSUME Transaction, AllOrNothing, installed # {}
        PROVE  Sealed
    BY <2>2, LeaksNothing, DnsSealed, V6Sealed, EngineHeld DEF Transaction, AllOrNothing, Sealed
  <2> QED BY <2>1, <2>2
<1> QED BY <1>1, TransactionHolds, PTL

\* And what it promises to leave open is open: no step of the transaction
\* that fails leaves a user behind a block-all without the way to the server.
THEOREM AlwaysOpen == FiltersSpec => []StaysOpen
<1>1. Transaction /\ AllOrNothing => StaysOpen
  <2>1. CASE installed = {}
    BY <2>1 DEF StaysOpen, ServerStaysReachable, PromisedStaysOpen, Active
  <2>2. ASSUME Transaction, AllOrNothing, installed # {}
        PROVE  StaysOpen
    BY <2>2, ServerReachable, PromisedOpen DEF Transaction, AllOrNothing, StaysOpen
  <2> QED BY <2>1, <2>2
<1> QED BY <1>1, TransactionHolds, PTL
=============================================================================
