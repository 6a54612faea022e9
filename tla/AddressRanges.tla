---------------------------- MODULE AddressRanges ----------------------------
(***************************************************************************)
(* The address ranges that three files of the backend write down           *)
(* independently: the TUN exclusions of mihomo_config.rs, the LAN filters  *)
(* of the kill switch (firewall.rs) and                                    *)
(* the octet predicates of routing_profile::is_public_ip.  An address is   *)
(* the sequence of its octets, 4 or 16; a range is <<address, prefix>>.    *)
(***************************************************************************)
EXTENDS Integers, Sequences

Clip(n) == IF n < 0 THEN 0 ELSE IF n > 8 THEN 8 ELSE n

\* 2^(8 - n), by which an octet is divided when only its first n bits count.
Rest(n) == <<256, 128, 64, 32, 16, 8, 4, 2, 1>>[n + 1]

\* FWP_V4_ADDR_AND_MASK and FWP_V6_ADDR_AND_MASK: equality under the mask.
Within(a, range) ==
  LET base == range[1]
      Octet(x, i) == x[i] \div Rest(Clip(range[2] - 8 * (i - 1)))
  IN  /\ Len(a) = Len(base)
      /\ \A i \in 1..Len(a) : Octet(a, i) = Octet(base, i)

WithinAny(a, ranges) == \E r \in ranges : Within(a, r)

V4(p, q, r, s) == <<p, q, r, s>>

\* 16 octets of which only the first two and the last are not zero.
V6(p, q, z) == <<p, q, 0, 0, 0, 0, 0, 0, 0, 0, 0, 0, 0, 0, 0, z>>

IsV4(a) == Len(a) = 4

Loopbacks == {<<V4(127, 0, 0, 0), 8>>, <<V6(0, 0, 1), 128>>}

\* The TUN adapter does not take these over.
RouteExclude == {<<V4(10, 0, 0, 0), 8>>, <<V4(172, 16, 0, 0), 12>>,
                 <<V4(192, 168, 0, 0), 16>>, <<V4(169, 254, 0, 0), 16>>,
                 <<V6(252, 0, 0), 7>>, <<V6(254, 128, 0), 10>>}

\* What allow_lan opens in the kill switch.
LanV4 == {<<V4(10, 0, 0, 0), 8>>, <<V4(172, 16, 0, 0), 12>>,
          <<V4(192, 168, 0, 0), 16>>, <<V4(169, 254, 0, 0), 16>>}

LanV6 == {<<V6(254, 128, 0), 10>>, <<V6(255, 0, 0), 8>>}

-----------------------------------------------------------------------------
(* is_public_ip, octet by octet as the code writes it.                     *)

SpecialV4(a) == \/ a[1] = 0
                \/ a[1] = 100 /\ a[2] \in 64..127
                \/ a[1] = 192 /\ a[2] = 0 /\ a[3] = 0
                \/ a[1] = 198 /\ a[2] \in {18, 19}
                \/ a[1] >= 240

PrivateV4(a) == \/ a[1] = 10
                \/ a[1] = 172 /\ a[2] \in 16..31
                \/ a[1] = 192 /\ a[2] = 168

LinkLocalV4(a) == a[1] = 169 /\ a[2] = 254

PublicV4(a) == ~(\/ SpecialV4(a) \/ PrivateV4(a) \/ LinkLocalV4(a)
                 \/ a[1] = 127 \/ a[1] \in 224..239)

\* Ipv6Addr::to_ipv4: the mapped (::ffff:a.b.c.d) and the compatible form.
EmbedsV4(a) == /\ \A i \in 1..10 : a[i] = 0
               /\ a[11] = a[12] /\ a[11] \in {0, 255}

PublicV6(a) ==
  IF EmbedsV4(a) THEN PublicV4(SubSeq(a, 13, 16))
  ELSE ~(\/ a[1] \in 252..253
         \/ a[1] = 254 /\ a[2] \in 128..191
         \/ a[1] = 255)

IsPublicIp(a) == IF IsV4(a) THEN PublicV4(a) ELSE PublicV6(a)
=============================================================================
