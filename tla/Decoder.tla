------------------------------- MODULE Decoder -------------------------------
(***************************************************************************)
(* What packetsage-core/src/decoder makes of one frame.  The slicing of    *)
(* bytes is the external crate etherparse: a frame already says which      *)
(* layers the bytes hold, or where slicing fails.                          *)
(*                                                                         *)
(* A frame is [linktype, fault, net, tr, len, content, cap, orig]:         *)
(*   fault    None, or what etherparse refuses: [kind, layer, short]       *)
(*   net      None, or [proto, src, dst, version, frag]                    *)
(*   tr       None, or [proto, sport, dport, flags, seq]                   *)
(*   len      bytes of innermost payload                                   *)
(*   content  what the payload is: [proto, fields], or None                *)
(*   cap,orig captured and original length                                 *)
(* Addresses are numbers.  Wording of errors and MAC addresses are left    *)
(* out.                                                                    *)
(***************************************************************************)
EXTENDS Integers, Sequences, FiniteSets, TLC, Optional

Linktypes == {"ethernet", "linux_sll"}

\* What etherparse gives: numbers where the layers have them, and nothing of the
\* layers above in a fragment.
IsFrame(f) ==
  /\ f.len \in Nat /\ f.cap \in Nat /\ f.orig \in Nat
  /\ f.net # None => f.net.src \in Int /\ f.net.dst \in Int /\ (f.net.frag => f.tr = None)
  /\ f.tr # None => /\ f.tr.sport \in Nat \cup {None} /\ f.tr.dport \in Nat \cup {None}
                    /\ DOMAIN f.tr = {"proto", "sport", "dport", "flags", "seq"}
                    /\ f.tr.proto \in {"tcp", "udp", "icmp", "icmpv6"}
  /\ f.content # None => \A x \in DOMAIN f.content.fields \ {"tls.sni", "http.host"} :
                          f.content.fields[x] \in Int

NoDecode == [link |-> None, net |-> None, tr |-> None, app |-> None, len |-> 0, errors |-> <<>>]

\* classify_slice_error: the layer a length error is blamed on.
LenLayer(layer) ==
  CASE layer \in {"LinuxSllHeader", "Ethernet2Header", "EtherPayload", "VlanHeader",
                  "MacsecHeader", "MacsecPacket"}                           -> "link"
    [] layer \in {"IpHeader", "Ipv4Header", "Ipv4Packet", "IpAuthHeader", "Arp"} -> "ipv4"
    [] layer \in {"Ipv6Header", "Ipv6Packet", "Ipv6ExtHeader"}              -> "ipv6"
    [] layer \in {"UdpHeader", "UdpPayload"}                                -> "udp"
    [] layer = "TcpHeader"                                                  -> "tcp"
    [] layer \in {"Icmpv4", "Icmpv4Timestamp"}                              -> "icmp"
    [] layer = "Icmpv6"                                                     -> "icmpv6"

Classify(fault) ==
  IF fault.kind = "Len"
  THEN [layer |-> LenLayer(fault.layer),
        code  |-> IF fault.short THEN "truncated_header" ELSE "bad_length"]
  ELSE [layer |-> CASE fault.kind \in {"LinuxSll", "Macsec"}       -> "link"
                    [] fault.kind \in {"Ip", "Ipv4", "Ipv4Exts"}   -> "ipv4"
                    [] fault.kind \in {"Ipv6", "Ipv6Exts"}         -> "ipv6"
                    [] fault.kind = "Tcp"                          -> "tcp",
        code  |-> "invalid_field"]

\* detect: the first enabled protocol whose ports and content fit.
Detect(f, tr) ==
  LET ports  == {tr.sport, tr.dport}
      Is(p)  == f.content.proto = p
      isUdp  == f.net # None /\ f.net.proto = "udp"
  IN  IF \/ f.content = None
         \/ Is("dhcp") /\ ~ (isUdp /\ ports \cap {67, 68} # {})
         \/ Is("dns") /\ 53 \notin ports
         \/ (Is("tls") \/ Is("http")) /\ isUdp
      THEN None ELSE f.content

\* transport_info: only TCP carries flags and a sequence number.
TransportInfo(tr) ==
  IF tr = None THEN None
  ELSE CASE tr.proto = "tcp" -> tr
         [] tr.proto = "udp" -> [tr EXCEPT !.flags = {}, !.seq = None]
         [] tr.proto \in {"icmp", "icmpv6"} ->
              [tr EXCEPT !.sport = None, !.dport = None, !.flags = {}, !.seq = None]

\* decode: a frame is refused whole, with one error, or decoded without any.
Decode(f) ==
  IF f.linktype \notin Linktypes
  THEN [NoDecode EXCEPT !.errors = <<[layer |-> "link", code |-> "unsupported_linktype"]>>]
  ELSE IF f.fault # None THEN [NoDecode EXCEPT !.errors = <<Classify(f.fault)>>]
  ELSE LET tr == TransportInfo(f.tr)
       IN  [NoDecode EXCEPT
              !.link = f.linktype, !.net = f.net, !.tr = tr, !.len = f.len,
              !.app = IF tr # None /\ f.len > 0 /\ ~ (f.net # None /\ f.net.frag)
                      THEN Detect(f, tr) ELSE None]

Status(d) ==
  IF d.errors = <<>> THEN "ok" ELSE IF d.net # None \/ d.tr # None THEN "partial" ELSE "error"
=============================================================================
