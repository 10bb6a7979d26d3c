--------------------------- MODULE MCFlowAssembly ---------------------------
(* Captures of up to MaxPackets packets over a web port, a DNS port and a port *)
(* of no known protocol.                                                       *)
EXTENDS FlowAssembly

CONSTANTS web, dns, odd, MaxPackets

MCKeys == {web, dns, odd}
MCTcpKeys == {web, odd}
MCPortProtocol == (web :> "HTTP") @@ (dns :> "DNS") @@ (odd :> "UNKNOWN")

Seg(key, side, syn, payload, at) ==
    [kind |-> "SEGMENT", key |-> key, side |-> side, syn |-> syn, payload |-> payload, at |-> at]

MCPackets ==
    { Seg(web, "LEFT", TRUE, "NONE", 1), Seg(web, "LEFT", FALSE, "REQUEST", 1),
      Seg(web, "LEFT", FALSE, "REFUSED_REQUEST", 1), Seg(web, "RIGHT", FALSE, "RESPONSE", 2),
      Seg(web, "RIGHT", FALSE, "REFUSED_RESPONSE", 2), Seg(web, "RIGHT", TRUE, "REQUEST", 2),
      Seg(odd, "LEFT", TRUE, "NONE", 1), Seg(odd, "LEFT", FALSE, "REQUEST", 1),
      Seg(odd, "RIGHT", FALSE, "TLS_HELLO", 1),
      Seg(dns, "LEFT", FALSE, "QUERY", 1), Seg(dns, "RIGHT", FALSE, "ANSWER", 2),
      Seg(odd, "LEFT", FALSE, "BREAKING_REQUEST", 1), Seg(web, "RIGHT", FALSE, "BREAKING_RESPONSE", 2),
      Seg(dns, "LEFT", FALSE, "REFUSED_DNS", 1),
      [kind |-> "NO_PORTS", at |-> 1], [kind |-> "NOT_IPV4", at |-> 1],
      [kind |-> "UNREADABLE", at |-> 1] }

MCFiles == BoundedSeq(MCPackets, MaxPackets)

\* Captures as a capturing host writes them: in the order of their timestamps.
MCOrderedFiles == {f \in MCFiles: IsSorted(f, LAMBDA p, q: p.at <= q.at)}
=============================================================================
