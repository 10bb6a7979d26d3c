---------------------------- MODULE FlowAssembly ----------------------------
(***************************************************************************)
(* From a capture file to evidence: pcap/manifest.py scans a file into a   *)
(* CaptureRecord, pcap/parser.py decodes its packets, assembles flows,     *)
(* pairs HTTP requests with responses, reads DNS records and gives every   *)
(* derived event an evidence record that locates its packet; the runtime   *)
(* then imports the first of them.                                         *)
(*                                                                         *)
(* A packet is abstracted to what those steps look at: the endpoint pair   *)
(* (key) and its side that sent it, whether it is a SYN without ACK, what  *)
(* its payload parses as, and its timestamp.  Identifiers are the tuples   *)
(* the code hashes.  Indexes count packets from 1, as the reader does.     *)
(***************************************************************************)
EXTENDS Integers, SequencesExt

CONSTANTS
    Keys,           \* endpoint pairs, with their transport (the base key of a flow)
    TcpKeys,        \* those of TCP
    PortProtocol,   \* [Keys -> the application protocol their ports suggest]
    Files,          \* the capture files: sequences of packets
    ImportLimit     \* how many evidence records a run imports (20 in the code)

ASSUME KeysAssumption ==
    /\ TcpKeys \subseteq Keys
    /\ PortProtocol \in [Keys -> {"HTTP", "DNS", "TLS", "DATABASE", "UNKNOWN"}]
    /\ ImportLimit \in Nat

\* What a payload is to the parsers.  HTTP_TEXT begins like HTTP and does not
\* parse; REFUSED_REQUEST parses as a request that the event schema refuses, or
\* fails with another ValueError.  The others leave the parser with an exception:
\*   BREAKING_REQUEST   a header given twice is a list to dpkt, and redact_text or
\*                      dpkt itself (Content-Length) raises a TypeError;
\*   BREAKING_RESPONSE  dpkt raises so on a response;
\*   REFUSED_RESPONSE   parses, but its headers, status or event raise when it
\*                      completes a request;
\*   REFUSED_DNS        parses, but the question, an answer or the event raises.
Payloads == {"NONE", "HTTP_TEXT", "REQUEST", "REFUSED_REQUEST", "BREAKING_REQUEST",
             "RESPONSE", "REFUSED_RESPONSE", "BREAKING_RESPONSE",
             "TLS_HELLO", "QUERY", "ANSWER", "REFUSED_DNS", "OTHER"}

Segment == [kind: {"SEGMENT"}, key: Keys, side: {"LEFT", "RIGHT"}, syn: BOOLEAN,
            payload: Payloads, at: Nat]

\* IPv4 without ports (a fragment is one), not IPv4, and a packet whose decoding raises.
Packet == Segment \cup [kind: {"NO_PORTS", "NOT_IPV4", "UNREADABLE"}, at: Nat]

ASSUME FilesAssumption == Files \subseteq Seq(Packet)

VARIABLES
    file,       \* the capture file
    phase,      \* how far it has been processed
    format,     \* CaptureRecord.format
    cursor,     \* the next packet _build_flows looks at
    active,     \* accumulators by key, in the order they were opened
    ordinals,   \* [Keys -> streams of the key completed so far]
    completed,  \* accumulators that wait to be emitted
    result,     \* NormalizedCapture
    imported    \* evidence the run has imported

vars == <<file, phase, format, cursor, active, ordinals, completed, result, imported>>

EmptyResult == [parse_status |-> "PARSED", raw_events |-> {}, flows |-> <<>>,
                http_events |-> <<>>, dns_events |-> <<>>, evidence |-> <<>>, errors |-> 0]

Init ==
    /\ file \in Files
    /\ phase = "scan"
    /\ format = "NONE"
    /\ cursor = 1
    /\ active = <<>>
    /\ ordinals = [k \in Keys |-> 0]
    /\ completed = <<>>
    /\ result = EmptyResult
    /\ imported = <<>>

-----------------------------------------------------------------------------
(* The manifest *)

\* CaptureRecord refuses a window that ends before it begins.
WindowRefused == file # <<>> /\ Head(file).at > Last(file).at

\* scan_capture of a file with a known magic that the reader reads to its end.
Scan ==
    /\ phase = "scan"
    /\ phase' = IF WindowRefused THEN "raised" ELSE "read"
    /\ format' = "PCAP"
    /\ UNCHANGED <<file, cursor, active, ordinals, completed, result, imported>>

\* scan_capture of a file with another magic, or whose reader fails.
ScanDamaged ==
    /\ phase = "scan"
    /\ phase' = "read"
    /\ format' \in {"UNKNOWN", "BROKEN"}
    /\ UNCHANGED <<file, cursor, active, ordinals, completed, result, imported>>

-----------------------------------------------------------------------------
(* Packets *)

Decodes(p) == p.kind # "UNREADABLE"
HasPorts(i) == file[i].kind = "SEGMENT"

\* The packets among the first n that leave an observation and a raw event.
Observed(n) == {i \in 1..n: Decodes(file[i])}

\* normalize_capture's first loop: a packet that cannot be decoded is recorded
\* and passed over, and what is opaque makes the capture PARTIAL.
ReadPackets ==
    /\ phase = "read"
    /\ format = "PCAP"
    /\ phase' = "build"
    /\ result' = [result EXCEPT
                    !.raw_events = Observed(Len(file)),
                    !.errors = Len(file) - Cardinality(Observed(Len(file))),
                    !.parse_status = IF \E i \in DOMAIN file:
                                            file[i].kind \in {"NOT_IPV4", "UNREADABLE"}
                                     THEN "PARTIAL" ELSE "PARSED"]
    /\ UNCHANGED <<file, format, cursor, active, ordinals, completed, imported>>

\* Mutant of ReaderFails: the capture gets the status of a packet.
ReaderFailsOpaque ==
    /\ phase = "read"
    /\ result' = [result EXCEPT !.parse_status = "OPAQUE"]
    /\ phase' = "done"
    /\ UNCHANGED <<file, format, cursor, active, ordinals, completed, imported>>

\* The reader raises, at once for a format it does not know: what was read
\* stays in raw_events and nothing is derived from it.
ReaderFails ==
    /\ phase = "read"
    /\ \E n \in 0..(IF format = "PCAP" THEN Len(file) ELSE 0):
         result' = [result EXCEPT
                      !.raw_events = Observed(n),
                      !.errors = n - Cardinality(Observed(n)) + 1,
                      !.parse_status = "FAILED"]
    /\ phase' = "done"
    /\ UNCHANGED <<file, format, cursor, active, ordinals, completed, imported>>

-----------------------------------------------------------------------------
(* Flows *)

NewStream(i, ordinal) ==
    [key |-> file[i].key, ordinal |-> ordinal, initiator |-> file[i].side, members |-> <<i>>]

IsActive(k) == \E j \in DOMAIN active: active[j].key = k
SlotOf(k) == CHOOSE j \in DOMAIN active: active[j].key = k

\* A SYN without ACK: on a key already active it ends the stream and starts another.
OpensStream(i) == HasPorts(i) /\ file[i].key \in TcpKeys /\ file[i].syn

AtPacket(i) == phase = "build" /\ cursor = i /\ i <= Len(file)

PassOver(i) ==
    /\ AtPacket(i)
    /\ ~HasPorts(i)
    /\ cursor' = i + 1
    /\ UNCHANGED <<file, phase, format, active, ordinals, completed, result, imported>>

OpenStream(i) ==
    /\ AtPacket(i)
    /\ HasPorts(i)
    /\ ~IsActive(file[i].key)
    /\ active' = Append(active, NewStream(i, ordinals[file[i].key]))
    /\ cursor' = i + 1
    /\ UNCHANGED <<file, phase, format, ordinals, completed, result, imported>>

JoinStream(i) ==
    /\ AtPacket(i)
    /\ HasPorts(i)
    /\ IsActive(file[i].key)
    /\ ~OpensStream(i)
    /\ active' = [active EXCEPT ![SlotOf(file[i].key)].members = Append(@, i)]
    /\ cursor' = i + 1
    /\ UNCHANGED <<file, phase, format, ordinals, completed, result, imported>>

\* Mutant of ReopenStream: the stream that ends is dropped.
ReopenStreamLosing(i) ==
    /\ AtPacket(i)
    /\ OpensStream(i)
    /\ IsActive(file[i].key)
    /\ LET k == file[i].key IN
         /\ ordinals' = [ordinals EXCEPT ![k] = @ + 1]
         /\ active' = Append(RemoveAt(active, SlotOf(k)), NewStream(i, ordinals'[k]))
    /\ cursor' = i + 1
    /\ UNCHANGED <<file, phase, format, completed, result, imported>>

ReopenStream(i) ==
    /\ AtPacket(i)
    /\ OpensStream(i)
    /\ IsActive(file[i].key)
    /\ LET k == file[i].key IN
         /\ ordinals' = [ordinals EXCEPT ![k] = @ + 1]
         /\ completed' = Append(completed, active[SlotOf(k)])
         /\ active' = Append(RemoveAt(active, SlotOf(k)), NewStream(i, ordinals'[k]))
    /\ cursor' = i + 1
    /\ UNCHANGED <<file, phase, format, result, imported>>

\* The end of _build_flows: the streams still open follow the completed ones.
CloseStreams ==
    /\ phase = "build"
    /\ cursor > Len(file)
    /\ completed' = completed \o active
    /\ active' = <<>>
    /\ phase' = "emit"
    /\ UNCHANGED <<file, format, cursor, ordinals, result, imported>>

-----------------------------------------------------------------------------
(* Records *)

HttpText == {"HTTP_TEXT", "REQUEST", "REFUSED_REQUEST", "BREAKING_REQUEST",
             "RESPONSE", "REFUSED_RESPONSE", "BREAKING_RESPONSE"}

ApplicationProtocol(i) ==
    CASE file[i].payload \in HttpText -> "HTTP"
      [] file[i].payload = "TLS_HELLO" /\ PortProtocol[file[i].key] # "DNS" -> "TLS"
      [] OTHER -> PortProtocol[file[i].key]

\* The protocol of the first packet that has a known one.
FlowProtocol(a) ==
    LET known == {i \in Range(a.members): ApplicationProtocol(i) # "UNKNOWN"}
    IN  IF known = {} THEN "UNKNOWN" ELSE ApplicationProtocol(Min(known))

\* Mutant of FlowId: without the ordinal.
FlowIdWithoutOrdinal(a) == <<a.key, file[Head(a.members)].at>>

FlowId(a) == <<a.key, file[Head(a.members)].at, a.ordinal>>

FlowSchema(a) ==
    [flow_id |-> FlowId(a), key |-> a.key, initiator |-> a.initiator,
     first_packet_index |-> Head(a.members), last_packet_index |-> Last(a.members),
     raw_event_ids |-> a.members,
     direction |-> IF \A i \in Range(a.members): file[i].side = a.initiator
                   THEN "INITIATOR_TO_RESPONDER" ELSE "BIDIRECTIONAL",
     application_protocol |-> FlowProtocol(a)]

\* Mutant of ParseHttp: a response completes the first request of the flow.
ParseHttpOldest(events, i, flow_id) ==
    CASE file[i].payload = "REQUEST" ->
           Append(events, [packet |-> i, response |-> 0, flow_id |-> flow_id])
      [] file[i].payload = "RESPONSE" /\ events # <<>> -> [events EXCEPT ![1].response = i]
      [] OTHER -> events

\* A request becomes the pending one; a response completes the last request
\* recorded in the flow, again if it has a response already.
ParseHttp(events, i, flow_id) ==
    CASE file[i].payload = "REQUEST" ->
           Append(events, [packet |-> i, response |-> 0, flow_id |-> flow_id])
      [] file[i].payload = "RESPONSE" /\ events # <<>> ->
           [events EXCEPT ![Len(events)].response = i]
      [] OTHER -> events

HttpEvents(a) ==
    LET events[n \in 0..Len(a.members)] ==
          IF n = 0 THEN <<>> ELSE ParseHttp(events[n - 1], a.members[n], FlowId(a))
    IN  IF FlowProtocol(a) = "HTTP" THEN events[Len(a.members)] ELSE <<>>

ParseDns(events, i, flow_id) ==
    IF file[i].payload \in {"QUERY", "ANSWER"}
      THEN Append(events, [packet |-> i, complete |-> file[i].payload = "ANSWER",
                           flow_id |-> flow_id])
      ELSE events

DnsEvents(a) ==
    LET events[n \in 0..Len(a.members)] ==
          IF n = 0 THEN <<>> ELSE ParseDns(events[n - 1], a.members[n], FlowId(a))
    IN  IF FlowProtocol(a) = "DNS" THEN events[Len(a.members)] ELSE <<>>

\* Mutant of OfficialEvidence: the index counts the packets that decode.
OfficialEvidenceShifted(type, event) ==
    [evidence_id |-> <<type, event.packet, event.flow_id>>, evidence_type |-> type,
     source_record_id |-> <<type, event.packet>>, packet_index |-> Cardinality(Observed(event.packet)),
     flow_id |-> event.flow_id]

OfficialEvidence(type, event) ==
    [evidence_id |-> <<type, event.packet, event.flow_id>>, evidence_type |-> type,
     source_record_id |-> <<type, event.packet>>, packet_index |-> event.packet,
     flow_id |-> event.flow_id]

EvidenceFor(type, events) == [j \in DOMAIN events |-> OfficialEvidence(type, events[j])]

\* What raises in the second loop: the schema of a flow that ends before it
\* begins, what neither try statement of _parse_http catches, ...
FlowRefused(a) == file[Head(a.members)].at > file[Last(a.members)].at

HttpBreaks(a) ==
    /\ FlowProtocol(a) = "HTTP"
    /\ \E i \in Range(a.members): file[i].payload \in {"BREAKING_REQUEST", "BREAKING_RESPONSE"}

\* Mutant of ResponseRefused: a response is looked at whether or not a request is pending.
ResponseRefusedUnasked(a) ==
    /\ FlowProtocol(a) = "HTTP"
    /\ \E j \in Range(a.members): file[j].payload = "REFUSED_RESPONSE"

\* ... what completing a pending request with a response raises, and what is outside
\* the try statement of _parse_dns.
ResponseRefused(a) ==
    /\ FlowProtocol(a) = "HTTP"
    /\ \E i, j \in Range(a.members):
         i < j /\ file[i].payload = "REQUEST" /\ file[j].payload = "REFUSED_RESPONSE"

DnsRefused(a) ==
    FlowProtocol(a) = "DNS" /\ \E i \in Range(a.members): file[i].payload = "REFUSED_DNS"

Raises(a) == FlowRefused(a) \/ HttpBreaks(a) \/ ResponseRefused(a) \/ DnsRefused(a)

\* normalize_capture's second loop, one accumulator.
EmitFlow ==
    /\ phase = "emit"
    /\ completed # <<>>
    /\ LET a == Head(completed) IN
         /\ ~Raises(a)
         /\ result' = [result EXCEPT
                         !.flows = Append(@, FlowSchema(a)),
                         !.http_events = @ \o HttpEvents(a),
                         !.dns_events = @ \o DnsEvents(a),
                         !.evidence = @ \o EvidenceFor("HTTP_EVENT", HttpEvents(a))
                                        \o EvidenceFor("DNS_EVENT", DnsEvents(a))]
    /\ completed' = Tail(completed)
    /\ UNCHANGED <<file, phase, format, cursor, active, ordinals, imported>>

\* The exception leaves normalize_capture, and its result is lost.
EmitRaises ==
    /\ phase = "emit"
    /\ completed # <<>>
    /\ Raises(Head(completed))
    /\ phase' = "raised"
    /\ result' = EmptyResult
    /\ UNCHANGED <<file, format, cursor, active, ordinals, completed, imported>>

Return ==
    /\ phase = "emit"
    /\ completed = <<>>
    /\ phase' = "done"
    /\ UNCHANGED <<file, format, cursor, active, ordinals, completed, result, imported>>

\* DemoRuntime._import_official
ImportOfficial ==
    /\ phase = "done"
    /\ imported' = SubSeq(result.evidence, 1,
                          IF Len(result.evidence) < ImportLimit THEN Len(result.evidence)
                                                                ELSE ImportLimit)
    /\ phase' = "imported"
    /\ UNCHANGED <<file, format, cursor, active, ordinals, completed, result>>

BuildFlows ==
    \E i \in DOMAIN file: PassOver(i) \/ OpenStream(i) \/ JoinStream(i) \/ ReopenStream(i)

Next == \/ Scan \/ ScanDamaged \/ ReadPackets \/ ReaderFails \/ BuildFlows \/ CloseStreams
        \/ EmitFlow \/ EmitRaises \/ Return \/ ImportOfficial

Spec == Init /\ [][Next]_vars

\* read_packet: the bytes at an index, 1-based, or an error outside the capture.
ReadPacket(i) == IF i \in DOMAIN file THEN file[i] ELSE [kind |-> "INDEX_ERROR"]

-----------------------------------------------------------------------------
(* What the assembly promises *)

Phases == {"scan", "read", "build", "emit", "done", "imported", "raised"}
Indexes == DOMAIN file
Returned == phase \in {"done", "imported"}

\* Type invariant.
TypeOK ==
    /\ file \in Seq(Packet)
    /\ phase \in Phases
    /\ format \in {"NONE", "PCAP", "UNKNOWN", "BROKEN"}
    /\ cursor \in 1..Len(file) + 1
    /\ ordinals \in [Keys -> Nat]
    /\ \A a \in Range(active) \cup Range(completed):
         a \in [key: Keys, ordinal: Nat, initiator: {"LEFT", "RIGHT"}, members: Seq(Indexes)]
    /\ result.parse_status \in {"PARSED", "PARTIAL", "FAILED"}
    /\ result.raw_events \subseteq Indexes
    /\ Range(imported) \subseteq Range(result.evidence)

\* Two packets belong to one conversation when they are of one key and no SYN
\* that opens a stream lies after the first of them, up to the second.
SameConversation(i, j) ==
    /\ HasPorts(i) /\ HasPorts(j)
    /\ file[i].key = file[j].key
    /\ \A n \in Indexes:
         (OpensStream(n) /\ file[n].key = file[i].key) => ((n <= i) <=> (n <= j))

\* The flows of a capture that parses are its conversations, each once, with
\* their packets in capture order: _build_flows neither loses, repeats nor mixes
\* packets when a pair is used again or directions and pairs interleave.
FlowsAreConversations ==
    (Returned /\ result.parse_status # "FAILED") =>
        LET flows == result.flows IN
        /\ {Range(flows[n].raw_event_ids): n \in DOMAIN flows}
             = {{j \in Indexes: SameConversation(i, j)}: i \in {i \in Indexes: HasPorts(i)}}
        /\ \A m, n \in DOMAIN flows:
             Range(flows[m].raw_event_ids) = Range(flows[n].raw_event_ids) => m = n
        /\ \A n \in DOMAIN flows: IsSorted(flows[n].raw_event_ids, LAMBDA i, j: i < j)
        /\ \A n \in DOMAIN flows:
             flows[n].initiator = file[flows[n].first_packet_index].side

\* Identifiers derived from a capture are distinct although a pair of endpoints
\* and a timestamp repeat: no two flows, and no two evidence records, share one.
IdentitiesDistinct ==
    /\ \A m, n \in DOMAIN result.flows:
         result.flows[m].flow_id = result.flows[n].flow_id => m = n
    /\ \A m, n \in DOMAIN result.evidence:
         result.evidence[m].evidence_id = result.evidence[n].evidence_id => m = n

\* The response an HTTP event carries is the last one of its flow that follows
\* its request and precedes the next recorded request; without one it stays
\* REQUEST_ONLY.  _parse_http never completes an event with a response that was
\* there before its request, or that belongs to another flow.
ResponsesFollowRequests ==
    \A n \in DOMAIN result.http_events:
      LET e == result.http_events[n]
          flow == CHOOSE f \in Range(result.flows): f.flow_id = e.flow_id
          later == {i \in Range(flow.raw_event_ids): i > e.packet}
          window == {i \in later: \A j \in later: file[j].payload = "REQUEST" => i < j}
          answers == {i \in window: file[i].payload = "RESPONSE"}
      IN  e.response = (IF answers = {} THEN 0 ELSE Max(answers))

\* Evidence leads back to its packet: reading the packet at the locator's index
\* gives the request or DNS record the event was made from, that packet is in
\* the flow the locator names, and every derived event has one evidence record.
\* Packets that failed to decode before it must not shift the index.
EvidenceTraceable ==
    /\ \A v \in Range(result.evidence):
         /\ ReadPacket(v.packet_index).kind = "SEGMENT"
         /\ ReadPacket(v.packet_index).payload \in
              (IF v.evidence_type = "HTTP_EVENT" THEN {"REQUEST"} ELSE {"QUERY", "ANSWER"})
         /\ \E f \in Range(result.flows):
              f.flow_id = v.flow_id /\ v.packet_index \in Range(f.raw_event_ids)
    /\ {v.source_record_id: v \in Range(result.evidence)}
         = {<<"HTTP_EVENT", e.packet>>: e \in Range(result.http_events)}
             \cup {<<"DNS_EVENT", e.packet>>: e \in Range(result.dns_events)}
    /\ Len(result.evidence) = Len(result.http_events) + Len(result.dns_events)

\* What one packet can do to a capture.  An exception leaves the parser exactly
\* when the capture or a conversation ends before it begins, a request or response
\* breaks _parse_http, a response refuses to complete an earlier request of its
\* conversation, or a DNS record is refused: what a capture that returns made flows
\* of holds none of these.  Any other bad packet, one that cannot be decoded, is
\* opaque or does not parse as what it looks like, costs its own event, and of the
\* first two kinds none is left unmarked.  A capture whose reader failed has
\* derived nothing.
FailuresIsolated ==
    /\ phase = "raised" =>
         \/ Head(file).at > Last(file).at
         \/ \E i, j \in Indexes: i < j /\ SameConversation(i, j) /\ file[i].at > file[j].at
         \/ \E i \in Indexes: HasPorts(i) /\ file[i].payload \in
              {"BREAKING_REQUEST", "BREAKING_RESPONSE", "REFUSED_DNS"}
         \/ \E i, j \in Indexes: i < j /\ SameConversation(i, j)
              /\ file[i].payload = "REQUEST" /\ file[j].payload = "REFUSED_RESPONSE"
    /\ (Returned /\ result.parse_status # "FAILED") =>
         /\ result.raw_events = {i \in Indexes: Decodes(file[i])}
         /\ result.parse_status = "PARSED" =>
              \A i \in Indexes: file[i].kind \in {"SEGMENT", "NO_PORTS"}
         /\ \A flow \in Range(result.flows):
              LET sent == {file[i].payload: i \in Range(flow.raw_event_ids)} IN
              /\ file[flow.first_packet_index].at <= file[flow.last_packet_index].at
              /\ flow.application_protocol = "HTTP" =>
                   /\ sent \cap {"BREAKING_REQUEST", "BREAKING_RESPONSE"} = {}
                   /\ \A i, j \in Range(flow.raw_event_ids):
                        i < j /\ file[i].payload = "REQUEST" => file[j].payload # "REFUSED_RESPONSE"
              /\ flow.application_protocol = "DNS" => "REFUSED_DNS" \notin sent
    /\ result.parse_status = "FAILED" => result.flows = <<>> /\ result.evidence = <<>>

\* What 4-开发-详细设计.md:750 asks for: a packet that does not parse is put on the
\* list of failures, and the others are kept.  _parse_http and _parse_dns pass over
\* what does not parse without a word, and raise out of the parser on the rest.
ParseFailuresListed ==
    /\ phase # "raised"
    /\ Returned => result.errors >= Cardinality({i \in result.raw_events:
         /\ HasPorts(i) /\ file[i].payload \in {"HTTP_TEXT", "REFUSED_REQUEST"}
         /\ \E flow \in Range(result.flows):
              flow.application_protocol = "HTTP" /\ i \in Range(flow.raw_event_ids)})
=============================================================================
