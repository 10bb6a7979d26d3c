------------------------ MODULE FlowAssembly_proofs ------------------------
(***************************************************************************)
(* Theorems about FlowAssembly, for every capture file: type correctness,  *)
(* the flows are the conversations, identifiers are distinct, responses    *)
(* meet their requests, evidence leads back to its packet, and what one    *)
(* packet can do to a capture.                                             *)
(***************************************************************************)
EXTENDS FlowAssembly, SequenceFacts

-----------------------------------------------------------------------------
(* Sequences *)

\* Putting another element in the place of one.
LEMMA Replaced ==
    ASSUME NEW S, NEW s \in Seq(S), NEW j \in DOMAIN s, NEW x \in S, Distinct(s)
    PROVE  /\ [s EXCEPT ![j] = x] \in Seq(S)
           /\ Range([s EXCEPT ![j] = x]) = (Range(s) \ {s[j]}) \cup {x}
           /\ x \notin Range(s) => Distinct([s EXCEPT ![j] = x])
<1> DEFINE t == [s EXCEPT ![j] = x]
<1>1. DOMAIN s = 1..Len(s)
  BY LenProperties
<1>2. t \in Seq(S)
  BY <1>1, ExceptSeq
<1>3. DOMAIN t = DOMAIN s /\ t[j] = x /\ \A i \in DOMAIN s: i # j => t[i] = s[i]
  OBVIOUS
<1> HIDE DEF t
<1>4. Range(t) = (Range(s) \ {s[j]}) \cup {x}
  BY <1>3 DEF Range, Distinct
<1>5. x \notin Range(s) => Distinct(t)
  BY <1>3 DEF Range, Distinct
<1>6. QED
  BY <1>2, <1>4, <1>5 DEF t

\* Taking an element out.
LEMMA Removed ==
    ASSUME NEW S, NEW s \in Seq(S), NEW j \in DOMAIN s, Distinct(s)
    PROVE  /\ RemoveAt(s, j) \in Seq(S)
           /\ Range(RemoveAt(s, j)) = Range(s) \ {s[j]}
           /\ Distinct(RemoveAt(s, j))
<1> DEFINE
      before == SubSeq(s, 1, j - 1)
      after == SubSeq(s, j + 1, Len(s))
<1>1. DOMAIN s = 1..Len(s) /\ Len(s) \in Nat /\ j \in 1..Len(s) /\ \A i \in 1..Len(s): s[i] \in S
  BY LenProperties, ElementOfSeq
<1>2. /\ before \in Seq(S) /\ Len(before) = j - 1
      /\ \A i \in 1..j - 1: before[i] = s[i]
  <2>1. \A i \in 1..j - 1: s[i] \in S
    BY <1>1
  <2>2. 1 \in Int /\ j - 1 \in Int /\ Len(s) \in Int
    BY <1>1
  <2>3. /\ before \in Seq(S) /\ Len(before) = IF 1 <= j - 1 THEN j - 1 - 1 + 1 ELSE 0
        /\ \A i \in 1..j - 1 - 1 + 1: before[i] = s[1 + i - 1]
    BY <2>1, <2>2, SubSeqProperties
  <2> HIDE DEF before
  <2>4. QED
    BY <1>1, <2>3
<1>3. /\ after \in Seq(S) /\ Len(after) = Len(s) - j
      /\ \A i \in 1..Len(s) - j: after[i] = s[j + i]
  <2>1. \A i \in j + 1..Len(s): s[i] \in S
    BY <1>1
  <2>2. j + 1 \in Int /\ Len(s) \in Int
    BY <1>1
  <2>3. /\ after \in Seq(S) /\ Len(after) = IF j + 1 <= Len(s) THEN Len(s) - (j + 1) + 1 ELSE 0
        /\ \A i \in 1..Len(s) - (j + 1) + 1: after[i] = s[(j + 1) + i - 1]
    BY <2>1, <2>2, SubSeqProperties
  <2> HIDE DEF after
  <2>4. Len(after) = Len(s) - j
    BY <1>1, <2>3
  <2>5. ASSUME NEW i \in 1..Len(s) - j PROVE after[i] = s[j + i]
    <3>1. i \in 1..Len(s) - (j + 1) + 1 /\ (j + 1) + i - 1 = j + i
      BY <1>1
    <3>2. QED
      BY <2>3, <3>1
  <2>6. QED
    BY <2>3, <2>4, <2>5
<1>4. RemoveAt(s, j) = before \o after
  BY DEF RemoveAt
<1> HIDE DEF before, after
<1>5. DOMAIN before = 1..j - 1 /\ DOMAIN after = 1..Len(s) - j
  BY <1>2, <1>3, LenProperties
<1>6. Distinct(before) /\ Distinct(after)
  <2>1. \A m, n \in 1..j - 1: s[m] = s[n] => m = n
    BY <1>1 DEF Distinct
  <2>2. ASSUME NEW m \in 1..Len(s) - j, NEW n \in 1..Len(s) - j, s[j + m] = s[j + n]
        PROVE  m = n
    <3>1. j + m \in DOMAIN s /\ j + n \in DOMAIN s
      BY <1>1
    <3>2. j + m = j + n
      BY <2>2, <3>1 DEF Distinct
    <3>3. QED
      BY <1>1, <3>2
  <2>3. Distinct(before)
    BY <1>2, <1>5, <2>1 DEF Distinct
  <2>4. Distinct(after)
    BY <1>3, <1>5, <2>2 DEF Distinct
  <2>5. QED
    BY <2>3, <2>4
<1>7. Range(before) = {s[i]: i \in 1..j - 1} /\ Range(after) = {s[i]: i \in j + 1..Len(s)}
  <2>1. Range(before) = {s[i]: i \in 1..j - 1}
    BY <1>2, <1>5 DEF Range
  <2>2. ASSUME NEW x \in Range(after) PROVE x \in {s[i]: i \in j + 1..Len(s)}
    <3>1. PICK i \in 1..Len(s) - j: x = s[j + i]
      BY <1>3, <1>5 DEF Range
    <3>2. j + i \in j + 1..Len(s)
      BY <1>1, <3>1
    <3>3. QED
      BY <3>1, <3>2
  <2>3. ASSUME NEW i \in j + 1..Len(s) PROVE s[i] \in Range(after)
    <3>1. i - j \in 1..Len(s) - j /\ j + (i - j) = i
      BY <1>1
    <3>2. QED
      BY <1>3, <1>5, <3>1 DEF Range
  <2>4. QED
    BY <2>1, <2>2, <2>3
<1>8. Range(before) \cap Range(after) = {}
  BY <1>1, <1>7 DEF Distinct
<1>9. Range(before) \cup Range(after) = Range(s) \ {s[j]}
  <2>1. \A i \in 1..Len(s): i \in 1..j - 1 \/ i = j \/ i \in j + 1..Len(s)
    BY <1>1
  <2>2. \A i \in 1..Len(s): s[i] = s[j] => i = j
    BY <1>1 DEF Distinct
  <2>3. Range(s) = {s[i]: i \in 1..Len(s)}
    BY <1>1 DEF Range
  <2>4. /\ 1..j - 1 \subseteq 1..Len(s) /\ j \notin 1..j - 1
        /\ j + 1..Len(s) \subseteq 1..Len(s) /\ j \notin j + 1..Len(s)
    BY <1>1
  <2>5. QED
    BY <1>1, <1>7, <2>1, <2>2, <2>3, <2>4
<1>10. QED
  BY <1>2, <1>3, <1>4, <1>6, <1>8, <1>9, Joined

\* Taking the first element off.
LEMMA Headed ==
    ASSUME NEW S, NEW s \in Seq(S), s # <<>>
    PROVE  /\ Head(s) \in S /\ Head(s) = s[1] /\ 1 \in DOMAIN s /\ Tail(s) \in Seq(S)
           /\ Range(s) = {Head(s)} \cup Range(Tail(s))
           /\ Distinct(s) => Distinct(Tail(s)) /\ Head(s) \notin Range(Tail(s))
<1> DEFINE t == Tail(s)
<1>1. /\ Head(s) \in S /\ t \in Seq(S) /\ Len(t) = Len(s) - 1
      /\ \A i \in 1..Len(t): t[i] = s[i + 1]
  BY HeadTailProperties
<1>2. DOMAIN s = 1..Len(s) /\ DOMAIN t = 1..Len(t) /\ Len(s) \in Nat \ {0}
  BY <1>1, LenProperties, EmptySeq
<1>3. Head(s) = s[1]
  OBVIOUS
<1> HIDE DEF t
<1>4. \A i \in DOMAIN t: i + 1 \in DOMAIN s /\ i + 1 # 1 /\ t[i] = s[i + 1]
  BY <1>1, <1>2
<1>5. ASSUME NEW i \in DOMAIN s, i # 1
      PROVE  i - 1 \in DOMAIN t /\ s[i] = t[i - 1]
  <2>1. i - 1 \in 1..Len(t) /\ (i - 1) + 1 = i
    BY <1>1, <1>2, <1>5
  <2>2. QED
    BY <1>1, <1>2, <2>1
<1>6. 1 \in DOMAIN s
  BY <1>2
<1>7. Range(s) = {Head(s)} \cup Range(t)
  BY <1>3, <1>4, <1>5, <1>6 DEF Range
<1>8. ASSUME Distinct(s) PROVE Distinct(t) /\ Head(s) \notin Range(t)
  <2>1. ASSUME NEW m \in DOMAIN t, NEW n \in DOMAIN t, t[m] = t[n] PROVE m = n
    <3>1. m + 1 = n + 1
      BY <1>4, <1>8, <2>1 DEF Distinct
    <3>2. QED
      BY <1>2, <3>1
  <2>2. QED
    BY <1>3, <1>4, <1>6, <1>8, <2>1 DEF Distinct, Range
<1>9. QED
  BY <1>1, <1>3, <1>6, <1>7, <1>8 DEF t

-----------------------------------------------------------------------------
(* The events of a flow *)

\* The largest of a set of numbers.
LEMMA LargestIsMax ==
    ASSUME NEW T, T \subseteq Nat, NEW n \in T, \A m \in T: m <= n
    PROVE  Max(T) = n
<1>1. n \in T /\ \A m \in T: n >= m
  OBVIOUS
<1> PICK largest: largest = Max(T)
  OBVIOUS
<1>2. largest \in T /\ \A m \in T: largest >= m
  BY <1>1 DEF Max
<1>3. largest >= n /\ n >= largest /\ n \in Nat /\ largest \in Nat
  BY <1>1, <1>2
<1>4. QED
  BY <1>3

\* An HTTP event of one flow; 0 stands for no response.
HttpEvent(id) == [packet: Nat, response: Nat, flow_id: {id}]

\* The responses among these packets that follow an event's request and precede
\* the next one.
Answers(e, packets) ==
    {i \in packets: /\ i > e.packet /\ file[i].payload = "RESPONSE"
                    /\ \A j \in packets:
                         j > e.packet /\ file[j].payload = "REQUEST" => i < j}

\* The event carries the last of them.
Answered(e, packets) ==
    e.response = IF Answers(e, packets) = {} THEN 0 ELSE Max(Answers(e, packets))

\* The events are those of the requests among these packets, in capture order.
HttpParsed(events, packets, id) ==
    /\ events \in Seq(HttpEvent(id))
    /\ \A m, n \in DOMAIN events: m < n => events[m].packet < events[n].packet
    /\ \A n \in DOMAIN events:
         /\ events[n].packet \in packets /\ file[events[n].packet].payload = "REQUEST"
         /\ Answered(events[n], packets)
    /\ \A i \in packets:
         file[i].payload = "REQUEST" => \E n \in DOMAIN events: events[n].packet = i

\* The requests among these packets that follow an event's own.
Requests(e, packets) == {r \in packets: r > e.packet /\ file[r].payload = "REQUEST"}

\* What a later packet does to the responses of an earlier event.
LEMMA AnswersGrow ==
    ASSUME NEW packets, packets \subseteq Nat, NEW i \in Nat, \A j \in packets: j < i,
           NEW e, e.packet \in packets
    PROVE  /\ file[i].payload # "RESPONSE" =>
                  Answers(e, packets \cup {i}) = Answers(e, packets)
           /\ Requests(e, packets) # {} =>
                  Answers(e, packets \cup {i}) = Answers(e, packets)
           /\ file[i].payload = "RESPONSE" /\ Requests(e, packets) = {} =>
                  Answers(e, packets \cup {i}) = Answers(e, packets) \cup {i}
<1>1. \A j \in packets: j \in Nat /\ j < i /\ ~(i < j)
  OBVIOUS
<1>2. \A j \in packets: j \in Answers(e, packets \cup {i}) <=> j \in Answers(e, packets)
  BY <1>1 DEF Answers
<1>3. i \notin packets /\ i > e.packet /\ ~(i < i)
  <2> PICK n: n = e.packet
    OBVIOUS
  <2>1. n \in Nat /\ n < i
    BY <1>1
  <2>2. i > n
    BY <2>1
  <2>3. QED
    BY <1>1, <2>2
<1>4. i \in Answers(e, packets \cup {i}) <=>
         file[i].payload = "RESPONSE" /\ Requests(e, packets) = {}
  BY <1>1, <1>3 DEF Answers, Requests
<1>5. Answers(e, packets \cup {i}) \subseteq packets \cup {i} /\ Answers(e, packets) \subseteq packets
  BY DEF Answers
<1>6. QED
  BY <1>2, <1>3, <1>4, <1>5

\* A response to the last request.
LEMMA AnswerAdded ==
    ASSUME NEW packets, packets \subseteq Nat, NEW i \in Nat, \A j \in packets: j < i,
           NEW e, e.packet \in packets, file[i].payload = "RESPONSE", Requests(e, packets) = {}
    PROVE  Answers(e, packets \cup {i}) = Answers(e, packets) \cup {i}
BY AnswersGrow

\* One packet more.
LEMMA ParseHttpStep ==
    ASSUME NEW packets, packets \subseteq Nat, NEW i \in Nat, \A j \in packets: j < i,
           NEW id, NEW events, HttpParsed(events, packets, id)
    PROVE  HttpParsed(ParseHttp(events, i, id), packets \cup {i}, id)
<1>1. /\ events \in Seq(HttpEvent(id))
      /\ \A m, n \in DOMAIN events: m < n => events[m].packet < events[n].packet
      /\ \A n \in DOMAIN events:
           /\ events[n].packet \in packets /\ file[events[n].packet].payload = "REQUEST"
           /\ Answered(events[n], packets)
      /\ \A j \in packets:
           file[j].payload = "REQUEST" => \E n \in DOMAIN events: events[n].packet = j
  BY DEF HttpParsed
<1>2. /\ DOMAIN events = 1..Len(events) /\ Len(events) \in Nat
      /\ \A n \in DOMAIN events: events[n] \in HttpEvent(id)
  BY <1>1, Elements
<1>3. CASE file[i].payload = "REQUEST"
  <2> DEFINE new == [packet |-> i, response |-> 0, flow_id |-> id]
  <2>1. new \in HttpEvent(id) /\ new.packet = i /\ new.response = 0
    BY DEF HttpEvent
  <2> HIDE DEF new
  <2> DEFINE grown == Append(events, new)
  <2>2. ParseHttp(events, i, id) = grown
    BY <1>3 DEF ParseHttp, new
  <2>3. /\ grown \in Seq(HttpEvent(id)) /\ Len(grown) = Len(events) + 1
        /\ grown[Len(events) + 1] = new /\ \A n \in DOMAIN events: grown[n] = events[n]
    BY <1>1, <2>1, Appended
  <2>4. DOMAIN grown = DOMAIN events \cup {Len(events) + 1} /\ Len(events) + 1 \notin DOMAIN events
    BY <1>2, <2>3, LenProperties
  <2> HIDE DEF grown
  <2>5. Answers(new, packets \cup {i}) = {}
    <3>1. \A j \in packets \cup {i}: ~(j > i)
      OBVIOUS
    <3>2. QED
      BY <2>1, <3>1 DEF Answers
  <2>6. ASSUME NEW n \in DOMAIN events
        PROVE  Answered(events[n], packets \cup {i})
    <3>1. Answers(events[n], packets \cup {i}) = Answers(events[n], packets)
      BY <1>1, <1>3, AnswersGrow
    <3>2. QED
      BY <1>1, <3>1 DEF Answered
  <2>7. \A m, n \in DOMAIN grown: m < n => grown[m].packet < grown[n].packet
    <3>1. \A m \in DOMAIN events: ~(Len(events) + 1 < m)
      BY <1>2
    <3>2. \A m \in DOMAIN events: grown[m].packet < i
      BY <1>1, <2>3
    <3>3. grown[Len(events) + 1].packet = i
      BY <2>1, <2>3
    <3>4. ASSUME NEW m \in DOMAIN grown, NEW n \in DOMAIN grown, m < n
          PROVE  grown[m].packet < grown[n].packet
      <4>1. m \in DOMAIN events
        BY <1>2, <2>4, <3>1, <3>4
      <4>2. CASE n \in DOMAIN events
        BY <1>1, <2>3, <3>4, <4>1, <4>2
      <4>3. CASE n = Len(events) + 1
        BY <3>2, <3>3, <4>1, <4>3
      <4>4. QED
        BY <2>4, <4>2, <4>3
    <3>5. QED
      BY <3>4
  <2>8. \A n \in DOMAIN grown:
          /\ grown[n].packet \in packets \cup {i} /\ file[grown[n].packet].payload = "REQUEST"
          /\ Answered(grown[n], packets \cup {i})
    BY <1>1, <1>3, <2>1, <2>3, <2>4, <2>5, <2>6 DEF Answered
  <2>9. \A j \in packets \cup {i}:
          file[j].payload = "REQUEST" => \E n \in DOMAIN grown: grown[n].packet = j
    BY <1>1, <2>1, <2>3, <2>4
  <2>10. QED
    BY <2>2, <2>3, <2>7, <2>8, <2>9 DEF HttpParsed
<1>4. CASE file[i].payload = "RESPONSE" /\ events # <<>>
  <2> DEFINE
        last == Len(events)
        answered == [events EXCEPT ![last].response = i]
        new == [events[last] EXCEPT !.response = i]
  <2>1. last \in DOMAIN events
    BY <1>1, <1>2, <1>4, EmptySeq
  <2>2. new \in HttpEvent(id) /\ new.packet = events[last].packet /\ new.response = i
    BY <1>2, <2>1 DEF HttpEvent
  <2>3. ParseHttp(events, i, id) = answered
    BY <1>4 DEF ParseHttp
  <2>4. /\ DOMAIN answered = DOMAIN events /\ answered[last] = new
        /\ \A n \in DOMAIN events: n # last => answered[n] = events[n]
    BY <2>1
  <2>5. answered = [events EXCEPT ![last] = new]
    OBVIOUS
  <2> HIDE DEF new
  <2>6. answered \in Seq(HttpEvent(id))
    BY <1>1, <1>2, <2>1, <2>2, <2>5, ExceptSeq
  <2>7. \A n \in DOMAIN events: n # last => n < last
    BY <1>2
  <2> HIDE DEF answered, last
  <2>8. \A n \in DOMAIN events: answered[n].packet = events[n].packet
    BY <2>2, <2>4
  <2>9. ASSUME NEW n \in DOMAIN events, n # last
        PROVE  Answered(answered[n], packets \cup {i})
    <3>1. events[last].packet \in packets /\ events[last].packet > events[n].packet
          /\ file[events[last].packet].payload = "REQUEST"
      BY <1>1, <1>2, <2>1, <2>7, <2>9 DEF HttpEvent
    <3>2. Requests(events[n], packets) # {}
      BY <3>1 DEF Requests
    <3>3. events[n].packet \in packets
      BY <1>1
    <3>4. Answers(events[n], packets \cup {i}) = Answers(events[n], packets)
      BY <3>2, <3>3, AnswersGrow
    <3>5. QED
      BY <1>1, <2>4, <2>9, <3>4 DEF Answered
  <2>10. Answered(new, packets \cup {i})
    <3>a. PICK e: e = new
      OBVIOUS
    <3>p. file[i].payload = "RESPONSE"
      BY <1>4
    <3>1. ASSUME NEW r \in packets, r > events[last].packet, file[r].payload = "REQUEST"
          PROVE  FALSE
      <4>1. PICK n \in DOMAIN events: events[n].packet = r
        BY <1>1, <3>1
      <4>2. n = last \/ events[n].packet < events[last].packet
        BY <1>1, <2>1, <2>7
      <4>3. events[n].packet \in Nat /\ events[last].packet \in Nat
        BY <1>2, <2>1 DEF HttpEvent
      <4>4. QED
        BY <3>1, <4>1, <4>2, <4>3
    <3>2. e.packet \in packets
      BY <1>1, <2>1, <2>2, <3>a
    <3>3. Requests(e, packets) = {}
      BY <2>2, <3>1, <3>a DEF Requests
    <3>4. Answers(e, packets \cup {i}) = Answers(e, packets) \cup {i}
      BY <3>2, <3>3, <3>p, AnswerAdded
    <3>5. Max(Answers(e, packets) \cup {i}) = i
      <4> DEFINE T == Answers(e, packets) \cup {i}
      <4>1. \A m \in Answers(e, packets): m \in Nat /\ m < i
        BY DEF Answers
      <4>2. T \subseteq Nat /\ i \in T /\ \A m \in T: m <= i
        BY <4>1
      <4> HIDE DEF T
      <4>3. Max(T) = i
        BY <4>2, LargestIsMax
      <4>4. QED
        BY <4>3 DEF T
    <3>6. QED
      BY <2>2, <3>4, <3>5, <3>a DEF Answered
  <2>11. \A n \in DOMAIN answered:
           /\ answered[n].packet \in packets \cup {i}
           /\ file[answered[n].packet].payload = "REQUEST"
           /\ Answered(answered[n], packets \cup {i})
    BY <1>1, <2>4, <2>8, <2>9, <2>10
  <2>12. \A m, n \in DOMAIN answered: m < n => answered[m].packet < answered[n].packet
    BY <1>1, <2>4, <2>8
  <2>13. \A j \in packets \cup {i}:
           file[j].payload = "REQUEST" => \E n \in DOMAIN answered: answered[n].packet = j
    BY <1>1, <1>4, <2>4, <2>8
  <2>14. QED
    BY <2>3, <2>6, <2>11, <2>12, <2>13 DEF HttpParsed
<1>5. CASE file[i].payload # "REQUEST" /\ ~(file[i].payload = "RESPONSE" /\ events # <<>>)
  <2>1. ParseHttp(events, i, id) = events
    BY <1>5 DEF ParseHttp
  <2>2. ASSUME NEW n \in DOMAIN events
        PROVE  Answered(events[n], packets \cup {i})
    <3>1. file[i].payload # "RESPONSE"
      BY <1>5
    <3>2. Answers(events[n], packets \cup {i}) = Answers(events[n], packets)
      BY <1>1, <3>1, AnswersGrow
    <3>3. QED
      BY <1>1, <3>2 DEF Answered
  <2>3. QED
    BY <1>1, <1>5, <2>1, <2>2 DEF HttpParsed
<1>6. QED
  BY <1>3, <1>4, <1>5

\* A DNS event of one flow.
DnsEvent(id) == [packet: Nat, complete: BOOLEAN, flow_id: {id}]

\* The events are those of DNS records among these packets, in capture order.
DnsParsed(events, packets, id) ==
    /\ events \in Seq(DnsEvent(id))
    /\ \A m, n \in DOMAIN events: m < n => events[m].packet < events[n].packet
    /\ \A n \in DOMAIN events:
         events[n].packet \in packets /\ file[events[n].packet].payload \in {"QUERY", "ANSWER"}

\* One packet more.
LEMMA ParseDnsStep ==
    ASSUME NEW packets, packets \subseteq Nat, NEW i \in Nat, \A j \in packets: j < i,
           NEW id, NEW events, DnsParsed(events, packets, id)
    PROVE  DnsParsed(ParseDns(events, i, id), packets \cup {i}, id)
<1>1. /\ events \in Seq(DnsEvent(id))
      /\ \A m, n \in DOMAIN events: m < n => events[m].packet < events[n].packet
      /\ \A n \in DOMAIN events:
           events[n].packet \in packets /\ file[events[n].packet].payload \in {"QUERY", "ANSWER"}
  BY DEF DnsParsed
<1>2. DOMAIN events = 1..Len(events) /\ Len(events) \in Nat
  BY <1>1, Elements
<1>3. CASE file[i].payload \in {"QUERY", "ANSWER"}
  <2> PICK complete: complete = (file[i].payload = "ANSWER")
    OBVIOUS
  <2> DEFINE new == [packet |-> i, complete |-> complete, flow_id |-> id]
  <2>1. complete \in BOOLEAN
    OBVIOUS
  <2>2. new \in DnsEvent(id) /\ new.packet = i
    BY <2>1 DEF DnsEvent
  <2> HIDE DEF new
  <2> DEFINE grown == Append(events, new)
  <2>3. ParseDns(events, i, id) = grown
    BY <1>3 DEF ParseDns, new
  <2>4. /\ grown \in Seq(DnsEvent(id)) /\ Len(grown) = Len(events) + 1
        /\ grown[Len(events) + 1] = new /\ \A n \in DOMAIN events: grown[n] = events[n]
    BY <1>1, <2>2, Appended
  <2>5. DOMAIN grown = DOMAIN events \cup {Len(events) + 1} /\ Len(events) + 1 \notin DOMAIN events
    BY <1>2, <2>4, LenProperties
  <2> HIDE DEF grown
  <2>6. ASSUME NEW m \in DOMAIN grown, NEW n \in DOMAIN grown, m < n
        PROVE  grown[m].packet < grown[n].packet
    <3>1. m \in DOMAIN events /\ grown[m].packet < i
      <4>1. m \in DOMAIN events
        BY <1>2, <2>5, <2>6
      <4>2. QED
        BY <1>1, <2>4, <4>1
    <3>2. CASE n \in DOMAIN events
      BY <1>1, <2>4, <2>6, <3>1, <3>2
    <3>3. CASE n = Len(events) + 1
      BY <2>2, <2>4, <3>1, <3>3
    <3>4. QED
      BY <2>5, <3>2, <3>3
  <2>7. \A n \in DOMAIN grown:
          /\ grown[n].packet \in packets \cup {i}
          /\ file[grown[n].packet].payload \in {"QUERY", "ANSWER"}
    BY <1>1, <1>3, <2>2, <2>4, <2>5
  <2>8. QED
    BY <2>3, <2>4, <2>6, <2>7 DEF DnsParsed
<1>4. CASE file[i].payload \notin {"QUERY", "ANSWER"}
  <2>1. ParseDns(events, i, id) = events
    BY <1>4 DEF ParseDns
  <2>2. QED
    BY <1>1, <2>1 DEF DnsParsed
<1>5. QED
  BY <1>3, <1>4

\* The packets of a stream are numbered as in the capture.
InOrder(members) ==
    /\ members \in Seq(Nat)
    /\ \A m, n \in DOMAIN members: m < n => members[m] < members[n]

\* The first n packets of a stream.
Prefix(members, n) == {members[k]: k \in 1..n}

\* One packet more.
LEMMA PrefixGrows ==
    ASSUME NEW members, InOrder(members), NEW n \in 1..Len(members)
    PROVE  /\ Prefix(members, n) = Prefix(members, n - 1) \cup {members[n]}
           /\ Prefix(members, n - 1) \subseteq Nat
           /\ members[n] \in Nat
           /\ \A j \in Prefix(members, n - 1): j < members[n]
<1>1. members \in Seq(Nat)
  BY DEF InOrder
<1>2. /\ DOMAIN members = 1..Len(members) /\ Len(members) \in Nat
      /\ \A k \in 1..Len(members): members[k] \in Nat
  BY <1>1, LenProperties, ElementOfSeq
<1>3. /\ 1..n = (1..n - 1) \cup {n} /\ 1..n - 1 \subseteq 1..Len(members)
      /\ \A k \in 1..n - 1: k < n
  BY <1>2
<1>4. \A k \in 1..n - 1: members[k] < members[n] /\ members[k] \in Nat
  BY <1>2, <1>3 DEF InOrder
<1>5. Prefix(members, n) = Prefix(members, n - 1) \cup {members[n]}
  BY <1>3 DEF Prefix
<1>6. Prefix(members, n - 1) \subseteq Nat /\ members[n] \in Nat
  BY <1>2, <1>4 DEF Prefix
<1>7. \A j \in Prefix(members, n - 1): j < members[n]
  BY <1>4 DEF Prefix
<1>8. QED
  BY <1>5, <1>6, <1>7

\* ParseHttp and ParseDns keep the type of their events.
LEMMA ParsedType ==
    ASSUME NEW id, NEW i \in Nat
    PROVE  /\ \A events \in Seq(HttpEvent(id)): ParseHttp(events, i, id) \in Seq(HttpEvent(id))
           /\ \A events \in Seq(DnsEvent(id)): ParseDns(events, i, id) \in Seq(DnsEvent(id))
<1>1. ASSUME NEW events \in Seq(HttpEvent(id))
      PROVE  ParseHttp(events, i, id) \in Seq(HttpEvent(id))
  <2>1. CASE file[i].payload = "REQUEST"
    <3>1. [packet |-> i, response |-> 0, flow_id |-> id] \in HttpEvent(id)
      BY DEF HttpEvent
    <3>2. Append(events, [packet |-> i, response |-> 0, flow_id |-> id]) \in Seq(HttpEvent(id))
      BY <3>1, Appended
    <3>3. QED
      BY <2>1, <3>2 DEF ParseHttp
  <2>2. CASE file[i].payload = "RESPONSE" /\ events # <<>>
    <3>1. DOMAIN events = 1..Len(events) /\ Len(events) \in Nat \ {0}
      BY <2>2, LenProperties, EmptySeq
    <3>2. Len(events) \in 1..Len(events)
      BY <3>1
    <3> PICK last: last = Len(events)
      OBVIOUS
    <3>3. events[last] \in HttpEvent(id)
      BY <3>1, <3>2, ElementOfSeq
    <3>4. [events[last] EXCEPT !.response = i] \in HttpEvent(id)
      BY <3>3 DEF HttpEvent
    <3>5. [events EXCEPT ![last] = [events[last] EXCEPT !.response = i]] \in Seq(HttpEvent(id))
      BY <3>2, <3>4, ExceptSeq
    <3>6. QED
      BY <2>2, <3>5 DEF ParseHttp
  <2>3. CASE file[i].payload # "REQUEST" /\ ~(file[i].payload = "RESPONSE" /\ events # <<>>)
    BY <2>3 DEF ParseHttp
  <2>4. QED
    BY <2>1, <2>2, <2>3
<1>2. ASSUME NEW events \in Seq(DnsEvent(id))
      PROVE  ParseDns(events, i, id) \in Seq(DnsEvent(id))
  <2> PICK complete: complete = (file[i].payload = "ANSWER")
    OBVIOUS
  <2>1. complete \in BOOLEAN
    OBVIOUS
  <2>2. [packet |-> i, complete |-> complete, flow_id |-> id] \in DnsEvent(id)
    BY <2>1 DEF DnsEvent
  <2>3. Append(events, [packet |-> i, complete |-> complete, flow_id |-> id]) \in Seq(DnsEvent(id))
    BY <2>2, Appended
  <2>4. QED
    BY <2>3 DEF ParseDns
<1>3. QED
  BY <1>1, <1>2

\* What _parse_http makes of a stream.
LEMMA HttpEventsOf ==
    ASSUME NEW a, InOrder(a.members), FlowProtocol(a) = "HTTP"
    PROVE  HttpParsed(HttpEvents(a), Range(a.members), FlowId(a))
<1> DEFINE
      f == CHOOSE f: f = [n \in 0..Len(a.members) |->
                            IF n = 0 THEN <<>> ELSE ParseHttp(f[n - 1], a.members[n], FlowId(a))]
<1>1. HttpEvents(a) = f[Len(a.members)]
  BY Zenon DEF HttpEvents
<1> PICK members, size, id: members = a.members /\ size = Len(members) /\ id = FlowId(a)
  OBVIOUS
<1>2. /\ DOMAIN members = 1..size /\ size \in Nat
      /\ \A n \in 1..size: members[n] \in Nat
  BY Elements DEF InOrder
<1> DEFINE
      S == Seq(HttpEvent(id))
      step == [n \in 1..size |-> [events \in S |-> ParseHttp(events, members[n], id)]]
      T == {n \in 0..size: ~HttpParsed(f[n], Prefix(members, n), id)}
<1>3. <<>> \in S
  OBVIOUS
<1>4. /\ step \in [1..size -> [S -> S]]
      /\ \A n \in 1..size: \A events \in S: step[n][events] = ParseHttp(events, members[n], id)
  BY <1>2, ParsedType
<1> HIDE DEF S, step
<1>5. PICK g \in [0..size -> S]: g = [n \in 0..size |-> IF n = 0 THEN <<>> ELSE step[n][g[n - 1]]]
  <2>1. size \in Nat /\ step \in [1..size -> [S -> S]]
    BY <1>2, <1>4
  <2>2. \E g \in [0..size -> S]: Stepwise(g, size, <<>>, step)
    BY <1>3, <2>1, StepByStep, Zenon
  <2>3. QED
    BY <2>2 DEF Stepwise
<1>6. g = [n \in 0..size |-> IF n = 0 THEN <<>> ELSE ParseHttp(g[n - 1], members[n], id)]
  <2>1. ASSUME NEW n \in 0..size
        PROVE  g[n] = IF n = 0 THEN <<>> ELSE ParseHttp(g[n - 1], members[n], id)
    <3>1. CASE n = 0
      BY <1>5, <3>1
    <3>2. CASE n # 0
      <4>1. n \in 1..size /\ n - 1 \in 0..size
        BY <1>2, <3>2
      <4>2. g[n] = step[n][g[n - 1]] /\ g[n - 1] \in S
        BY <1>5, <3>2, <4>1
      <4>3. QED
        BY <1>4, <3>2, <4>1, <4>2
    <3>3. QED
      BY <3>1, <3>2
  <2>2. QED
    BY <2>1
<1>7. f = [n \in 0..Len(a.members) |->
             IF n = 0 THEN <<>> ELSE ParseHttp(f[n - 1], a.members[n], FlowId(a))]
  <2>1. g = [n \in 0..Len(a.members) |->
               IF n = 0 THEN <<>> ELSE ParseHttp(g[n - 1], a.members[n], FlowId(a))]
    BY <1>6
  <2>2. QED
    BY <2>1, Zenon
<1> HIDE DEF f
<1>8. /\ f[0] = <<>>
      /\ \A n \in 1..size: f[n] = ParseHttp(f[n - 1], members[n], id)
  <2>1. f = [n \in 0..size |-> IF n = 0 THEN <<>> ELSE ParseHttp(f[n - 1], members[n], id)]
    BY <1>7
  <2>2. \A n \in 0..size: f[n] = IF n = 0 THEN <<>> ELSE ParseHttp(f[n - 1], members[n], id)
    BY <2>1
  <2>3. 0 \in 0..size /\ \A n \in 1..size: n \in 0..size /\ n # 0
    BY <1>2
  <2>4. QED
    BY <2>2, <2>3
<1>9. /\ T \subseteq 0..size /\ 0..size \subseteq Nat
      /\ \A n \in T: ~HttpParsed(f[n], Prefix(members, n), id)
      /\ \A n \in 0..size: n \notin T => HttpParsed(f[n], Prefix(members, n), id)
  OBVIOUS
<1> HIDE DEF T
<1>10. ASSUME T # {} PROVE FALSE
  <2>1. PICK n \in T: \A m \in T: n <= m
    BY <1>9, <1>10, Smallest
  <2>2. n \in 0..size /\ n \in Nat /\ ~HttpParsed(f[n], Prefix(members, n), id)
    BY <1>9, <2>1
  <2>3. CASE n = 0
    <3>1. HttpParsed(<<>>, Prefix(members, 0), id)
      <4>1. Prefix(members, 0) = {}
        BY DEF Prefix
      <4>2. QED
        BY <1>3, <4>1 DEF HttpParsed, S
    <3>2. QED
      BY <1>8, <2>2, <2>3, <3>1
  <2>4. CASE n # 0
    <3>1. n \in 1..size /\ n - 1 \in 0..size /\ n - 1 \notin T
      BY <1>2, <2>1, <2>2, <2>4
    <3>2. HttpParsed(f[n - 1], Prefix(members, n - 1), id)
      BY <1>9, <3>1
    <3>3. /\ Prefix(members, n) = Prefix(members, n - 1) \cup {members[n]}
          /\ Prefix(members, n - 1) \subseteq Nat /\ members[n] \in Nat
          /\ \A j \in Prefix(members, n - 1): j < members[n]
      BY <3>1, PrefixGrows
    <3>4. HttpParsed(ParseHttp(f[n - 1], members[n], id), Prefix(members, n - 1) \cup {members[n]}, id)
      BY <3>2, <3>3, ParseHttpStep
    <3>5. QED
      BY <1>8, <2>2, <3>1, <3>3, <3>4
  <2>5. QED
    BY <2>3, <2>4
<1>11. HttpParsed(f[size], Prefix(members, size), id)
  <2>1. size \in 0..size /\ size \notin T
    BY <1>2, <1>10
  <2>2. QED
    BY <1>9, <2>1
<1>12. Prefix(members, size) = Range(members)
  BY <1>2 DEF Range, Prefix
<1>13. QED
  BY <1>1, <1>11, <1>12

\* What _parse_dns makes of a stream.
LEMMA DnsEventsOf ==
    ASSUME NEW a, InOrder(a.members), FlowProtocol(a) = "DNS"
    PROVE  DnsParsed(DnsEvents(a), Range(a.members), FlowId(a))
<1> DEFINE
      f == CHOOSE f: f = [n \in 0..Len(a.members) |->
                            IF n = 0 THEN <<>> ELSE ParseDns(f[n - 1], a.members[n], FlowId(a))]
<1>1. DnsEvents(a) = f[Len(a.members)]
  BY Zenon DEF DnsEvents
<1> PICK members, size, id: members = a.members /\ size = Len(members) /\ id = FlowId(a)
  OBVIOUS
<1>2. /\ DOMAIN members = 1..size /\ size \in Nat
      /\ \A n \in 1..size: members[n] \in Nat
  BY Elements DEF InOrder
<1> DEFINE
      S == Seq(DnsEvent(id))
      step == [n \in 1..size |-> [events \in S |-> ParseDns(events, members[n], id)]]
      T == {n \in 0..size: ~DnsParsed(f[n], Prefix(members, n), id)}
<1>3. <<>> \in S
  OBVIOUS
<1>4. /\ step \in [1..size -> [S -> S]]
      /\ \A n \in 1..size: \A events \in S: step[n][events] = ParseDns(events, members[n], id)
  BY <1>2, ParsedType
<1> HIDE DEF S, step
<1>5. PICK g \in [0..size -> S]: g = [n \in 0..size |-> IF n = 0 THEN <<>> ELSE step[n][g[n - 1]]]
  <2>1. size \in Nat /\ step \in [1..size -> [S -> S]]
    BY <1>2, <1>4
  <2>2. \E g \in [0..size -> S]: Stepwise(g, size, <<>>, step)
    BY <1>3, <2>1, StepByStep, Zenon
  <2>3. QED
    BY <2>2 DEF Stepwise
<1>6. g = [n \in 0..size |-> IF n = 0 THEN <<>> ELSE ParseDns(g[n - 1], members[n], id)]
  <2>1. ASSUME NEW n \in 0..size
        PROVE  g[n] = IF n = 0 THEN <<>> ELSE ParseDns(g[n - 1], members[n], id)
    <3>1. CASE n = 0
      BY <1>5, <3>1
    <3>2. CASE n # 0
      <4>1. n \in 1..size /\ n - 1 \in 0..size
        BY <1>2, <3>2
      <4>2. g[n] = step[n][g[n - 1]] /\ g[n - 1] \in S
        BY <1>5, <3>2, <4>1
      <4>3. QED
        BY <1>4, <3>2, <4>1, <4>2
    <3>3. QED
      BY <3>1, <3>2
  <2>2. QED
    BY <2>1
<1>7. f = [n \in 0..Len(a.members) |->
             IF n = 0 THEN <<>> ELSE ParseDns(f[n - 1], a.members[n], FlowId(a))]
  <2>1. g = [n \in 0..Len(a.members) |->
               IF n = 0 THEN <<>> ELSE ParseDns(g[n - 1], a.members[n], FlowId(a))]
    BY <1>6
  <2>2. QED
    BY <2>1, Zenon
<1> HIDE DEF f
<1>8. /\ f[0] = <<>>
      /\ \A n \in 1..size: f[n] = ParseDns(f[n - 1], members[n], id)
  <2>1. f = [n \in 0..size |-> IF n = 0 THEN <<>> ELSE ParseDns(f[n - 1], members[n], id)]
    BY <1>7
  <2>2. \A n \in 0..size: f[n] = IF n = 0 THEN <<>> ELSE ParseDns(f[n - 1], members[n], id)
    BY <2>1
  <2>3. 0 \in 0..size /\ \A n \in 1..size: n \in 0..size /\ n # 0
    BY <1>2
  <2>4. QED
    BY <2>2, <2>3
<1>9. /\ T \subseteq 0..size /\ 0..size \subseteq Nat
      /\ \A n \in T: ~DnsParsed(f[n], Prefix(members, n), id)
      /\ \A n \in 0..size: n \notin T => DnsParsed(f[n], Prefix(members, n), id)
  OBVIOUS
<1> HIDE DEF T
<1>10. ASSUME T # {} PROVE FALSE
  <2>1. PICK n \in T: \A m \in T: n <= m
    BY <1>9, <1>10, Smallest
  <2>2. n \in 0..size /\ n \in Nat /\ ~DnsParsed(f[n], Prefix(members, n), id)
    BY <1>9, <2>1
  <2>3. CASE n = 0
    <3>1. DnsParsed(<<>>, Prefix(members, 0), id)
      <4>1. Prefix(members, 0) = {}
        BY DEF Prefix
      <4>2. QED
        BY <1>3, <4>1 DEF DnsParsed, S
    <3>2. QED
      BY <1>8, <2>2, <2>3, <3>1
  <2>4. CASE n # 0
    <3>1. n \in 1..size /\ n - 1 \in 0..size /\ n - 1 \notin T
      BY <1>2, <2>1, <2>2, <2>4
    <3>2. DnsParsed(f[n - 1], Prefix(members, n - 1), id)
      BY <1>9, <3>1
    <3>3. /\ Prefix(members, n) = Prefix(members, n - 1) \cup {members[n]}
          /\ Prefix(members, n - 1) \subseteq Nat /\ members[n] \in Nat
          /\ \A j \in Prefix(members, n - 1): j < members[n]
      BY <3>1, PrefixGrows
    <3>4. DnsParsed(ParseDns(f[n - 1], members[n], id), Prefix(members, n - 1) \cup {members[n]}, id)
      BY <3>2, <3>3, ParseDnsStep
    <3>5. QED
      BY <1>8, <2>2, <3>1, <3>3, <3>4
  <2>5. QED
    BY <2>3, <2>4
<1>11. DnsParsed(f[size], Prefix(members, size), id)
  <2>1. size \in 0..size /\ size \notin T
    BY <1>2, <1>10
  <2>2. QED
    BY <1>9, <2>1
<1>12. Prefix(members, size) = Range(members)
  BY <1>2 DEF Range, Prefix
<1>13. QED
  BY <1>1, <1>11, <1>12

\* The HTTP events of a stream: each is a request of the stream, in capture order,
\* with the response that belongs to it.
HttpEventsHold(a) ==
    /\ HttpEvents(a) \in Seq(HttpEvent(FlowId(a)))
    /\ \A m, n \in DOMAIN HttpEvents(a):
         m < n => HttpEvents(a)[m].packet < HttpEvents(a)[n].packet
    /\ \A n \in DOMAIN HttpEvents(a):
         /\ HttpEvents(a)[n].packet \in Range(a.members)
         /\ file[HttpEvents(a)[n].packet].payload = "REQUEST"
         /\ Answered(HttpEvents(a)[n], Range(a.members))

\* The DNS events of a stream: each is a record of the stream, in capture order.
DnsEventsHold(a) ==
    /\ DnsEvents(a) \in Seq(DnsEvent(FlowId(a)))
    /\ \A m, n \in DOMAIN DnsEvents(a):
         m < n => DnsEvents(a)[m].packet < DnsEvents(a)[n].packet
    /\ \A n \in DOMAIN DnsEvents(a):
         /\ DnsEvents(a)[n].packet \in Range(a.members)
         /\ file[DnsEvents(a)[n].packet].payload \in {"QUERY", "ANSWER"}

\* A stream of another protocol has no such events.
LEMMA EventsOf ==
    ASSUME NEW a, InOrder(a.members)
    PROVE  HttpEventsHold(a) /\ DnsEventsHold(a)
<1>1. HttpEventsHold(a)
  <2>1. CASE FlowProtocol(a) = "HTTP"
    BY <2>1, HttpEventsOf DEF HttpParsed, HttpEventsHold
  <2>2. CASE FlowProtocol(a) # "HTTP"
    <3>1. HttpEvents(a) = <<>>
      BY <2>2 DEF HttpEvents
    <3>2. QED
      BY <3>1 DEF HttpEventsHold
  <2>3. QED
    BY <2>1, <2>2
<1>2. DnsEventsHold(a)
  <2>1. CASE FlowProtocol(a) = "DNS"
    BY <2>1, DnsEventsOf DEF DnsParsed, DnsEventsHold
  <2>2. CASE FlowProtocol(a) # "DNS"
    <3>1. DnsEvents(a) = <<>>
      BY <2>2 DEF DnsEvents
    <3>2. QED
      BY <3>1 DEF DnsEventsHold
  <2>3. QED
    BY <2>1, <2>2
<1>3. QED
  BY <1>1, <1>2

-----------------------------------------------------------------------------
(* Streams *)

\* What an accumulator holds.
Stream == [key: Keys, ordinal: Nat, initiator: {"LEFT", "RIGHT"}, members: Seq(Indexes)]

\* A stream of packets before n, in capture order, all of one key, started by
\* the side that sent the first.
Wellformed(a, n) ==
    /\ a \in Stream
    /\ a.members # <<>>
    /\ InOrder(a.members)
    /\ \A i \in Range(a.members): i < n /\ HasPorts(i) /\ file[i].key = a.key
    /\ a.initiator = file[Head(a.members)].side

\* Each of the streams holds the packets before n of one conversation, and no
\* two of them share a packet or their key and ordinal.
StreamsHold(S, n) ==
    /\ \A a \in S: Wellformed(a, n)
    /\ \A a, b \in S: a # b =>
         /\ Range(a.members) \cap Range(b.members) = {}
         /\ a.key # b.key \/ a.ordinal # b.ordinal
    /\ \A a \in S: \A i \in Range(a.members): \A j \in Indexes:
         j < n => (j \in Range(a.members) <=> SameConversation(i, j))

\* Every packet before n that has ports is in one of the streams.
Covered(S, n) ==
    \A i \in Indexes: i < n /\ HasPorts(i) => \E a \in S: i \in Range(a.members)

\* No two open streams have one key.  An open stream has the ordinal that its key
\* has reached and no packet before the last opening of the key; a closed one has a
\* smaller ordinal and lies before an opening of its key, and the key is still open.
BuildHolds(A, C, n, ord) ==
    /\ \A a, b \in A: a.key = b.key => a = b
    /\ \A a \in A:
         /\ a.ordinal = ord[a.key]
         /\ \A m \in Range(a.members): \A i \in Indexes:
              i < n /\ OpensStream(i) /\ file[i].key = a.key => i <= m
    /\ \A b \in C:
         /\ b.ordinal < ord[b.key]
         /\ \E i \in Indexes:
              /\ i < n /\ OpensStream(i) /\ file[i].key = b.key
              /\ \A m \in Range(b.members): m < i
         /\ \E a \in A: a.key = b.key

\* The fields of a packet.
LEMMA PacketFields ==
    ASSUME file \in Seq(Packet)
    PROVE  /\ Indexes = 1..Len(file) /\ Len(file) \in Nat
           /\ \A i \in Indexes: i \in Nat /\ file[i] \in Packet /\ file[i].at \in Nat
           /\ \A i \in Indexes:
                HasPorts(i) => file[i].key \in Keys /\ file[i].side \in {"LEFT", "RIGHT"}
<1>1. Indexes = 1..Len(file) /\ Len(file) \in Nat
  BY LenProperties DEF Indexes
<1>2. \A i \in Indexes: i \in Nat /\ file[i] \in Packet
  BY <1>1, ElementOfSeq
<1>3. \A p \in Packet: p.at \in Nat
  BY DEF Packet, Segment
<1>4. \A p \in Packet: p.kind = "SEGMENT" => p.key \in Keys /\ p.side \in {"LEFT", "RIGHT"}
  BY DEF Packet, Segment
<1>5. QED
  BY <1>1, <1>2, <1>3, <1>4 DEF HasPorts

\* To be of one conversation is an equivalence among the packets with ports.
LEMMA SameIsEquivalence ==
    /\ \A i \in Indexes: HasPorts(i) => SameConversation(i, i)
    /\ \A i, j \in Indexes: SameConversation(i, j) => SameConversation(j, i)
    /\ \A i, j, k \in Indexes:
         SameConversation(i, j) /\ SameConversation(j, k) => SameConversation(i, k)
  BY DEF SameConversation

\* The members of a stream.
LEMMA Members ==
    ASSUME file \in Seq(Packet), NEW n \in Nat, NEW a, Wellformed(a, n)
    PROVE  /\ a.key \in Keys /\ a.ordinal \in Nat /\ a.members \in Seq(Indexes)
           /\ Head(a.members) \in Range(a.members)
           /\ \A i \in Range(a.members): /\ i \in Indexes /\ i \in Nat /\ i < n
                                         /\ HasPorts(i) /\ file[i].key = a.key
<1>1. a.key \in Keys /\ a.ordinal \in Nat /\ a.members \in Seq(Indexes) /\ a.members # <<>>
  BY DEF Wellformed, Stream
<1>2. /\ Range(a.members) \subseteq Indexes /\ Head(a.members) = a.members[1]
      /\ 1 \in DOMAIN a.members
  BY <1>1, Elements, Headed
<1>3. Head(a.members) \in Range(a.members)
  BY <1>2 DEF Range
<1>4. QED
  BY <1>1, <1>2, <1>3, PacketFields DEF Wellformed

\* A packet without ports belongs to no stream.
LEMMA PassedOver ==
    ASSUME file \in Seq(Packet), NEW i \in Indexes, ~HasPorts(i), NEW S, StreamsHold(S, i)
    PROVE  StreamsHold(S, i + 1) /\ (Covered(S, i) => Covered(S, i + 1))
<1>1. /\ i \in Nat /\ \A j \in Indexes: j \in Nat /\ (j < i + 1 <=> j < i \/ j = i)
      /\ \A j \in Indexes: j < i => j < i + 1
  BY PacketFields
<1>2. /\ \A a \in S: Wellformed(a, i)
      /\ \A a, b \in S: a # b =>
           /\ Range(a.members) \cap Range(b.members) = {}
           /\ a.key # b.key \/ a.ordinal # b.ordinal
      /\ \A a \in S: \A m \in Range(a.members): \A j \in Indexes:
           j < i => (j \in Range(a.members) <=> SameConversation(m, j))
  BY DEF StreamsHold
<1>3. \A a \in S: Wellformed(a, i + 1)
  <2> TAKE a \in S
  <2>1. \A m \in Range(a.members): m \in Indexes /\ m < i + 1
    BY <1>1, <1>2, Members
  <2>2. QED
    BY <1>2, <2>1 DEF Wellformed
<1>4. ASSUME NEW a \in S, NEW m \in Range(a.members), NEW j \in Indexes, j < i + 1
      PROVE  j \in Range(a.members) <=> SameConversation(m, j)
  <2>1. CASE j < i
    BY <1>2, <2>1
  <2>2. CASE j = i
    <3>1. ~SameConversation(m, j)
      BY <2>2 DEF SameConversation
    <3>2. j \notin Range(a.members)
      BY <1>1, <1>2, <2>2, Members
    <3>3. QED
      BY <3>1, <3>2
  <2>3. QED
    BY <1>1, <1>4, <2>1, <2>2
<1>5. StreamsHold(S, i + 1)
  BY <1>2, <1>3, <1>4 DEF StreamsHold
<1>6. QED
  BY <1>1, <1>5 DEF Covered

\* The stream that a packet starts.
LEMMA Started ==
    ASSUME file \in Seq(Packet), NEW i \in Indexes, HasPorts(i), NEW ordinal \in Nat
    PROVE  /\ Wellformed(NewStream(i, ordinal), i + 1)
           /\ Range(NewStream(i, ordinal).members) = {i}
           /\ NewStream(i, ordinal).key = file[i].key
           /\ NewStream(i, ordinal).ordinal = ordinal
<1>1. /\ i \in Nat /\ i < i + 1 /\ file[i].key \in Keys /\ file[i].side \in {"LEFT", "RIGHT"}
  BY PacketFields
<1> DEFINE s == <<i>>
<1>2. /\ s \in Seq(Indexes) /\ s \in Seq(Nat) /\ DOMAIN s = {1} /\ s[1] = i
      /\ s # <<>> /\ Head(s) = i
  BY <1>1
<1> HIDE DEF s
<1>3. Range(s) = {i}
  BY <1>2 DEF Range
<1>4. InOrder(s)
  BY <1>2 DEF InOrder
<1> PICK a: a = NewStream(i, ordinal)
  OBVIOUS
<1>5. a = [key |-> file[i].key, ordinal |-> ordinal, initiator |-> file[i].side, members |-> s]
  BY DEF NewStream, s
<1>6. a \in Stream
  BY <1>1, <1>2, <1>5 DEF Stream
<1>7. /\ a.key = file[i].key /\ a.ordinal = ordinal /\ a.initiator = file[i].side
      /\ a.members = s
  BY <1>5
<1>8. Wellformed(a, i + 1)
  BY <1>1, <1>2, <1>3, <1>4, <1>6, <1>7 DEF Wellformed
<1>9. QED
  BY <1>3, <1>7, <1>8

\* A packet starts a stream: one that opens a stream, or the first of its key.
LEMMA OpenedStream ==
    ASSUME file \in Seq(Packet), NEW i \in Indexes, HasPorts(i), NEW ordinal \in Nat,
           NEW S, StreamsHold(S, i), Covered(S, i),
           \A a \in S: a.key = file[i].key => a.ordinal # ordinal /\ OpensStream(i)
    PROVE  /\ StreamsHold(S \cup {NewStream(i, ordinal)}, i + 1)
           /\ Covered(S \cup {NewStream(i, ordinal)}, i + 1)
<1>1. /\ i \in Nat /\ \A j \in Indexes: j \in Nat /\ (j < i + 1 <=> j < i \/ j = i)
      /\ \A j \in Indexes: j < i => j < i + 1 /\ ~(i <= j)
      /\ ~(i < i) /\ i <= i
  BY PacketFields
<1>2. /\ \A a \in S: Wellformed(a, i)
      /\ \A a, b \in S: a # b =>
           /\ Range(a.members) \cap Range(b.members) = {}
           /\ a.key # b.key \/ a.ordinal # b.ordinal
      /\ \A a \in S: \A m \in Range(a.members): \A j \in Indexes:
           j < i => (j \in Range(a.members) <=> SameConversation(m, j))
  BY DEF StreamsHold
<1> PICK new: new = NewStream(i, ordinal)
  OBVIOUS
<1>3. /\ Wellformed(new, i + 1) /\ Range(new.members) = {i}
      /\ new.key = file[i].key /\ new.ordinal = ordinal
  BY Started
<1>4. ASSUME NEW a \in S, NEW m \in Range(a.members)
      PROVE  m \in Indexes /\ m < i /\ m < i + 1 /\ HasPorts(m) /\ file[m].key = a.key
  BY <1>1, <1>2, Members
<1>5. \A a \in S: Wellformed(a, i + 1) /\ i \notin Range(a.members)
  BY <1>1, <1>2, <1>4 DEF Wellformed
<1>6. ASSUME NEW j \in Indexes, j < i
      PROVE  ~SameConversation(j, i) /\ ~SameConversation(i, j)
  <2>1. CASE OpensStream(i)
    BY <1>1, <1>6, <2>1 DEF SameConversation
  <2>2. CASE HasPorts(j) /\ file[j].key = file[i].key /\ ~OpensStream(i)
    <3>1. PICK a \in S: j \in Range(a.members)
      BY <1>6, <2>2 DEF Covered
    <3>2. a.key = file[i].key
      BY <1>4, <2>2, <3>1
    <3>3. QED
      BY <2>2, <3>2
  <2>3. CASE ~(HasPorts(j) /\ file[j].key = file[i].key)
    BY <2>3 DEF SameConversation
  <2>4. QED
    BY <2>1, <2>2, <2>3
<1>7. ASSUME NEW a \in S \cup {new}, NEW m \in Range(a.members), NEW j \in Indexes, j < i + 1
      PROVE  j \in Range(a.members) <=> SameConversation(m, j)
  <2>1. CASE a \in S /\ j < i
    BY <1>2, <2>1
  <2>2. CASE a \in S /\ j = i
    BY <1>4, <1>5, <1>6, <2>2
  <2>3. CASE a = new /\ j < i
    BY <1>1, <1>3, <1>6, <2>3
  <2>4. CASE a = new /\ j = i
    BY <1>3, <2>4, SameIsEquivalence
  <2>5. QED
    BY <1>1, <1>7, <2>1, <2>2, <2>3, <2>4
<1>8. ASSUME NEW a \in S \cup {new}, NEW b \in S \cup {new}, a # b
      PROVE  /\ Range(a.members) \cap Range(b.members) = {}
             /\ a.key # b.key \/ a.ordinal # b.ordinal
  <2>1. CASE a \in S /\ b \in S
    BY <1>2, <1>8, <2>1
  <2>2. CASE a \in S /\ b = new
    BY <1>3, <1>5, <2>2
  <2>3. CASE a = new /\ b \in S
    BY <1>3, <1>5, <2>3
  <2>4. QED
    BY <1>8, <2>1, <2>2, <2>3
<1>9. StreamsHold(S \cup {new}, i + 1)
  BY <1>3, <1>5, <1>7, <1>8 DEF StreamsHold
<1>10. Covered(S \cup {new}, i + 1)
  BY <1>1, <1>3 DEF Covered
<1>11. QED
  BY <1>9, <1>10

\* A stream with one packet more.
LEMMA Extended ==
    ASSUME file \in Seq(Packet), NEW i \in Indexes, HasPorts(i),
           NEW a, Wellformed(a, i), a.key = file[i].key
    PROVE  LET longer == [a EXCEPT !.members = Append(@, i)] IN
           /\ Wellformed(longer, i + 1)
           /\ Range(longer.members) = Range(a.members) \cup {i}
           /\ longer.key = a.key /\ longer.ordinal = a.ordinal
<1>1. /\ i \in Nat /\ i < i + 1 /\ \A j \in Nat: j < i => j < i + 1
  BY PacketFields
<1>2. /\ a \in Stream /\ a.members # <<>> /\ InOrder(a.members)
      /\ \A m \in Range(a.members): m < i /\ HasPorts(m) /\ file[m].key = a.key
      /\ a.initiator = file[Head(a.members)].side
  BY DEF Wellformed
<1>3. a.members \in Seq(Indexes) /\ a.members \in Seq(Nat)
  BY <1>2 DEF Stream, InOrder
<1> PICK members: members = a.members
  OBVIOUS
<1> DEFINE grown == Append(members, i)
<1>4. /\ grown \in Seq(Indexes) /\ grown \in Seq(Nat) /\ Len(grown) = Len(members) + 1
      /\ grown[Len(members) + 1] = i /\ \A n \in DOMAIN members: grown[n] = members[n]
      /\ Range(grown) = Range(members) \cup {i}
  BY <1>1, <1>3, Appended
<1>5. /\ DOMAIN members = 1..Len(members) /\ Len(members) \in Nat
      /\ DOMAIN grown = DOMAIN members \cup {Len(members) + 1}
      /\ Len(members) + 1 \notin DOMAIN members
      /\ \A n \in DOMAIN members: ~(Len(members) + 1 < n)
  BY <1>3, <1>4, LenProperties
<1> HIDE DEF grown
<1>6. InOrder(grown)
  <2>1. \A n \in DOMAIN members: grown[n] \in Range(members)
    BY <1>4 DEF Range
  <2>2. \A n \in DOMAIN members: grown[n] < i
    BY <1>2, <2>1
  <2>3. ASSUME NEW m \in DOMAIN grown, NEW n \in DOMAIN grown, m < n
        PROVE  grown[m] < grown[n]
    <3>1. m \in DOMAIN members
      BY <1>5, <2>3
    <3>2. CASE n \in DOMAIN members
      BY <1>2, <1>4, <2>3, <3>1, <3>2 DEF InOrder
    <3>3. CASE n = Len(members) + 1
      BY <1>4, <2>2, <3>1, <3>3
    <3>4. QED
      BY <1>5, <3>2, <3>3
  <2>4. QED
    BY <1>4, <2>3 DEF InOrder
<1>7. grown # <<>> /\ Head(grown) = Head(members)
  <2>1. 1 \in DOMAIN members /\ Head(members) = members[1]
    BY <1>2, <1>3, Headed
  <2>2. grown[1] = members[1] /\ 1 \in DOMAIN grown
    BY <1>4, <1>5, <2>1
  <2>3. grown # <<>>
    <3>1. Len(grown) # 0
      BY <1>4, <1>5
    <3>2. QED
      BY <1>4, <3>1, EmptySeq
  <2>4. Head(grown) = grown[1]
    BY <1>4, <2>3, Headed
  <2>5. QED
    BY <2>1, <2>2, <2>3, <2>4
<1> PICK longer: longer = [a EXCEPT !.members = Append(@, i)]
  OBVIOUS
<1>8. /\ longer.key = a.key /\ longer.ordinal = a.ordinal /\ longer.initiator = a.initiator
      /\ longer.members = grown /\ longer \in Stream
  <2>1. longer = [a EXCEPT !.members = grown]
    BY DEF grown
  <2>2. QED
    BY <1>2, <1>4, <2>1 DEF Stream
<1>9. \A m \in Range(grown): m < i + 1 /\ HasPorts(m) /\ file[m].key = a.key
  <2>1. \A m \in Range(members): m \in Nat
    BY <1>3, Elements
  <2>2. QED
    BY <1>1, <1>2, <1>4, <2>1
<1>10. Wellformed(longer, i + 1)
  BY <1>2, <1>6, <1>7, <1>8, <1>9 DEF Wellformed
<1>11. QED
  BY <1>4, <1>8, <1>10

\* A packet joins the open stream of its key.
LEMMA JoinedStream ==
    ASSUME file \in Seq(Packet), NEW i \in Indexes, HasPorts(i), ~OpensStream(i),
           NEW S, StreamsHold(S, i), NEW a \in S, a.key = file[i].key,
           \A m \in Range(a.members): \A n \in Indexes:
               n < i /\ OpensStream(n) /\ file[n].key = a.key => n <= m,
           \A b \in S: b # a /\ b.key = a.key =>
               \E n \in Indexes: /\ n < i /\ OpensStream(n) /\ file[n].key = b.key
                                 /\ \A m \in Range(b.members): m < n
    PROVE  LET longer == [a EXCEPT !.members = Append(@, i)] IN
           /\ StreamsHold((S \ {a}) \cup {longer}, i + 1)
           /\ Covered(S, i) => Covered((S \ {a}) \cup {longer}, i + 1)
<1>1. /\ i \in Nat /\ \A j \in Indexes: j \in Nat /\ (j < i + 1 <=> j < i \/ j = i)
      /\ \A j \in Indexes: j < i => j < i + 1 /\ ~(i <= j) /\ j <= i
      /\ ~(i < i) /\ i <= i
  BY PacketFields
<1>2. /\ \A b \in S: Wellformed(b, i)
      /\ \A b, c \in S: b # c =>
           /\ Range(b.members) \cap Range(c.members) = {}
           /\ b.key # c.key \/ b.ordinal # c.ordinal
      /\ \A b \in S: \A m \in Range(b.members): \A j \in Indexes:
           j < i => (j \in Range(b.members) <=> SameConversation(m, j))
  BY DEF StreamsHold
<1> PICK longer: longer = [a EXCEPT !.members = Append(@, i)]
  OBVIOUS
<1>3. /\ Wellformed(longer, i + 1) /\ Range(longer.members) = Range(a.members) \cup {i}
      /\ longer.key = a.key /\ longer.ordinal = a.ordinal
  BY <1>2, Extended
<1>4. ASSUME NEW b \in S, NEW m \in Range(b.members)
      PROVE  /\ m \in Indexes /\ m < i /\ m < i + 1 /\ m <= i /\ HasPorts(m)
             /\ file[m].key = b.key /\ ~(i <= m)
  BY <1>1, <1>2, Members
<1>5. \A b \in S: Wellformed(b, i + 1) /\ i \notin Range(b.members)
  BY <1>1, <1>2, <1>4 DEF Wellformed
<1>6. \A m \in Range(a.members): SameConversation(m, i)
  <2> TAKE m \in Range(a.members)
  <2>1. ASSUME NEW n \in Indexes, OpensStream(n), file[n].key = file[m].key
        PROVE  (n <= m) <=> (n <= i)
    <3>1. m \in Indexes /\ m < i /\ file[m].key = a.key /\ n \in Nat /\ m \in Nat
      BY <1>1, <1>4
    <3>2. CASE n < i
      BY <1>1, <2>1, <3>1, <3>2
    <3>3. CASE ~(n < i)
      <4>1. n # i
        BY <2>1
      <4>2. QED
        BY <1>1, <3>1, <3>3, <4>1
    <3>4. QED
      BY <3>2, <3>3
  <2>2. QED
    BY <1>4, <2>1 DEF SameConversation
<1>7. ASSUME NEW b \in S, b # a, NEW m \in Range(b.members)
      PROVE  ~SameConversation(m, i)
  <2>1. CASE b.key = a.key
    <3>1. PICK n \in Indexes: /\ n < i /\ OpensStream(n) /\ file[n].key = b.key
                              /\ \A k \in Range(b.members): k < n
      BY <1>7, <2>1
    <3>2. m < n /\ n \in Nat /\ m \in Nat /\ file[n].key = file[m].key /\ n <= i
      BY <1>1, <1>4, <1>7, <3>1
    <3>3. ~(n <= m)
      BY <3>2
    <3>4. QED
      BY <3>1, <3>2, <3>3 DEF SameConversation
  <2>2. CASE b.key # a.key
    <3>1. file[m].key # file[i].key
      BY <1>4, <1>7, <2>2
    <3>2. QED
      BY <3>1 DEF SameConversation
  <2>3. QED
    BY <2>1, <2>2
<1>8. ASSUME NEW m \in Range(longer.members), NEW j \in Indexes, j < i + 1
      PROVE  j \in Range(longer.members) <=> SameConversation(m, j)
  <2>1. CASE m \in Range(a.members) /\ j < i
    BY <1>1, <1>2, <1>3, <2>1
  <2>2. CASE m \in Range(a.members) /\ j = i
    BY <1>3, <1>6, <2>2
  <2>3. CASE m = i /\ j = i
    BY <1>3, <2>3, SameIsEquivalence
  <2>4. CASE m = i /\ j < i
    <3>1. PICK k \in Range(a.members): TRUE
      BY <1>1, <1>2, Members
    <3>2. k \in Indexes /\ SameConversation(k, i)
      BY <1>4, <1>6
    <3>3. j \in Range(a.members) <=> SameConversation(k, j)
      BY <1>2, <2>4
    <3>4. j \in Range(longer.members) <=> j \in Range(a.members)
      BY <1>1, <1>3, <2>4
    <3>5. SameConversation(k, j) <=> SameConversation(i, j)
      BY <3>2, SameIsEquivalence
    <3>6. QED
      BY <2>4, <3>3, <3>4, <3>5
  <2>5. QED
    BY <1>1, <1>3, <1>8, <2>1, <2>2, <2>3, <2>4
<1>9. ASSUME NEW b \in S, b # a, NEW m \in Range(b.members), NEW j \in Indexes, j < i + 1
      PROVE  j \in Range(b.members) <=> SameConversation(m, j)
  <2>1. CASE j < i
    BY <1>2, <1>9, <2>1
  <2>2. CASE j = i
    BY <1>5, <1>7, <1>9, <2>2
  <2>3. QED
    BY <1>1, <1>9, <2>1, <2>2
<1> DEFINE T == (S \ {a}) \cup {longer}
<1>10. ASSUME NEW b \in T, NEW c \in T, b # c
       PROVE  /\ Range(b.members) \cap Range(c.members) = {}
              /\ b.key # c.key \/ b.ordinal # c.ordinal
  <2>1. CASE b \in S /\ b # a /\ c \in S /\ c # a
    BY <1>2, <1>10, <2>1
  <2>2. CASE b \in S /\ b # a /\ c = longer
    <3>1. /\ Range(b.members) \cap Range(a.members) = {} /\ i \notin Range(b.members)
          /\ b.key # a.key \/ b.ordinal # a.ordinal
      BY <1>2, <1>5, <2>2
    <3>2. QED
      BY <1>3, <2>2, <3>1
  <2>3. CASE b = longer /\ c \in S /\ c # a
    <3>1. /\ Range(a.members) \cap Range(c.members) = {} /\ i \notin Range(c.members)
          /\ a.key # c.key \/ a.ordinal # c.ordinal
      BY <1>2, <1>5, <2>3
    <3>2. QED
      BY <1>3, <2>3, <3>1
  <2>4. QED
    BY <1>10, <2>1, <2>2, <2>3
<1>11. StreamsHold(T, i + 1)
  <2>1. \A b \in T: Wellformed(b, i + 1)
    BY <1>3, <1>5
  <2>2. \A b \in T: \A m \in Range(b.members): \A j \in Indexes:
           j < i + 1 => (j \in Range(b.members) <=> SameConversation(m, j))
    BY <1>8, <1>9
  <2> HIDE DEF T
  <2>3. QED
    BY <1>10, <2>1, <2>2 DEF StreamsHold
<1>12. Covered(S, i) => Covered(T, i + 1)
  BY <1>1, <1>3 DEF Covered
<1>13. QED
  BY <1>11, <1>12

-----------------------------------------------------------------------------
(* The inductive invariant *)

\* The values of a capture's records.
Protocols == {"HTTP", "DNS", "TLS", "DATABASE", "UNKNOWN"}
Ids == Keys \X Nat \X Nat

Flow == [flow_id: Ids, key: Keys, initiator: {"LEFT", "RIGHT"},
         first_packet_index: Nat, last_packet_index: Nat, raw_event_ids: Seq(Indexes),
         direction: {"INITIATOR_TO_RESPONDER", "BIDIRECTIONAL"},
         application_protocol: Protocols]

Http == [packet: Nat, response: Nat, flow_id: Ids]
Dns == [packet: Nat, complete: BOOLEAN, flow_id: Ids]
EvidenceTypes == {"HTTP_EVENT", "DNS_EVENT"}
Evidence == [evidence_id: EvidenceTypes \X Nat \X Ids, evidence_type: EvidenceTypes,
             source_record_id: EvidenceTypes \X Nat, packet_index: Nat, flow_id: Ids]

Capture == [parse_status: {"PARSED", "PARTIAL", "FAILED"}, raw_events: SUBSET Nat,
            flows: Seq(Flow), http_events: Seq(Http), dns_events: Seq(Dns),
            evidence: Seq(Evidence), errors: Int]

\* Every variable is of its type.
Types ==
    /\ file \in Seq(Packet)
    /\ phase \in Phases
    /\ format \in {"NONE", "PCAP", "UNKNOWN", "BROKEN"}
    /\ cursor \in 1..Len(file) + 1
    /\ ordinals \in [Keys -> Nat]
    /\ active \in Seq(Stream) /\ completed \in Seq(Stream)
    /\ result \in Capture
    /\ imported \in Seq(Evidence)

\* The capture was read and no record of it was refused so far.
Underway == phase \in {"build", "emit"} \/ (Returned /\ result.parse_status # "FAILED")

\* The stream that a flow was made from, and what the flow says of it.
StreamOf(flow) ==
    [key |-> flow.key, ordinal |-> flow.flow_id[3], initiator |-> flow.initiator,
     members |-> flow.raw_event_ids]

\* A flow is named and located after its stream, no record of which raised.
Recorded(flow) ==
    /\ flow.flow_id = FlowId(StreamOf(flow))
    /\ flow.first_packet_index = Head(flow.raw_event_ids)
    /\ flow.last_packet_index = Last(flow.raw_event_ids)
    /\ flow.application_protocol = FlowProtocol(StreamOf(flow))
    /\ ~Raises(StreamOf(flow))

\* No stream became two flows.
EachOnce(flows) == \A m, n \in DOMAIN flows: StreamOf(flows[m]) = StreamOf(flows[n]) => m = n

\* The streams that became flows, and all there are.
Emitted == {StreamOf(flow): flow \in Range(result.flows)}
Streams == Range(active) \cup Range(completed) \cup Emitted

\* No stream is twice among those that are open, wait or became a flow; together
\* they are the conversations of the packets before the cursor.
Assembled ==
    /\ Distinct(active) /\ Distinct(completed) /\ EachOnce(result.flows)
    /\ Range(active) \cap Range(completed) = {}
    /\ Range(completed) \cap Emitted = {}
    /\ StreamsHold(Streams, cursor)
    /\ Underway => Covered(Streams, cursor)
    /\ phase = "build" => BuildHolds(Range(active), Range(completed), cursor, ordinals)
    /\ phase \in {"scan", "read"} => cursor = 1 /\ active = <<>> /\ completed = <<>>
    /\ Underway /\ phase # "build" => cursor = Len(file) + 1 /\ active = <<>>
    /\ Underway /\ Returned => completed = <<>>

\* Every derived event is of a flow and says what its stream says.
HttpOf(e, a) ==
    /\ e.flow_id = FlowId(a)
    /\ e.packet \in Range(a.members)
    /\ file[e.packet].payload = "REQUEST"
    /\ Answered(e, Range(a.members))

\* The same of a DNS event.
DnsOf(e, a) ==
    /\ e.flow_id = FlowId(a)
    /\ e.packet \in Range(a.members)
    /\ file[e.packet].payload \in {"QUERY", "ANSWER"}

\* One evidence record per event.
EvidenceOf(H, D) ==
    {OfficialEvidence("HTTP_EVENT", e): e \in Range(H)}
        \cup {OfficialEvidence("DNS_EVENT", e): e \in Range(D)}

\* What has been derived from the streams that became flows.
Derived ==
    /\ \A flow \in Range(result.flows): Recorded(flow)
    /\ \A e \in Range(result.http_events): \E a \in Emitted: HttpOf(e, a)
    /\ \A e \in Range(result.dns_events): \E a \in Emitted: DnsOf(e, a)
    /\ Range(result.evidence) = EvidenceOf(result.http_events, result.dns_events)
    /\ Distinct(result.evidence)
    /\ Len(result.evidence) = Len(result.http_events) + Len(result.dns_events)
    /\ Range(imported) \subseteq Range(result.evidence)
    /\ phase # "imported" => imported = <<>>

\* Why an exception left the parser.
Reason ==
    \/ Head(file).at > Last(file).at
    \/ \E i, j \in Indexes: i < j /\ SameConversation(i, j) /\ file[i].at > file[j].at
    \/ \E i \in Indexes: HasPorts(i) /\ file[i].payload \in
         {"BREAKING_REQUEST", "BREAKING_RESPONSE", "REFUSED_DNS"}
    \/ \E i, j \in Indexes: i < j /\ SameConversation(i, j)
         /\ file[i].payload = "REQUEST" /\ file[j].payload = "REFUSED_RESPONSE"

\* What was read, what the status says of it, and what each phase has derived.
Outcome ==
    /\ result.raw_events \subseteq Indexes
    /\ Underway =>
         /\ result.raw_events = Observed(Len(file))
         /\ result.parse_status = "PARSED" <=>
              \A i \in Indexes: file[i].kind \in {"SEGMENT", "NO_PORTS"}
    /\ phase \in {"scan", "read", "raised"} => result = EmptyResult
    /\ phase = "raised" => Reason
    /\ phase = "build" \/ result.parse_status = "FAILED" =>
         /\ result.flows = <<>> /\ result.http_events = <<>>
         /\ result.dns_events = <<>> /\ result.evidence = <<>>
    /\ result.parse_status = "FAILED" => Returned

\* The inductive invariant.
FlowInv == Types /\ Assembled /\ Derived /\ Outcome

\* The file does not change, nor does what depends on it alone.
LEMMA SameFile ==
    ASSUME file' = file
    PROVE  /\ Indexes' = Indexes /\ Stream' = Stream /\ Flow' = Flow /\ Capture' = Capture
           /\ \A S, n: StreamsHold(S, n)' <=> StreamsHold(S, n)
           /\ \A S, n: Covered(S, n)' <=> Covered(S, n)
           /\ \A A, C, n, ord: BuildHolds(A, C, n, ord)' <=> BuildHolds(A, C, n, ord)
           /\ \A flow: Recorded(flow)' <=> Recorded(flow)
           /\ \A e, a: HttpOf(e, a)' <=> HttpOf(e, a)
           /\ \A e, a: DnsOf(e, a)' <=> DnsOf(e, a)
           /\ \A n: Observed(n)' = Observed(n)
           /\ Reason' <=> Reason
<1>1. /\ Indexes' = Indexes
      /\ \A i: HasPorts(i)' <=> HasPorts(i)
      /\ \A i: OpensStream(i)' <=> OpensStream(i)
      /\ \A n: Observed(n)' = Observed(n)
      /\ \A a: FlowId(a)' = FlowId(a)
  BY DEF Indexes, HasPorts, OpensStream, Observed, Decodes, FlowId
<1>2. Stream' = Stream
  BY <1>1 DEF Stream
<1>3. Flow' = Flow
  BY <1>1 DEF Flow
<1>4. Capture' = Capture
  BY <1>3 DEF Capture
<1>5. \A i, j: SameConversation(i, j)' <=> SameConversation(i, j)
  BY <1>1 DEF SameConversation
<1>6. \A a, n: Wellformed(a, n)' <=> Wellformed(a, n)
  BY <1>1, <1>2 DEF Wellformed
<1>7. \A S, n: StreamsHold(S, n)' <=> StreamsHold(S, n)
  BY <1>1, <1>5, <1>6 DEF StreamsHold
<1>8. \A S, n: Covered(S, n)' <=> Covered(S, n)
  BY <1>1 DEF Covered
<1>9. \A A, C, n, ord: BuildHolds(A, C, n, ord)' <=> BuildHolds(A, C, n, ord)
  <2> TAKE A, C, n, ord
  <2>1. ASSUME NEW a, NEW m
        PROVE  (\A i \in Indexes: i < n /\ OpensStream(i) /\ file[i].key = a.key => i <= m)'
                 <=> \A i \in Indexes: i < n /\ OpensStream(i) /\ file[i].key = a.key => i <= m
    BY <1>1
  <2>2. ASSUME NEW b
        PROVE  (\E i \in Indexes: /\ i < n /\ OpensStream(i) /\ file[i].key = b.key
                                  /\ \A m \in Range(b.members): m < i)'
                 <=> \E i \in Indexes: /\ i < n /\ OpensStream(i) /\ file[i].key = b.key
                                       /\ \A m \in Range(b.members): m < i
    BY <1>1
  <2>3. QED
    BY <2>1, <2>2 DEF BuildHolds
<1>10. \A flow: Recorded(flow)' <=> Recorded(flow)
  <2>1. \A a: FlowProtocol(a)' = FlowProtocol(a)
    BY DEF FlowProtocol, ApplicationProtocol
  <2>2. /\ \A a: FlowRefused(a)' <=> FlowRefused(a)
        /\ \A a: HttpBreaks(a)' <=> HttpBreaks(a)
        /\ \A a: ResponseRefused(a)' <=> ResponseRefused(a)
        /\ \A a: DnsRefused(a)' <=> DnsRefused(a)
    BY <2>1 DEF FlowRefused, HttpBreaks, ResponseRefused, DnsRefused
  <2>3. \A a: Raises(a)' <=> Raises(a)
    BY <2>2 DEF Raises
  <2>4. QED
    BY <1>1, <2>1, <2>3 DEF Recorded
<1>11. \A e, packets: Answers(e, packets)' = Answers(e, packets)
  BY DEF Answers
<1>12. \A e, packets: Answered(e, packets)' <=> Answered(e, packets)
  BY <1>11 DEF Answered
<1>13. \A e, a: HttpOf(e, a)' <=> HttpOf(e, a)
  BY <1>1, <1>12 DEF HttpOf
<1>14. \A e, a: DnsOf(e, a)' <=> DnsOf(e, a)
  BY <1>1 DEF DnsOf
<1>15. Reason' <=> Reason
  BY <1>1, <1>5 DEF Reason
<1>16. QED
  BY <1>1, <1>2, <1>3, <1>4, <1>7, <1>8, <1>9, <1>10, <1>13, <1>14, <1>15

\* Nothing is derived yet.
LEMMA NothingDerived ==
    ASSUME file \in Seq(Packet)
    PROVE  /\ EmptyResult \in Capture
           /\ \A S: S = {} => \A n: StreamsHold(S, n)
           /\ EvidenceOf(<<>>, <<>>) = {}
           /\ \A S: Range(<<>>) = {} /\ Distinct(<<>>) /\ EachOnce(<<>>) /\ <<>> \in Seq(S)
<1>1. EmptyResult \in Capture
  BY DEF EmptyResult, Capture
<1>2. Range(<<>>) = {} /\ Distinct(<<>>) /\ EachOnce(<<>>)
  BY DEF Range, Distinct, EachOnce
<1>3. \A S: S = {} => \A n: StreamsHold(S, n)
  BY DEF StreamsHold
<1>4. EvidenceOf(<<>>, <<>>) = {}
  BY <1>2 DEF EvidenceOf
<1>5. QED
  BY <1>1, <1>2, <1>3, <1>4

\* The file before its scan.
LEMMA FlowInit == Init => FlowInv
<1> SUFFICES ASSUME Init PROVE FlowInv
  OBVIOUS
<1>1. /\ file \in Seq(Packet) /\ phase = "scan" /\ format = "NONE" /\ cursor = 1
      /\ active = <<>> /\ completed = <<>> /\ result = EmptyResult /\ imported = <<>>
      /\ ordinals = [k \in Keys |-> 0]
  BY FilesAssumption DEF Init
<1>2. /\ result.flows = <<>> /\ result.http_events = <<>> /\ result.dns_events = <<>>
      /\ result.evidence = <<>> /\ result.raw_events = {} /\ result.parse_status = "PARSED"
  BY <1>1 DEF EmptyResult
<1>3. Len(file) \in Nat
  BY <1>1, LenProperties
<1>4. Types
  BY <1>1, <1>3, NothingDerived DEF Types, Phases
<1>5. Emitted = {} /\ Streams = {} /\ ~Underway
  BY <1>1, <1>2, NothingDerived DEF Emitted, Streams, Underway, Returned
<1>6. Assembled
  BY <1>1, <1>2, <1>5, NothingDerived DEF Assembled
<1>7. Derived
  <2>1. Len(<<>>) = 0
    OBVIOUS
  <2>2. /\ Range(result.flows) = {} /\ Range(result.http_events) = {}
        /\ Range(result.dns_events) = {} /\ Range(result.evidence) = {}
        /\ Range(imported) = {} /\ Distinct(result.evidence)
        /\ EvidenceOf(result.http_events, result.dns_events) = {}
    BY <1>1, <1>2, NothingDerived
  <2>3. Len(result.evidence) = Len(result.http_events) + Len(result.dns_events)
    BY <1>2, <2>1
  <2>4. QED
    BY <1>1, <2>2, <2>3 DEF Derived
<1>8. Outcome
  BY <1>1, <1>2, <1>5 DEF Outcome
<1>9. QED
  BY <1>4, <1>6, <1>7, <1>8 DEF FlowInv

\* A step that derives nothing.
LEMMA DerivesNothing ==
    ASSUME FlowInv, file' = file, result' = result, imported' = imported,
           phase # "imported", phase' # "imported"
    PROVE  Derived' /\ Emitted' = Emitted /\ result' \in Capture'
<1>1. Derived /\ result \in Capture
  BY DEF FlowInv, Types
<1>2. Emitted' = Emitted
  BY DEF Emitted, StreamOf
<1>3. result' \in Capture'
  BY <1>1, SameFile
<1>4. Derived'
  BY <1>1, <1>2, SameFile DEF Derived, EvidenceOf, Distinct
<1>5. QED
  BY <1>2, <1>3, <1>4

\* scan_capture: nothing but the format is known.
LEMMA ScanStep ==
    ASSUME FlowInv, Scan \/ ScanDamaged
    PROVE  FlowInv'
<1>1. Types /\ Assembled /\ Derived /\ Outcome
  BY DEF FlowInv
<1>2. /\ phase = "scan" /\ phase' \in {"read", "raised"}
      /\ format' \in {"PCAP", "UNKNOWN", "BROKEN"}
      /\ phase' = "raised" => WindowRefused
      /\ UNCHANGED <<file, cursor, active, ordinals, completed, result, imported>>
  BY DEF Scan, ScanDamaged
<1>3. Types'
  BY <1>1, <1>2, SameFile DEF Types, Phases
<1>4. Derived' /\ Emitted' = Emitted
  BY <1>2, DerivesNothing
<1>5. Streams' = Streams /\ ~Underway'
  BY <1>2, <1>4 DEF Streams, Underway, Returned
<1>6. Assembled'
  BY <1>1, <1>2, <1>4, <1>5, SameFile DEF Assembled, Distinct
<1>7. WindowRefused => Reason
  BY DEF WindowRefused, Reason
<1>8. Outcome'
  <2>1. result' = EmptyResult
    BY <1>1, <1>2 DEF Outcome
  <2>2. /\ result'.raw_events = {} /\ result'.flows = <<>> /\ result'.http_events = <<>>
        /\ result'.dns_events = <<>> /\ result'.evidence = <<>>
        /\ result'.parse_status = "PARSED"
    BY <2>1 DEF EmptyResult
  <2>3. EmptyResult' = EmptyResult
    BY DEF EmptyResult
  <2>4. phase' = "raised" => Reason'
    BY <1>2, <1>7, SameFile
  <2>5. QED
    BY <1>2, <1>5, <2>1, <2>2, <2>3, <2>4 DEF Outcome
<1>9. QED
  BY <1>3, <1>4, <1>6, <1>8 DEF FlowInv

\* The packets that were read are of the capture, and can be counted.
LEMMA ObservedPackets ==
    ASSUME file \in Seq(Packet), NEW n \in Nat, n <= Len(file)
    PROVE  /\ Observed(n) \subseteq Indexes /\ Observed(n) \subseteq Nat
           /\ n - Cardinality(Observed(n)) \in Int
<1>1. Indexes = 1..Len(file) /\ Len(file) \in Nat
  BY PacketFields
<1>2. 1..n \subseteq Indexes /\ Indexes \subseteq Nat /\ Observed(n) \subseteq 1..n
  BY <1>1 DEF Observed
<1>3. IsFiniteSet(1..n)
  <2>1. 1 \in Int /\ n \in Int
    OBVIOUS
  <2>2. QED
    BY <2>1, FS_Interval
<1>4. Cardinality(Observed(n)) \in Nat
  BY <1>2, <1>3, FS_Subset, FS_CardinalityType
<1>5. QED
  BY <1>2, <1>4

\* Reading derives nothing: what a step gives of a result before any flow.
LEMMA ReadsOnly ==
    ASSUME FlowInv, phase = "read", file' = file, imported' = imported, active' = active,
           completed' = completed, phase' # "imported",
           NEW status \in {"PARSED", "PARTIAL", "FAILED"},
           NEW events, events \subseteq Indexes, events \subseteq Nat, NEW errors \in Int,
           result' = [result EXCEPT !.raw_events = events, !.errors = errors,
                                    !.parse_status = status]
    PROVE  /\ result' \in Capture' /\ Derived' /\ Emitted' = {} /\ Streams' = {} /\ Streams = {}
           /\ result'.raw_events = events /\ result'.parse_status = status
           /\ result'.flows = <<>> /\ result'.http_events = <<>>
           /\ result'.dns_events = <<>> /\ result'.evidence = <<>>
           /\ active = <<>> /\ completed = <<>> /\ cursor = 1
<1>1. Types /\ Assembled /\ Derived /\ Outcome
  BY DEF FlowInv
<1>2. result = EmptyResult /\ active = <<>> /\ completed = <<>> /\ cursor = 1 /\ imported = <<>>
  BY <1>1 DEF Outcome, Assembled, Derived
<1> DEFINE r == [parse_status |-> status, raw_events |-> events, flows |-> <<>>,
                 http_events |-> <<>>, dns_events |-> <<>>, evidence |-> <<>>, errors |-> errors]
<1>3. /\ r \in Capture /\ r.raw_events = events /\ r.parse_status = status
      /\ r.flows = <<>> /\ r.http_events = <<>> /\ r.dns_events = <<>> /\ r.evidence = <<>>
  BY DEF Capture
<1>4. result' = r
  BY <1>2 DEF EmptyResult
<1> HIDE DEF r
<1>5. /\ result'.raw_events = events /\ result'.parse_status = status
      /\ result'.flows = <<>> /\ result'.http_events = <<>>
      /\ result'.dns_events = <<>> /\ result'.evidence = <<>>
  BY <1>3, <1>4
<1>6. /\ Range(result'.flows) = {} /\ Range(result'.http_events) = {}
      /\ Range(result'.dns_events) = {} /\ Range(result'.evidence) = {}
      /\ Range(imported') = {} /\ Distinct(result'.evidence)
      /\ EvidenceOf(result'.http_events, result'.dns_events) = {}
  <2>1. file \in Seq(Packet)
    BY <1>1 DEF Types
  <2>2. QED
    BY <1>2, <1>5, <2>1, NothingDerived
<1>7. Len(result'.evidence) = Len(result'.http_events) + Len(result'.dns_events)
  <2>1. Len(<<>>) = Len(<<>>) + Len(<<>>)
    OBVIOUS
  <2>2. QED
    BY <1>5, <2>1
<1>8. Derived'
  BY <1>2, <1>6, <1>7 DEF Derived, EvidenceOf, Distinct
<1>9. Emitted' = {}
  BY <1>6 DEF Emitted
<1>10. Emitted = {} /\ Range(<<>>) = {}
  BY <1>2 DEF Emitted, EmptyResult, Range
<1>11. Streams' = {} /\ Streams = {}
  BY <1>2, <1>9, <1>10 DEF Streams
<1>12. QED
  BY <1>2, <1>3, <1>4, <1>5, <1>8, <1>9, <1>11, SameFile

\* The first loop of normalize_capture.
LEMMA ReadStep ==
    ASSUME FlowInv, ReadPackets
    PROVE  FlowInv'
<1>1. Types /\ Assembled /\ Derived /\ Outcome
  BY DEF FlowInv
<1>2. /\ phase = "read" /\ phase' = "build"
      /\ UNCHANGED <<file, format, cursor, active, ordinals, completed, imported>>
  BY DEF ReadPackets
<1>3. file \in Seq(Packet) /\ Len(file) \in Nat /\ Indexes = 1..Len(file)
  BY <1>1, PacketFields DEF Types
<1> PICK status: status = IF \E i \in DOMAIN file: file[i].kind \in {"NOT_IPV4", "UNREADABLE"}
                          THEN "PARTIAL" ELSE "PARSED"
  OBVIOUS
<1> PICK events, errors: /\ events = Observed(Len(file))
                         /\ errors = Len(file) - Cardinality(Observed(Len(file)))
  OBVIOUS
<1>4. /\ status \in {"PARSED", "PARTIAL", "FAILED"} /\ events \subseteq Indexes
      /\ events \subseteq Nat /\ errors \in Int
  BY <1>3, ObservedPackets
<1>5. result' = [result EXCEPT !.raw_events = events, !.errors = errors, !.parse_status = status]
  BY DEF ReadPackets
<1>6. /\ result' \in Capture' /\ Derived' /\ Emitted' = {} /\ Streams' = {} /\ Streams = {}
      /\ result'.raw_events = events /\ result'.parse_status = status
      /\ result'.flows = <<>> /\ result'.http_events = <<>>
      /\ result'.dns_events = <<>> /\ result'.evidence = <<>>
      /\ active = <<>> /\ completed = <<>> /\ cursor = 1
  BY <1>2, <1>4, <1>5, ReadsOnly
<1>7. Types'
  BY <1>1, <1>2, <1>6, SameFile DEF Types, Phases
<1>8. Assembled'
  <2>1. /\ Range(<<>>) = {} /\ Distinct(<<>>)
        /\ StreamsHold({}, 1)
    BY <1>3, NothingDerived
  <2>2. Covered({}, 1)
    BY <1>3 DEF Covered
  <2>3. BuildHolds({}, {}, 1, ordinals)
    BY DEF BuildHolds
  <2>4. StreamsHold(Streams, cursor)' /\ Covered(Streams, cursor)'
    BY <1>2, <1>6, <2>1, <2>2, SameFile
  <2>5. Range(active)' = {} /\ Range(completed)' = {} /\ Distinct(active)' /\ Distinct(completed)'
        /\ EachOnce(result.flows)'
    BY <1>2, <1>6, <2>1 DEF Range, Distinct, EachOnce
  <2>6. BuildHolds(Range(active), Range(completed), cursor, ordinals)'
    BY <1>2, <1>6, <2>3, <2>5, SameFile
  <2>7. QED
    BY <1>2, <1>6, <2>4, <2>5, <2>6 DEF Assembled, Underway, Returned
<1>9. Outcome'
  <2>1. status = "PARSED" <=> \A i \in Indexes: file[i].kind \in {"SEGMENT", "NO_PORTS"}
    <3>1. \A p \in Packet: p.kind \in {"SEGMENT", "NO_PORTS"} <=> p.kind \notin {"NOT_IPV4", "UNREADABLE"}
      BY DEF Packet, Segment
    <3>2. \A i \in Indexes: file[i] \in Packet
      BY <1>3, PacketFields
    <3>3. QED
      BY <3>1, <3>2 DEF Indexes
  <2>2. (status = "PARSED" <=> \A i \in Indexes: file[i].kind \in {"SEGMENT", "NO_PORTS"})'
    BY <1>2, <2>1, SameFile
  <2>3. result'.raw_events = Observed(Len(file))' /\ result'.raw_events \subseteq Indexes'
    BY <1>2, <1>4, <1>6, SameFile
  <2>4. result'.parse_status # "FAILED"
    BY <1>6
  <2>5. QED
    BY <1>2, <1>6, <2>2, <2>3, <2>4 DEF Outcome
<1>10. QED
  BY <1>6, <1>7, <1>8, <1>9 DEF FlowInv

\* The reader raises.
LEMMA ReaderFailsStep ==
    ASSUME FlowInv, ReaderFails
    PROVE  FlowInv'
<1>1. Types /\ Assembled /\ Derived /\ Outcome
  BY DEF FlowInv
<1>2. /\ phase = "read" /\ phase' = "done"
      /\ UNCHANGED <<file, format, cursor, active, ordinals, completed, imported>>
  BY DEF ReaderFails
<1>3. file \in Seq(Packet) /\ Len(file) \in Nat /\ Indexes = 1..Len(file)
  BY <1>1, PacketFields DEF Types
<1>4. PICK n \in 0..(IF format = "PCAP" THEN Len(file) ELSE 0):
             result' = [result EXCEPT
                          !.raw_events = Observed(n),
                          !.errors = n - Cardinality(Observed(n)) + 1,
                          !.parse_status = "FAILED"]
  BY DEF ReaderFails
<1>5. n \in Nat /\ n <= Len(file)
  BY <1>3
<1> PICK events, errors: /\ events = Observed(n) /\ errors = n - Cardinality(Observed(n)) + 1
  OBVIOUS
<1>6. events \subseteq Indexes /\ events \subseteq Nat /\ errors \in Int
  <2>1. n - Cardinality(Observed(n)) \in Int
    BY <1>3, <1>5, ObservedPackets
  <2>2. QED
    BY <1>3, <1>5, <2>1, ObservedPackets
<1>7. result' = [result EXCEPT !.raw_events = events, !.errors = errors, !.parse_status = "FAILED"]
  BY <1>4
<1>8. /\ result' \in Capture' /\ Derived' /\ Emitted' = {} /\ Streams' = {} /\ Streams = {}
      /\ result'.raw_events = events /\ result'.parse_status = "FAILED"
      /\ result'.flows = <<>> /\ result'.http_events = <<>>
      /\ result'.dns_events = <<>> /\ result'.evidence = <<>>
      /\ active = <<>> /\ completed = <<>> /\ cursor = 1
  BY <1>2, <1>6, <1>7, ReadsOnly
<1>9. Types'
  BY <1>1, <1>2, <1>8, SameFile DEF Types, Phases
<1>10. Assembled'
  <2>1. Range(<<>>) = {} /\ Distinct(<<>>) /\ StreamsHold({}, 1)
    BY <1>3, NothingDerived
  <2>2. StreamsHold(Streams, cursor)'
    BY <1>2, <1>8, <2>1, SameFile
  <2>3. /\ Range(active)' = {} /\ Range(completed)' = {} /\ Distinct(active)'
        /\ Distinct(completed)' /\ EachOnce(result.flows)'
    BY <1>2, <1>8, <2>1 DEF Range, Distinct, EachOnce
  <2>4. QED
    BY <1>2, <1>8, <2>2, <2>3 DEF Assembled, Underway, Returned
<1>11. Outcome'
  <2>1. result'.raw_events \subseteq Indexes'
    BY <1>2, <1>6, <1>8, SameFile
  <2>2. QED
    BY <1>2, <1>8, <2>1 DEF Outcome, Underway, Returned
<1>12. QED
  BY <1>8, <1>9, <1>10, <1>11 DEF FlowInv

\* What holds while streams are built.
LEMMA Building ==
    ASSUME FlowInv, phase = "build"
    PROVE  /\ file \in Seq(Packet) /\ active \in Seq(Stream) /\ completed \in Seq(Stream)
           /\ ordinals \in [Keys -> Nat] /\ cursor \in Nat
           /\ Emitted = {} /\ Underway /\ result.flows = <<>>
           /\ Distinct(active) /\ Distinct(completed)
           /\ Range(active) \cap Range(completed) = {}
           /\ StreamsHold(Range(active) \cup Range(completed), cursor)
           /\ Covered(Range(active) \cup Range(completed), cursor)
           /\ BuildHolds(Range(active), Range(completed), cursor, ordinals)
<1>1. Types /\ Assembled /\ Outcome
  BY DEF FlowInv
<1>2. /\ file \in Seq(Packet) /\ active \in Seq(Stream) /\ completed \in Seq(Stream)
      /\ ordinals \in [Keys -> Nat] /\ cursor \in 1..Len(file) + 1
  BY <1>1 DEF Types
<1>3. cursor \in Nat
  BY <1>2, PacketFields
<1>4. result.flows = <<>>
  BY <1>1 DEF Outcome
<1>5. Emitted = {} /\ Underway
  BY <1>4 DEF Emitted, Underway, Range
<1>6. QED
  BY <1>1, <1>2, <1>3, <1>4, <1>5 DEF Assembled, Streams

\* A step that takes the next packet keeps the invariant when its streams hold.
LEMMA Built ==
    ASSUME FlowInv, phase = "build", cursor \in Indexes, phase' = "build",
           file' = file, format' = format, result' = result, imported' = imported,
           cursor' = cursor + 1,
           NEW A, NEW C, active' = A, completed' = C, A \in Seq(Stream), C \in Seq(Stream),
           NEW ord \in [Keys -> Nat], ordinals' = ord,
           Distinct(A), Distinct(C), Range(A) \cap Range(C) = {},
           StreamsHold(Range(A) \cup Range(C), cursor + 1),
           Covered(Range(A) \cup Range(C), cursor + 1),
           BuildHolds(Range(A), Range(C), cursor + 1, ord)
    PROVE  FlowInv'
<1>1. Types /\ Outcome /\ Emitted = {} /\ result.flows = <<>> /\ Underway
  BY Building DEF FlowInv
<1>2. Derived' /\ Emitted' = {} /\ result' \in Capture'
  BY <1>1, DerivesNothing
<1>3. cursor + 1 \in 1..Len(file) + 1
  BY <1>1, PacketFields DEF Types
<1>4. Types'
  BY <1>1, <1>2, <1>3, SameFile DEF Types
<1>5. Streams' = Range(A) \cup Range(C)
  BY <1>2 DEF Streams
<1>6. StreamsHold(Streams, cursor)' /\ Covered(Streams, cursor)'
  BY <1>5, SameFile
<1>7. BuildHolds(Range(active), Range(completed), cursor, ordinals)'
  BY SameFile
<1>8. EachOnce(result.flows)'
  BY <1>1 DEF EachOnce
<1>9. Distinct(active)' /\ Distinct(completed)'
  BY DEF Distinct
<1>10. Assembled'
  BY <1>2, <1>6, <1>7, <1>8, <1>9 DEF Assembled, Underway, Returned
<1>11. Underway'
  BY DEF Underway
<1>12. Outcome'
  <2>1. /\ result.raw_events \subseteq Indexes /\ result.raw_events = Observed(Len(file))
        /\ result.parse_status = "PARSED" <=>
              \A i \in Indexes: file[i].kind \in {"SEGMENT", "NO_PORTS"}
        /\ result.http_events = <<>> /\ result.dns_events = <<>> /\ result.evidence = <<>>
        /\ result.parse_status # "FAILED"
    BY <1>1 DEF Outcome, Returned
  <2>2. QED
    BY <1>1, <2>1, SameFile DEF Outcome
<1>13. QED
  BY <1>2, <1>4, <1>10, <1>12 DEF FlowInv

\* A packet without ports.
LEMMA PassOverStep ==
    ASSUME FlowInv, NEW i \in Indexes, PassOver(i)
    PROVE  FlowInv'
<1>1. /\ phase = "build" /\ cursor = i /\ ~HasPorts(i) /\ cursor' = cursor + 1
      /\ UNCHANGED <<file, phase, format, active, ordinals, completed, result, imported>>
  BY DEF PassOver, AtPacket
<1> PICK A, C, ord: A = active /\ C = completed /\ ord = ordinals
  OBVIOUS
<1>2. /\ file \in Seq(Packet) /\ A \in Seq(Stream) /\ C \in Seq(Stream) /\ ord \in [Keys -> Nat]
      /\ Distinct(A) /\ Distinct(C) /\ Range(A) \cap Range(C) = {}
      /\ StreamsHold(Range(A) \cup Range(C), i) /\ Covered(Range(A) \cup Range(C), i)
      /\ BuildHolds(Range(A), Range(C), i, ord)
  BY <1>1, Building
<1>3. StreamsHold(Range(A) \cup Range(C), i + 1) /\ Covered(Range(A) \cup Range(C), i + 1)
  BY <1>1, <1>2, PassedOver
<1>4. \A j \in Indexes: OpensStream(j) => (j < i + 1 <=> j < i)
  <2>1. \A j \in Indexes: j < i + 1 <=> j < i \/ j = i
    BY <1>2, PacketFields
  <2>2. ~OpensStream(i)
    BY <1>1 DEF OpensStream
  <2>3. QED
    BY <2>1, <2>2
<1>5. BuildHolds(Range(A), Range(C), i + 1, ord)
  BY <1>2, <1>4 DEF BuildHolds
<1>6. QED
  BY <1>1, <1>2, <1>3, <1>5, Built

\* The first packet of a key that is not open.
LEMMA OpenStep ==
    ASSUME FlowInv, NEW i \in Indexes, OpenStream(i)
    PROVE  FlowInv'
<1>1. /\ phase = "build" /\ cursor = i /\ HasPorts(i) /\ cursor' = cursor + 1
      /\ ~IsActive(file[i].key)
      /\ UNCHANGED <<file, phase, format, ordinals, completed, result, imported>>
      /\ active' = Append(active, NewStream(i, ordinals[file[i].key]))
  BY DEF OpenStream, AtPacket
<1> PICK A, C, ord, k: A = active /\ C = completed /\ ord = ordinals /\ k = file[i].key
  OBVIOUS
<1>2. /\ file \in Seq(Packet) /\ A \in Seq(Stream) /\ C \in Seq(Stream) /\ ord \in [Keys -> Nat]
      /\ Distinct(A) /\ Distinct(C) /\ Range(A) \cap Range(C) = {}
      /\ StreamsHold(Range(A) \cup Range(C), i) /\ Covered(Range(A) \cup Range(C), i)
      /\ BuildHolds(Range(A), Range(C), i, ord)
  BY <1>1, Building
<1>3. i \in Nat /\ k \in Keys /\ \A j \in Indexes: j \in Nat /\ (j < i + 1 <=> j < i \/ j = i)
  BY <1>1, <1>2, PacketFields
<1>4. ord[k] \in Nat
  BY <1>2, <1>3
<1>5. \A a \in Range(A): a.key # k
  BY <1>1 DEF IsActive, Range
<1>6. \A a \in Range(A) \cup Range(C): a.key # k
  BY <1>2, <1>5 DEF BuildHolds
<1> PICK new: new = NewStream(i, ord[k])
  OBVIOUS
<1>7. /\ Wellformed(new, i + 1) /\ Range(new.members) = {i} /\ new.key = k /\ new.ordinal = ord[k]
  BY <1>1, <1>2, <1>4, Started
<1>8. /\ StreamsHold(Range(A) \cup Range(C) \cup {new}, i + 1)
      /\ Covered(Range(A) \cup Range(C) \cup {new}, i + 1)
  BY <1>1, <1>2, <1>4, <1>6, OpenedStream
<1>9. new \in Stream /\ new \notin Range(A) \cup Range(C)
  BY <1>6, <1>7 DEF Wellformed
<1> PICK B: B = Append(A, new)
  OBVIOUS
<1>10. B \in Seq(Stream) /\ Range(B) = Range(A) \cup {new} /\ Distinct(B)
  BY <1>2, <1>9, Appended
<1>11. Range(B) \cap Range(C) = {} /\ Range(B) \cup Range(C) = Range(A) \cup Range(C) \cup {new}
  BY <1>2, <1>9, <1>10
<1>12. BuildHolds(Range(B), Range(C), i + 1, ord)
  <2>1. \A a, b \in Range(B): a.key = b.key => a = b
    BY <1>2, <1>5, <1>7, <1>10 DEF BuildHolds
  <2>2. ASSUME NEW a \in Range(B)
        PROVE  /\ a.ordinal = ord[a.key]
               /\ \A m \in Range(a.members): \A j \in Indexes:
                    j < i + 1 /\ OpensStream(j) /\ file[j].key = a.key => j <= m
    <3>1. CASE a = new
      <4>1. \A j \in Indexes: j < i + 1 => j <= i
        BY <1>3
      <4>2. QED
        BY <1>7, <3>1, <4>1
    <3>2. CASE a \in Range(A)
      <4>1. a.key # file[i].key
        BY <1>5, <3>2
      <4>2. QED
        BY <1>2, <1>3, <3>2, <4>1 DEF BuildHolds
    <3>3. QED
      BY <1>10, <3>1, <3>2
  <2>3. ASSUME NEW b \in Range(C)
        PROVE  /\ b.ordinal < ord[b.key]
               /\ \E j \in Indexes:
                    /\ j < i + 1 /\ OpensStream(j) /\ file[j].key = b.key
                    /\ \A m \in Range(b.members): m < j
               /\ \E a \in Range(B): a.key = b.key
    BY <1>2, <1>3, <1>10 DEF BuildHolds
  <2>4. QED
    BY <2>1, <2>2, <2>3 DEF BuildHolds
<1>13. QED
  <2>1. active' = B /\ completed' = C /\ ordinals' = ord
    BY <1>1
  <2>2. StreamsHold(Range(B) \cup Range(C), i + 1) /\ Covered(Range(B) \cup Range(C), i + 1)
    BY <1>8, <1>11
  <2>3. QED
    BY <1>1, <1>2, <1>10, <1>11, <1>12, <2>1, <2>2, Built

\* Another packet of an open stream.
LEMMA JoinStep ==
    ASSUME FlowInv, NEW i \in Indexes, JoinStream(i)
    PROVE  FlowInv'
<1> PICK A, C, ord, k, slot: /\ A = active /\ C = completed /\ ord = ordinals /\ k = file[i].key
                             /\ slot = SlotOf(file[i].key)
  OBVIOUS
<1>1. /\ phase = "build" /\ cursor = i /\ HasPorts(i) /\ cursor' = cursor + 1
      /\ IsActive(k) /\ ~OpensStream(i)
      /\ UNCHANGED <<file, phase, format, ordinals, completed, result, imported>>
      /\ active' = [A EXCEPT ![slot].members = Append(@, i)]
  BY DEF JoinStream, AtPacket
<1>2. /\ file \in Seq(Packet) /\ A \in Seq(Stream) /\ C \in Seq(Stream) /\ ord \in [Keys -> Nat]
      /\ Distinct(A) /\ Distinct(C) /\ Range(A) \cap Range(C) = {}
      /\ StreamsHold(Range(A) \cup Range(C), i) /\ Covered(Range(A) \cup Range(C), i)
      /\ BuildHolds(Range(A), Range(C), i, ord)
  BY <1>1, Building
<1>3. i \in Nat /\ k \in Keys /\ \A j \in Indexes: j \in Nat /\ (j < i + 1 <=> j < i \/ j = i)
  BY <1>1, <1>2, PacketFields
<1>4. slot \in DOMAIN A /\ A[slot].key = k
  BY <1>1 DEF IsActive, SlotOf
<1>a. PICK a: a = A[slot]
  OBVIOUS
<1>5. a \in Range(A) /\ a.key = k
  BY <1>4, <1>a DEF Range
<1>6. \A j \in Indexes: OpensStream(j) => (j < i + 1 <=> j < i)
  BY <1>1, <1>3
<1>7. /\ \A m \in Range(a.members): \A n \in Indexes:
           n < i /\ OpensStream(n) /\ file[n].key = a.key => n <= m
      /\ \A b \in Range(A) \cup Range(C): b # a /\ b.key = a.key =>
           \E n \in Indexes: /\ n < i /\ OpensStream(n) /\ file[n].key = b.key
                             /\ \A m \in Range(b.members): m < n
  BY <1>2, <1>5 DEF BuildHolds
<1>b. PICK longer: longer = [a EXCEPT !.members = Append(@, i)]
  OBVIOUS
<1> DEFINE S == Range(A) \cup Range(C)
<1>8. StreamsHold((S \ {a}) \cup {longer}, i + 1) /\ Covered((S \ {a}) \cup {longer}, i + 1)
  BY <1>1, <1>2, <1>5, <1>7, <1>b, JoinedStream
<1>9. \A b \in S: Wellformed(b, i)
  BY <1>2 DEF StreamsHold
<1>10. /\ Wellformed(longer, i + 1) /\ Range(longer.members) = Range(a.members) \cup {i}
       /\ longer.key = a.key /\ longer.ordinal = a.ordinal
  <2>1. Wellformed(a, i) /\ a.key = file[i].key /\ HasPorts(i) /\ file \in Seq(Packet)
    BY <1>1, <1>2, <1>5, <1>9
  <2>2. QED
    BY <1>b, <2>1, Extended
<1>11. longer \in Stream /\ longer \notin S
  <2>1. \A b \in S: i \notin Range(b.members)
    <3> TAKE b \in S
    <3>1. \A m \in Range(b.members): m < i
      BY <1>9 DEF Wellformed
    <3>2. ~(i < i)
      BY <1>3
    <3>3. QED
      BY <3>1, <3>2
  <2>2. QED
    BY <1>10, <2>1 DEF Wellformed
<1>c. PICK B: B = [A EXCEPT ![slot] = longer]
  OBVIOUS
<1>12. /\ B \in Seq(Stream) /\ Range(B) = (Range(A) \ {a}) \cup {longer} /\ Distinct(B)
  <2>1. longer \in Stream /\ longer \notin Range(A) /\ A[slot] = a
    BY <1>11, <1>a
  <2>2. /\ [A EXCEPT ![slot] = longer] \in Seq(Stream)
        /\ Range([A EXCEPT ![slot] = longer]) = (Range(A) \ {A[slot]}) \cup {longer}
        /\ Distinct([A EXCEPT ![slot] = longer])
    BY <1>2, <1>4, <2>1, Replaced
  <2>3. QED
    BY <1>c, <2>1, <2>2
<1>13. a \notin Range(C)
  BY <1>2, <1>5
<1>14. Range(B) \cap Range(C) = {} /\ Range(B) \cup Range(C) = (S \ {a}) \cup {longer}
  <2>1. longer \notin Range(A) /\ longer \notin Range(C)
    BY <1>11
  <2>2. Range(B) \cap Range(C) = {}
    BY <1>2, <1>12, <2>1
  <2>3. Range(B) \cup Range(C) = (S \ {a}) \cup {longer}
    <3>1. Range(C) = Range(C) \ {a}
      BY <1>13
    <3>2. QED
      BY <1>12, <3>1
  <2>4. QED
    BY <2>2, <2>3
<1>15. BuildHolds(Range(B), Range(C), i + 1, ord)
  <2>1. \A b, c \in Range(B): b.key = c.key => b = c
    <3>1. \A b, c \in Range(A): b.key = c.key => b = c
      BY <1>2 DEF BuildHolds
    <3> HIDE DEF S
    <3>2. ASSUME NEW b \in Range(B), NEW c \in Range(B), b.key = c.key PROVE b = c
      <4>1. CASE b = longer /\ c = longer
        BY <4>1
      <4>2. CASE b = longer /\ c \in Range(A) /\ c # a
        BY <1>5, <1>10, <3>1, <3>2, <4>2
      <4>3. CASE c = longer /\ b \in Range(A) /\ b # a
        BY <1>5, <1>10, <3>1, <3>2, <4>3
      <4>4. CASE b \in Range(A) /\ c \in Range(A)
        BY <3>1, <3>2, <4>4
      <4>5. QED
        BY <1>12, <4>1, <4>2, <4>3, <4>4
    <3>3. QED
      BY <3>2
  <2>2. ASSUME NEW b \in Range(B)
        PROVE  /\ b.ordinal = ord[b.key]
               /\ \A m \in Range(b.members): \A j \in Indexes:
                    j < i + 1 /\ OpensStream(j) /\ file[j].key = b.key => j <= m
    <3>1. CASE b = longer
      <4>1. \A j \in Indexes: j < i => j <= i
        BY <1>3
      <4>2. a.ordinal = ord[a.key]
        BY <1>2, <1>5 DEF BuildHolds
      <4>3. QED
        BY <1>6, <1>7, <1>10, <3>1, <4>1, <4>2
    <3>2. CASE b \in Range(A)
      BY <1>2, <1>6, <3>2 DEF BuildHolds
    <3>3. QED
      BY <1>12, <3>1, <3>2
  <2>3. ASSUME NEW b \in Range(C)
        PROVE  /\ b.ordinal < ord[b.key]
               /\ \E j \in Indexes:
                    /\ j < i + 1 /\ OpensStream(j) /\ file[j].key = b.key
                    /\ \A m \in Range(b.members): m < j
               /\ \E c \in Range(B): c.key = b.key
    <3>1. PICK c \in Range(A): c.key = b.key
      BY <1>2 DEF BuildHolds
    <3>2. \E d \in Range(B): d.key = b.key
      <4>1. CASE c = a
        <5>1. longer \in Range(B) /\ longer.key = b.key
          BY <1>10, <1>12, <3>1, <4>1
        <5>2. QED
          BY <5>1
      <4>2. CASE c # a
        BY <1>12, <3>1, <4>2
      <4>3. QED
        BY <4>1, <4>2
    <3>3. QED
      BY <1>2, <1>3, <3>2 DEF BuildHolds
  <2>4. QED
    BY <2>1, <2>2, <2>3 DEF BuildHolds
<1>16. QED
  <2>1. active' = B /\ completed' = C /\ ordinals' = ord
    <3>1. [A EXCEPT ![slot].members = Append(@, i)] = [A EXCEPT ![slot] = longer]
      BY <1>a, <1>b
    <3>2. QED
      BY <1>1, <1>c, <3>1
  <2>2. StreamsHold(Range(B) \cup Range(C), i + 1) /\ Covered(Range(B) \cup Range(C), i + 1)
    BY <1>8, <1>14
  <2>3. QED
    BY <1>1, <1>2, <1>12, <1>14, <1>15, <2>1, <2>2, Built

\* An opening of a key that is open.
LEMMA ReopenStep ==
    ASSUME FlowInv, NEW i \in Indexes, ReopenStream(i)
    PROVE  FlowInv'
<1> PICK A, C, ord, k, slot: /\ A = active /\ C = completed /\ ord = ordinals /\ k = file[i].key
                             /\ slot = SlotOf(file[i].key)
  OBVIOUS
<1> DEFINE ordN == [ord EXCEPT ![k] = @ + 1]
<1>1. /\ phase = "build" /\ cursor = i /\ HasPorts(i) /\ cursor' = cursor + 1
      /\ IsActive(k) /\ OpensStream(i)
      /\ UNCHANGED <<file, phase, format, result, imported>>
      /\ ordinals' = ordN /\ completed' = Append(C, A[slot])
      /\ active' = Append(RemoveAt(A, slot), NewStream(i, ordinals'[k]))
  BY DEF ReopenStream, AtPacket, OpensStream
<1>2. /\ file \in Seq(Packet) /\ A \in Seq(Stream) /\ C \in Seq(Stream) /\ ord \in [Keys -> Nat]
      /\ Distinct(A) /\ Distinct(C) /\ Range(A) \cap Range(C) = {}
      /\ StreamsHold(Range(A) \cup Range(C), i) /\ Covered(Range(A) \cup Range(C), i)
      /\ BuildHolds(Range(A), Range(C), i, ord)
  BY <1>1, Building
<1>3. i \in Nat /\ k \in Keys /\ \A j \in Indexes: j \in Nat /\ (j < i + 1 <=> j < i \/ j = i)
  BY <1>1, <1>2, PacketFields
<1>4. slot \in DOMAIN A /\ A[slot].key = k
  BY <1>1 DEF IsActive, SlotOf
<1> PICK a: a = A[slot]
  OBVIOUS
<1>5. a \in Range(A) /\ a.key = k /\ a \in Stream
  BY <1>2, <1>4, Elements DEF Range
<1>6. /\ ord[k] \in Nat /\ ordN \in [Keys -> Nat] /\ ordN[k] = ord[k] + 1
      /\ \A j \in Keys: j # k => ordN[j] = ord[j]
  BY <1>2, <1>3
<1> HIDE DEF ordN
<1>7. /\ \A b, c \in Range(A): b.key = c.key => b = c
      /\ \A b \in Range(A): b.ordinal = ord[b.key]
      /\ \A b \in Range(A): \A m \in Range(b.members): \A j \in Indexes:
           j < i /\ OpensStream(j) /\ file[j].key = b.key => j <= m
      /\ \A b \in Range(C): b.ordinal < ord[b.key]
      /\ \A b \in Range(C): \E j \in Indexes:
           /\ j < i /\ OpensStream(j) /\ file[j].key = b.key
           /\ \A m \in Range(b.members): m < j
      /\ \A b \in Range(C): \E c \in Range(A): c.key = b.key
  BY <1>2 DEF BuildHolds
<1> DEFINE S == Range(A) \cup Range(C)
<1>8. \A b \in S: Wellformed(b, i)
  BY <1>2 DEF StreamsHold
<1>9. \A b \in S: b.key \in Keys /\ b.ordinal \in Nat /\ b.ordinal <= ord[b.key]
  <2> TAKE b \in S
  <2>1. b.key \in Keys /\ b.ordinal \in Nat
    BY <1>2, <1>3, <1>8, Members
  <2>2. ord[b.key] \in Nat
    BY <1>2, <2>1
  <2>3. QED
    BY <1>7, <2>1, <2>2
<1>10. ordN[k] \in Nat /\ \A b \in S: b.key = k => b.ordinal # ordN[k] /\ b.ordinal < ordN[k]
  <2>1. ASSUME NEW b \in S, b.key = k PROVE b.ordinal # ordN[k] /\ b.ordinal < ordN[k]
    <3>1. b.ordinal \in Nat /\ b.ordinal <= ord[k] /\ ord[k] \in Nat
      BY <1>6, <1>9, <2>1
    <3>2. QED
      BY <1>6, <3>1
  <2>2. QED
    BY <1>6, <2>1
<1> PICK new: new = NewStream(i, ordN[k])
  OBVIOUS
<1>11. /\ Wellformed(new, i + 1) /\ Range(new.members) = {i} /\ new.key = k
       /\ new.ordinal = ordN[k]
  BY <1>1, <1>2, <1>10, Started
<1>12. StreamsHold(S \cup {new}, i + 1) /\ Covered(S \cup {new}, i + 1)
  BY <1>1, <1>2, <1>10, OpenedStream
<1>13. new \in Stream /\ new \notin S
  BY <1>10, <1>11 DEF Wellformed
<1> PICK B, D: B = Append(RemoveAt(A, slot), new) /\ D = Append(C, a)
  OBVIOUS
<1>14. B \in Seq(Stream) /\ Range(B) = (Range(A) \ {a}) \cup {new} /\ Distinct(B)
  <2> PICK rest: rest = RemoveAt(A, slot)
    OBVIOUS
  <2>1. rest \in Seq(Stream) /\ Range(rest) = Range(A) \ {a} /\ Distinct(rest)
    BY <1>2, <1>4, Removed
  <2>2. new \notin Range(rest)
    BY <1>13, <2>1
  <2>3. QED
    BY <1>13, <2>1, <2>2, Appended
<1>15. D \in Seq(Stream) /\ Range(D) = Range(C) \cup {a} /\ Distinct(D)
  BY <1>2, <1>5, Appended
<1>16. Range(B) \cap Range(D) = {} /\ Range(B) \cup Range(D) = S \cup {new}
  BY <1>2, <1>5, <1>13, <1>14, <1>15
<1>17. BuildHolds(Range(B), Range(D), i + 1, ordN)
  <2>1. \A b \in Range(A): b # a => b.key # k
    BY <1>5, <1>7
  <2>2. \A b, c \in Range(B): b.key = c.key => b = c
    BY <1>7, <1>11, <1>14, <2>1
  <2>3. ASSUME NEW b \in Range(B)
        PROVE  /\ b.ordinal = ordN[b.key]
               /\ \A m \in Range(b.members): \A j \in Indexes:
                    j < i + 1 /\ OpensStream(j) /\ file[j].key = b.key => j <= m
    <3>1. CASE b = new
      <4>1. \A j \in Indexes: j < i + 1 => j <= i
        BY <1>3
      <4>2. QED
        BY <1>11, <3>1, <4>1
    <3>2. CASE b \in Range(A) /\ b # a
      <4>1. b.key \in Keys /\ b.key # k /\ b.key # file[i].key
        BY <1>9, <2>1, <3>2
      <4>2. b.ordinal = ordN[b.key]
        BY <1>6, <1>7, <3>2, <4>1
      <4>3. QED
        BY <1>3, <1>7, <3>2, <4>1, <4>2
    <3>3. QED
      BY <1>14, <3>1, <3>2
  <2>4. ASSUME NEW b \in Range(D)
        PROVE  /\ b.ordinal < ordN[b.key]
               /\ \E j \in Indexes:
                    /\ j < i + 1 /\ OpensStream(j) /\ file[j].key = b.key
                    /\ \A m \in Range(b.members): m < j
               /\ \E c \in Range(B): c.key = b.key
    <3>1. CASE b = a
      <4>1. b.ordinal < ordN[b.key]
        BY <1>5, <1>10, <3>1
      <4>2. \A m \in Range(a.members): m < i
        BY <1>5, <1>8 DEF Wellformed
      <4>3. \E j \in Indexes: /\ j < i + 1 /\ OpensStream(j) /\ file[j].key = b.key
                              /\ \A m \in Range(b.members): m < j
        BY <1>1, <1>3, <1>5, <3>1, <4>2
      <4>4. QED
        BY <1>5, <1>11, <1>14, <3>1, <4>1, <4>3
    <3>2. CASE b \in Range(C)
      <4>1. b.ordinal < ordN[b.key]
        <5>1. b.key \in Keys /\ b.ordinal \in Nat /\ b.ordinal < ord[b.key]
          BY <1>7, <1>9, <3>2
        <5>2. CASE b.key = k
          BY <1>10, <3>2, <5>2
        <5>3. CASE b.key # k
          BY <1>6, <5>1, <5>3
        <5>4. QED
          BY <5>2, <5>3
      <4>2. \E c \in Range(B): c.key = b.key
        <5>1. PICK c \in Range(A): c.key = b.key
          BY <1>7, <3>2
        <5>2. QED
          BY <1>5, <1>11, <1>14, <5>1
      <4>3. QED
        BY <1>3, <1>7, <3>2, <4>1, <4>2
    <3>3. QED
      BY <1>15, <3>1, <3>2
  <2>5. QED
    BY <2>2, <2>3, <2>4 DEF BuildHolds
<1>18. QED
  <2>1. active' = B /\ completed' = D /\ ordinals' = ordN
    BY <1>1
  <2>2. StreamsHold(Range(B) \cup Range(D), i + 1) /\ Covered(Range(B) \cup Range(D), i + 1)
    BY <1>12, <1>16
  <2>3. QED
    BY <1>1, <1>6, <1>14, <1>15, <1>16, <1>17, <2>1, <2>2, Built

\* The open streams follow the completed ones.
LEMMA CloseStep ==
    ASSUME FlowInv, CloseStreams
    PROVE  FlowInv'
<1>1. /\ phase = "build" /\ phase' = "emit" /\ cursor > Len(file)
      /\ completed' = completed \o active /\ active' = <<>>
      /\ UNCHANGED <<file, format, cursor, ordinals, result, imported>>
  BY DEF CloseStreams
<1>2. Types /\ Outcome /\ Assembled
  BY DEF FlowInv
<1> PICK A, C, D: A = active /\ C = completed /\ D = completed \o active
  OBVIOUS
<1>3. /\ file \in Seq(Packet) /\ A \in Seq(Stream) /\ C \in Seq(Stream)
      /\ Distinct(A) /\ Distinct(C) /\ Range(A) \cap Range(C) = {}
      /\ StreamsHold(Range(A) \cup Range(C), cursor) /\ Covered(Range(A) \cup Range(C), cursor)
      /\ Emitted = {} /\ result.flows = <<>> /\ Underway
  BY <1>1, Building
<1>4. D \in Seq(Stream) /\ Range(D) = Range(C) \cup Range(A) /\ Distinct(D)
  BY <1>3, Joined
<1>5. Derived' /\ Emitted' = {} /\ result' \in Capture'
  BY <1>1, <1>3, DerivesNothing
<1>6. Types'
  <2>1. \A S: <<>> \in Seq(S)
    BY <1>3, NothingDerived
  <2>2. active' \in Seq(Stream) /\ completed' \in Seq(Stream)
    BY <1>1, <1>4, <2>1
  <2>3. QED
    BY <1>1, <1>2, <1>5, <2>2, SameFile DEF Types, Phases
<1>7. Range(active') = {} /\ Distinct(active')
  BY <1>1, <1>3, NothingDerived
<1>8. Streams' = Range(A) \cup Range(C) /\ Range(completed)' = Range(D)
  <2>1. Range(completed') = Range(D)
    BY <1>1
  <2>2. QED
    BY <1>4, <1>5, <1>7, <2>1 DEF Streams
<1>9. StreamsHold(Streams, cursor)' /\ Covered(Streams, cursor)'
  BY <1>1, <1>3, <1>8, SameFile
<1>10. cursor' = Len(file') + 1
  BY <1>1, <1>2, <1>3, PacketFields DEF Types
<1>11. Distinct(completed') /\ EachOnce(result'.flows)
  BY <1>1, <1>3, <1>4 DEF Distinct, EachOnce
<1>12. Assembled'
  BY <1>1, <1>5, <1>7, <1>8, <1>9, <1>10, <1>11 DEF Assembled, Returned
<1>13. Outcome'
  <2>1. /\ result.raw_events \subseteq Indexes /\ result.raw_events = Observed(Len(file))
        /\ result.parse_status = "PARSED" <=>
              \A i \in Indexes: file[i].kind \in {"SEGMENT", "NO_PORTS"}
        /\ result.parse_status # "FAILED"
    BY <1>1, <1>2, <1>3 DEF Outcome, Returned
  <2>2. QED
    BY <1>1, <2>1, SameFile DEF Outcome
<1>14. QED
  BY <1>5, <1>6, <1>12, <1>13 DEF FlowInv

\* What holds when records are made.
LEMMA Emitting ==
    ASSUME FlowInv, phase = "emit"
    PROVE  /\ file \in Seq(Packet) /\ active = <<>> /\ completed \in Seq(Stream)
           /\ cursor = Len(file) + 1 /\ cursor \in Nat /\ Underway
           /\ Distinct(completed) /\ EachOnce(result.flows)
           /\ Range(completed) \cap Emitted = {} /\ Streams = Range(completed) \cup Emitted
           /\ StreamsHold(Streams, cursor) /\ Covered(Streams, cursor)
           /\ result \in Capture /\ result.parse_status # "FAILED"
<1>1. Types /\ Assembled /\ Outcome
  BY DEF FlowInv
<1>2. Underway
  BY DEF Underway
<1>3. /\ file \in Seq(Packet) /\ completed \in Seq(Stream) /\ active = <<>>
      /\ cursor = Len(file) + 1 /\ result \in Capture /\ result.parse_status # "FAILED"
  BY <1>1, <1>2 DEF Types, Assembled, Outcome, Returned
<1>4. cursor \in Nat
  BY <1>3, PacketFields
<1>5. Range(active) = {}
  BY <1>3, NothingDerived
<1>6. QED
  BY <1>1, <1>2, <1>3, <1>4, <1>5 DEF Assembled, Streams

\* normalize_capture returns, and the runtime imports the first of the evidence.
LEMMA ReturnStep ==
    ASSUME FlowInv, Return
    PROVE  FlowInv'
<1>1. /\ phase = "emit" /\ completed = <<>> /\ phase' = "done"
      /\ UNCHANGED <<file, format, cursor, active, ordinals, completed, result, imported>>
  BY DEF Return
<1>2. Types /\ Assembled /\ Outcome /\ Underway /\ active = <<>> /\ cursor = Len(file) + 1
  BY <1>1, Emitting DEF FlowInv
<1>3. Derived' /\ Emitted' = Emitted
  BY <1>1, DerivesNothing
<1>4. Types'
  BY <1>1, <1>2, SameFile DEF Types, Phases
<1>5. Streams' = Streams
  BY <1>1, <1>3 DEF Streams
<1>6. Assembled'
  BY <1>1, <1>2, <1>3, <1>5, SameFile DEF Assembled, Distinct
<1>7. Outcome'
  BY <1>1, <1>2, SameFile DEF Outcome, Returned
<1>8. QED
  BY <1>3, <1>4, <1>6, <1>7 DEF FlowInv

\* The run imports the first records.
LEMMA ImportStep ==
    ASSUME FlowInv, ImportOfficial
    PROVE  FlowInv'
<1> PICK size: size = IF Len(result.evidence) < ImportLimit THEN Len(result.evidence)
                                                            ELSE ImportLimit
  OBVIOUS
<1>1. /\ phase = "done" /\ phase' = "imported" /\ imported' = SubSeq(result.evidence, 1, size)
      /\ UNCHANGED <<file, format, cursor, active, ordinals, completed, result>>
  BY DEF ImportOfficial
<1>2. Types /\ Assembled /\ Derived /\ Outcome
  BY DEF FlowInv
<1>3. result.evidence \in Seq(Evidence)
  BY <1>2 DEF Types, Capture
<1>4. size \in Int /\ size <= Len(result.evidence) /\ Len(result.evidence) \in Nat
  BY <1>3, LenProperties, KeysAssumption
<1>5. imported' \in Seq(Evidence) /\ Range(imported') \subseteq Range(result.evidence)
  <2> PICK s: s = result.evidence
    OBVIOUS
  <2>1. DOMAIN s = 1..Len(s) /\ \A n \in 1..Len(s): s[n] \in Range(s)
    BY <1>3, Elements
  <2>2. \A n \in 1..size: s[n] \in Range(s)
    BY <1>4, <2>1
  <2>3. 1 \in Int
    OBVIOUS
  <2> DEFINE t == SubSeq(s, 1, size)
  <2>4. t \in Seq(Range(s))
    BY <1>4, <2>2, <2>3, SubSeqProperties
  <2> HIDE DEF t
  <2>5. Range(t) \subseteq Range(s)
    BY <2>4, Elements
  <2>6. Range(s) \subseteq Evidence
    BY <1>3, Elements
  <2>7. t \in Seq(Evidence)
    BY <2>4, <2>6, SeqMonotonic
  <2>8. QED
    BY <1>1, <2>5, <2>7 DEF t
<1>6. Types'
  BY <1>1, <1>2, <1>5, SameFile DEF Types, Phases
<1>7. Emitted' = Emitted
  BY <1>1 DEF Emitted, StreamOf
<1>8. Streams' = Streams /\ (Underway' <=> Underway)
  BY <1>1, <1>7 DEF Streams, Underway, Returned
<1>9. Assembled'
  BY <1>1, <1>2, <1>7, <1>8, SameFile DEF Assembled, Distinct, Returned
<1>10. Derived'
  BY <1>1, <1>2, <1>5, <1>7, SameFile DEF Derived, EvidenceOf, Distinct
<1>11. Outcome'
  BY <1>1, <1>2, <1>8, SameFile DEF Outcome, Returned
<1>12. QED
  BY <1>6, <1>9, <1>10, <1>11 DEF FlowInv

\* A stream raises for its timestamps or for one or two of its payloads.
LEMMA RaisedForReason ==
    ASSUME file \in Seq(Packet), NEW n \in Nat, NEW a, Wellformed(a, n), Raises(a),
           \A i, j \in Range(a.members): SameConversation(i, j)
    PROVE  Reason
<1>1. \A i \in Range(a.members): i \in Indexes /\ i \in Nat /\ HasPorts(i)
  BY Members
<1>2. CASE FlowRefused(a)
  <2> PICK s: s = a.members
    OBVIOUS
  <2>a. PICK last: last = Len(s)
    OBVIOUS
  <2>1. /\ s \in Seq(Nat) /\ s # <<>> /\ \A i, j \in DOMAIN s: i < j => s[i] < s[j]
    BY DEF Wellformed, InOrder
  <2>2. DOMAIN s = 1..last /\ last \in Nat /\ 1 \in DOMAIN s /\ Head(s) = s[1]
    BY <2>1, <2>a, Headed, LenProperties
  <2>3. last \in DOMAIN s /\ (last = 1 \/ 1 < last)
    <3>1. 1 \in 1..last /\ last \in Nat
      BY <2>2
    <3>2. last \in 1..last /\ (last = 1 \/ 1 < last)
      BY <3>1
    <3>3. QED
      BY <2>2, <3>2
  <2>4. Last(s) = s[last]
    BY <2>a DEF Last
  <2>5. file[s[1]].at > file[s[last]].at
    BY <1>2, <2>2, <2>4 DEF FlowRefused
  <2>6. s[1] \in Range(s) /\ s[last] \in Range(s)
    BY <2>2, <2>3 DEF Range
  <2>7. s[1] \in Indexes /\ s[last] \in Indexes /\ file[s[1]].at \in Nat /\ file[s[last]].at \in Nat
    BY <1>1, <2>6, PacketFields
  <2>8. last # 1
    BY <2>5, <2>7
  <2>9. s[1] < s[last]
    BY <2>1, <2>2, <2>3, <2>8
  <2>10. QED
    BY <2>5, <2>6, <2>7, <2>9 DEF Reason
<1>3. CASE ResponseRefused(a)
  BY <1>1, <1>3 DEF ResponseRefused, Reason
<1>4. CASE DnsRefused(a)
  BY <1>1, <1>4 DEF DnsRefused, Reason
<1>5. CASE HttpBreaks(a)
  BY <1>1, <1>5 DEF HttpBreaks, Reason
<1>6. QED
  BY <1>2, <1>3, <1>4, <1>5 DEF Raises

\* The exception leaves normalize_capture: its result is lost.
LEMMA RaiseStep ==
    ASSUME FlowInv, EmitRaises
    PROVE  FlowInv'
<1>1. /\ phase = "emit" /\ completed # <<>> /\ Raises(Head(completed))
      /\ phase' = "raised" /\ result' = EmptyResult
      /\ UNCHANGED <<file, format, cursor, active, ordinals, completed, imported>>
  BY DEF EmitRaises
<1>2. Types /\ Assembled /\ Derived
  BY DEF FlowInv
<1>3. /\ file \in Seq(Packet) /\ active = <<>> /\ completed \in Seq(Stream) /\ cursor \in Nat
      /\ Distinct(completed) /\ StreamsHold(Streams, cursor)
      /\ Streams = Range(completed) \cup Emitted
  BY <1>1, Emitting
<1>4. /\ result'.flows = <<>> /\ result'.http_events = <<>> /\ result'.raw_events = {}
      /\ result'.dns_events = <<>> /\ result'.evidence = <<>>
      /\ result'.parse_status = "PARSED" /\ result' = EmptyResult'
  BY <1>1 DEF EmptyResult
<1>5. result' \in Capture'
  <2>1. EmptyResult \in Capture
    BY <1>3, NothingDerived
  <2>2. QED
    BY <1>1, <2>1, SameFile
<1>6. Types'
  BY <1>1, <1>2, <1>5, SameFile DEF Types, Phases
<1>7. imported = <<>>
  BY <1>1, <1>2 DEF Derived
<1>8. /\ Range(result'.flows) = {} /\ Range(result'.http_events) = {}
      /\ Range(result'.dns_events) = {} /\ Range(result'.evidence) = {}
      /\ Range(imported') = {} /\ Distinct(result'.evidence) /\ EachOnce(result'.flows)
      /\ EvidenceOf(result'.http_events, result'.dns_events) = {}
      /\ Range(active') = {} /\ Distinct(active')
  BY <1>1, <1>3, <1>4, <1>7, NothingDerived
<1>9. Len(result'.evidence) = Len(result'.http_events) + Len(result'.dns_events)
  <2>1. Len(<<>>) = Len(<<>>) + Len(<<>>)
    OBVIOUS
  <2>2. QED
    BY <1>4, <2>1
<1>10. Derived'
  BY <1>1, <1>7, <1>8, <1>9 DEF Derived, EvidenceOf, Distinct
<1>11. Emitted' = {} /\ ~Underway'
  BY <1>1, <1>8 DEF Emitted, Underway, Returned
<1>12. Streams' = Range(completed)
  BY <1>1, <1>8, <1>11 DEF Streams
<1>13. StreamsHold(Range(completed), cursor)
  BY <1>3 DEF StreamsHold
<1>14. StreamsHold(Streams, cursor)'
  BY <1>1, <1>12, <1>13, SameFile
<1>15. Assembled'
  BY <1>1, <1>3, <1>8, <1>11, <1>14 DEF Assembled, Distinct
<1>16. Reason
  <2>1. Head(completed) \in Range(completed)
    BY <1>1, <1>3, Headed
  <2>2. Wellformed(Head(completed), cursor)
    BY <1>3, <2>1 DEF StreamsHold
  <2>3. cursor = Len(file) + 1 /\ Indexes = 1..Len(file)
    BY <1>1, <1>3, Emitting, PacketFields
  <2>4. \A i \in Range(Head(completed).members): i \in Indexes /\ i < cursor
    BY <1>3, <2>2, Members
  <2>5. \A i, j \in Range(Head(completed).members): SameConversation(i, j)
    BY <1>3, <2>1, <2>4 DEF StreamsHold
  <2>6. QED
    BY <1>1, <1>3, <2>2, <2>5, RaisedForReason
<1>17. Outcome'
  BY <1>1, <1>4, <1>11, <1>16, SameFile DEF Outcome
<1>18. QED
  BY <1>6, <1>10, <1>15, <1>17 DEF FlowInv

\* What _flow_schema says of a stream.
LEMMA FlowSchemaOf ==
    ASSUME file \in Seq(Packet), NEW n \in Nat, NEW a, Wellformed(a, n)
    PROVE  /\ FlowId(a) \in Ids
           /\ FlowSchema(a) \in Flow
           /\ StreamOf(FlowSchema(a)) = a
           /\ ~Raises(a) => Recorded(FlowSchema(a))
<1>1. /\ a \in Stream /\ a.key \in Keys /\ a.ordinal \in Nat /\ a.members \in Seq(Indexes)
      /\ a.initiator \in {"LEFT", "RIGHT"} /\ a.members # <<>> /\ a.members \in Seq(Nat)
  BY DEF Wellformed, Stream, InOrder
<1>2. \A i \in Range(a.members): /\ i \in Indexes /\ i \in Nat /\ HasPorts(i)
                                 /\ file[i].key \in Keys
  BY Members, PacketFields
<1>3. Head(a.members) \in Range(a.members) /\ Head(a.members) \in Indexes /\ Head(a.members) \in Nat
  BY <1>2, Members
<1>4. Last(a.members) \in Nat
  <2> PICK s, last: s = a.members /\ last = Len(s)
    OBVIOUS
  <2>1. 1 \in DOMAIN s /\ DOMAIN s = 1..last /\ last \in Nat
    BY <1>1, Headed, LenProperties
  <2>2. last \in 1..last
    BY <2>1
  <2>3. s[last] \in Nat
    BY <1>1, <2>1, <2>2, ElementOfSeq
  <2>4. QED
    BY <2>3 DEF Last
<1>5. file[Head(a.members)].at \in Nat
  BY <1>3, PacketFields
<1>6. FlowId(a) \in Ids /\ FlowId(a)[3] = a.ordinal
  BY <1>1, <1>5 DEF FlowId, Ids
<1>7. \A i \in Range(a.members): ApplicationProtocol(i) \in Protocols
  <2> TAKE i \in Range(a.members)
  <2>1. PortProtocol[file[i].key] \in Protocols
    BY <1>2, KeysAssumption DEF Protocols
  <2>2. QED
    BY <2>1 DEF ApplicationProtocol, Protocols
<1>8. FlowProtocol(a) \in Protocols
  <2> DEFINE known == {i \in Range(a.members): ApplicationProtocol(i) # "UNKNOWN"}
  <2>1. known \subseteq Range(a.members) /\ known \subseteq Nat
    BY <1>2
  <2>2. FlowProtocol(a) = IF known = {} THEN "UNKNOWN" ELSE ApplicationProtocol(Min(known))
    BY DEF FlowProtocol
  <2> HIDE DEF known
  <2>3. CASE known = {}
    BY <2>2, <2>3 DEF Protocols
  <2>4. CASE known # {}
    <3>1. \E m \in known: \A i \in known: m <= i
      BY <2>1, <2>4, Smallest
    <3>2. Min(known) \in known
      BY <3>1 DEF Min
    <3>3. QED
      BY <1>7, <2>1, <2>2, <2>4, <3>2
  <2>5. QED
    BY <2>3, <2>4
<1> PICK id, protocol, first, last:
      /\ id = FlowId(a) /\ protocol = FlowProtocol(a)
      /\ first = Head(a.members) /\ last = Last(a.members)
  OBVIOUS
<1> PICK direction: direction = IF \A i \in Range(a.members): file[i].side = a.initiator
                                  THEN "INITIATOR_TO_RESPONDER" ELSE "BIDIRECTIONAL"
  OBVIOUS
<1>9. direction \in {"INITIATOR_TO_RESPONDER", "BIDIRECTIONAL"}
  OBVIOUS
<1> DEFINE flow == [flow_id |-> id, key |-> a.key, initiator |-> a.initiator,
                    first_packet_index |-> first, last_packet_index |-> last,
                    raw_event_ids |-> a.members, direction |-> direction,
                    application_protocol |-> protocol]
<1>10. FlowSchema(a) = flow
  BY DEF FlowSchema
<1>11. flow \in Flow
  BY <1>1, <1>3, <1>4, <1>6, <1>8, <1>9 DEF Flow
<1>12. StreamOf(flow) = a
  BY <1>1, <1>6 DEF StreamOf, Stream
<1>13. ~Raises(a) => Recorded(flow)
  BY <1>12 DEF Recorded
<1>14. QED
  BY <1>6, <1>10, <1>11, <1>12, <1>13

\* The evidence of events with different packets, in capture order.
LEMMA EvidenceOfEvents ==
    ASSUME NEW type \in EvidenceTypes, NEW S, NEW events \in Seq(S),
           \A e \in S: e.packet \in Nat /\ e.flow_id \in Ids,
           \A m, n \in DOMAIN events: m < n => events[m].packet < events[n].packet
    PROVE  /\ EvidenceFor(type, events) \in Seq(Evidence)
           /\ Len(EvidenceFor(type, events)) = Len(events)
           /\ Range(EvidenceFor(type, events)) = {OfficialEvidence(type, e): e \in Range(events)}
           /\ Distinct(EvidenceFor(type, events))
<1>1. /\ DOMAIN events = 1..Len(events) /\ Len(events) \in Nat
      /\ \A n \in DOMAIN events: events[n] \in S /\ events[n] \in Range(events)
      /\ \A e \in Range(events): \E n \in DOMAIN events: e = events[n]
  BY Elements
<1>2. \A e \in S: OfficialEvidence(type, e) \in Evidence
  BY DEF OfficialEvidence, Evidence
<1> DEFINE s == [n \in 1..Len(events) |-> OfficialEvidence(type, events[n])]
<1>3. EvidenceFor(type, events) = s
  BY <1>1 DEF EvidenceFor
<1>4. s \in Seq(Evidence) /\ Len(s) = Len(events)
  <2>1. \A n \in 1..Len(events): OfficialEvidence(type, events[n]) \in Evidence
    BY <1>1, <1>2
  <2>2. QED
    BY <1>1, <2>1, IsASeq
<1>5. DOMAIN s = DOMAIN events /\ \A n \in DOMAIN events: s[n] = OfficialEvidence(type, events[n])
  BY <1>1
<1> HIDE DEF s
<1>6. Range(s) = {OfficialEvidence(type, e): e \in Range(events)}
  <2>1. ASSUME NEW v \in Range(s) PROVE \E e \in Range(events): v = OfficialEvidence(type, e)
    BY <1>1, <1>5 DEF Range
  <2>2. ASSUME NEW e \in Range(events) PROVE OfficialEvidence(type, e) \in Range(s)
    BY <1>1, <1>5 DEF Range
  <2>3. QED
    BY <2>1, <2>2
<1>7. ASSUME NEW m \in DOMAIN s, NEW n \in DOMAIN s, s[m] = s[n]
      PROVE  m = n
  <2>1. \A e \in S: OfficialEvidence(type, e).packet_index = e.packet
    BY DEF OfficialEvidence
  <2>2. events[m].packet = events[n].packet /\ events[m].packet \in Nat
    BY <1>1, <1>5, <1>7, <2>1
  <2>3. m \in Nat /\ n \in Nat
    BY <1>1, <1>5
  <2>4. ~(m < n) /\ ~(n < m)
    BY <1>5, <2>2
  <2>5. QED
    BY <2>3, <2>4
<1>8. QED
  BY <1>3, <1>4, <1>6, <1>7 DEF Distinct

\* The events of a stream, and the evidence of them.
LEMMA RecordsOf ==
    ASSUME file \in Seq(Packet), NEW n \in Nat, NEW a, Wellformed(a, n)
    PROVE  /\ HttpEvents(a) \in Seq(Http) /\ DnsEvents(a) \in Seq(Dns)
           /\ \A e \in Range(HttpEvents(a)): HttpOf(e, a)
           /\ \A e \in Range(DnsEvents(a)): DnsOf(e, a)
           /\ LET EH == EvidenceFor("HTTP_EVENT", HttpEvents(a))
                  ED == EvidenceFor("DNS_EVENT", DnsEvents(a))
              IN  /\ EH \in Seq(Evidence) /\ ED \in Seq(Evidence) /\ Distinct(EH) /\ Distinct(ED)
                  /\ Len(EH) = Len(HttpEvents(a)) /\ Len(ED) = Len(DnsEvents(a))
                  /\ Range(EH) = {OfficialEvidence("HTTP_EVENT", e): e \in Range(HttpEvents(a))}
                  /\ Range(ED) = {OfficialEvidence("DNS_EVENT", e): e \in Range(DnsEvents(a))}
<1>1. FlowId(a) \in Ids /\ InOrder(a.members)
  BY FlowSchemaOf DEF Wellformed
<1>2. HttpEventsHold(a) /\ DnsEventsHold(a)
  BY <1>1, EventsOf
<1> PICK H, D, id: H = HttpEvents(a) /\ D = DnsEvents(a) /\ id = FlowId(a)
  OBVIOUS
<1>3. /\ H \in Seq(HttpEvent(id)) /\ D \in Seq(DnsEvent(id))
      /\ \A i, j \in DOMAIN H: i < j => H[i].packet < H[j].packet
      /\ \A i, j \in DOMAIN D: i < j => D[i].packet < D[j].packet
      /\ \A i \in DOMAIN H: /\ H[i].packet \in Range(a.members)
                            /\ file[H[i].packet].payload = "REQUEST"
                            /\ Answered(H[i], Range(a.members))
      /\ \A i \in DOMAIN D: /\ D[i].packet \in Range(a.members)
                            /\ file[D[i].packet].payload \in {"QUERY", "ANSWER"}
  BY <1>2 DEF HttpEventsHold, DnsEventsHold
<1>4. HttpEvent(id) \subseteq Http /\ DnsEvent(id) \subseteq Dns
  BY <1>1 DEF HttpEvent, DnsEvent, Http, Dns
<1>5. H \in Seq(Http) /\ D \in Seq(Dns)
  BY <1>3, <1>4, SeqMonotonic
<1>6. /\ \A e \in Range(H): \E i \in DOMAIN H: e = H[i] /\ e \in HttpEvent(id)
      /\ \A e \in Range(D): \E i \in DOMAIN D: e = D[i] /\ e \in DnsEvent(id)
  BY <1>3, Elements
<1>7. \A e \in Range(H): HttpOf(e, a)
  BY <1>3, <1>6 DEF HttpOf, HttpEvent
<1>8. \A e \in Range(D): DnsOf(e, a)
  BY <1>3, <1>6 DEF DnsOf, DnsEvent
<1>9. /\ \A e \in Http: e.packet \in Nat /\ e.flow_id \in Ids
      /\ \A e \in Dns: e.packet \in Nat /\ e.flow_id \in Ids
      /\ "HTTP_EVENT" \in EvidenceTypes /\ "DNS_EVENT" \in EvidenceTypes
  BY DEF Http, Dns, EvidenceTypes
<1>10. /\ EvidenceFor("HTTP_EVENT", H) \in Seq(Evidence) /\ Distinct(EvidenceFor("HTTP_EVENT", H))
       /\ Len(EvidenceFor("HTTP_EVENT", H)) = Len(H)
       /\ Range(EvidenceFor("HTTP_EVENT", H)) = {OfficialEvidence("HTTP_EVENT", e): e \in Range(H)}
  BY <1>3, <1>5, <1>9, EvidenceOfEvents
<1>11. /\ EvidenceFor("DNS_EVENT", D) \in Seq(Evidence) /\ Distinct(EvidenceFor("DNS_EVENT", D))
       /\ Len(EvidenceFor("DNS_EVENT", D)) = Len(D)
       /\ Range(EvidenceFor("DNS_EVENT", D)) = {OfficialEvidence("DNS_EVENT", e): e \in Range(D)}
  BY <1>3, <1>5, <1>9, EvidenceOfEvents
<1>12. QED
  BY <1>5, <1>7, <1>8, <1>10, <1>11

\* What is in a sequence put after another.
LEMMA JoinedRange ==
    ASSUME NEW S, NEW s \in Seq(S), NEW t \in Seq(S)
    PROVE  s \o t \in Seq(S) /\ Len(s \o t) = Len(s) + Len(t) /\ Range(s \o t) = Range(s) \cup Range(t)
  BY Joined

\* A sequence without repetitions stays so when what follows it is new.
LEMMA JoinedDistinct ==
    ASSUME NEW S, NEW s \in Seq(S), NEW t \in Seq(S), Distinct(s), Distinct(t),
           Range(s) \cap Range(t) = {}
    PROVE  Distinct(s \o t)
  BY Joined

\* The records of the stream that has waited longest.
LEMMA EmitStep ==
    ASSUME FlowInv, EmitFlow
    PROVE  FlowInv'
<1>b. PICK a, flow, H, D: /\ a = Head(completed) /\ flow = FlowSchema(a)
                          /\ H = HttpEvents(a) /\ D = DnsEvents(a)
  OBVIOUS
<1>c. PICK EH, ED: EH = EvidenceFor("HTTP_EVENT", H) /\ ED = EvidenceFor("DNS_EVENT", D)
  OBVIOUS
<1>d. PICK F, HH, DD, V: /\ F = result.flows /\ HH = result.http_events
                         /\ DD = result.dns_events /\ V = result.evidence
  OBVIOUS
<1>1. /\ phase = "emit" /\ completed # <<>> /\ completed' = Tail(completed)
      /\ UNCHANGED <<file, phase, format, cursor, active, ordinals, imported>>
  BY DEF EmitFlow
<1>2. result' = [result EXCEPT !.flows = Append(F, flow), !.http_events = HH \o H,
                               !.dns_events = DD \o D, !.evidence = V \o EH \o ED]
  BY <1>b, <1>c, <1>d DEF EmitFlow
<1>3. Types /\ Assembled /\ Derived /\ Outcome
  BY DEF FlowInv
<1>4. /\ file \in Seq(Packet) /\ active = <<>> /\ completed \in Seq(Stream)
      /\ cursor = Len(file) + 1 /\ cursor \in Nat /\ Underway
      /\ Distinct(completed) /\ EachOnce(F)
      /\ Range(completed) \cap Emitted = {} /\ Streams = Range(completed) \cup Emitted
      /\ StreamsHold(Streams, cursor) /\ Covered(Streams, cursor)
      /\ result \in Capture /\ result.parse_status # "FAILED"
  BY <1>1, <1>d, Emitting
<1>5. F \in Seq(Flow) /\ HH \in Seq(Http) /\ DD \in Seq(Dns) /\ V \in Seq(Evidence)
  BY <1>4, <1>d DEF Capture
<1>6. /\ a \in Range(completed) /\ Tail(completed) \in Seq(Stream)
      /\ Range(completed) = {a} \cup Range(Tail(completed))
      /\ Distinct(Tail(completed)) /\ a \notin Range(Tail(completed))
  BY <1>1, <1>4, <1>b, Headed
<1>7. Wellformed(a, cursor) /\ a \notin Emitted /\ a \in Streams
  BY <1>4, <1>6 DEF StreamsHold
<1>8. flow \in Flow /\ StreamOf(flow) = a /\ Recorded(flow)
  <2>1. ~Raises(a)
    BY <1>b DEF EmitFlow
  <2>2. QED
    BY <1>4, <1>7, <1>b, <2>1, FlowSchemaOf
<1>9. /\ H \in Seq(Http) /\ D \in Seq(Dns)
      /\ \A e \in Range(H): HttpOf(e, a)
      /\ \A e \in Range(D): DnsOf(e, a)
      /\ EH \in Seq(Evidence) /\ ED \in Seq(Evidence) /\ Distinct(EH) /\ Distinct(ED)
      /\ Len(EH) = Len(H) /\ Len(ED) = Len(D)
      /\ Range(EH) = {OfficialEvidence("HTTP_EVENT", e): e \in Range(H)}
      /\ Range(ED) = {OfficialEvidence("DNS_EVENT", e): e \in Range(D)}
  BY <1>4, <1>7, <1>b, <1>c, RecordsOf
<1>10. Emitted = {StreamOf(f): f \in Range(F)}
  BY <1>d DEF Emitted
<1>a. PICK F1, H1, D1, V1: /\ F1 = Append(F, flow) /\ H1 = HH \o H
                         /\ D1 = DD \o D /\ V1 = V \o EH \o ED
  OBVIOUS
<1>11. F1 \in Seq(Flow) /\ Range(F1) = Range(F) \cup {flow} /\ EachOnce(F1)
  <2>1. F1 \in Seq(Flow) /\ Range(F1) = Range(F) \cup {flow}
    BY <1>5, <1>8, <1>a, Appended
  <2>2. /\ Len(F1) = Len(F) + 1 /\ F1[Len(F) + 1] = flow
        /\ \A n \in DOMAIN F: F1[n] = F[n]
    BY <1>5, <1>8, <1>a, Appended
  <2>3. DOMAIN F = 1..Len(F) /\ Len(F) \in Nat /\ DOMAIN F1 = 1..Len(F1)
    BY <1>5, <2>1, LenProperties
  <2>4. DOMAIN F1 = DOMAIN F \cup {Len(F) + 1}
    BY <2>2, <2>3
  <2>5. \A n \in DOMAIN F: StreamOf(F1[n]) # a
    <3>1. \A n \in DOMAIN F: F[n] \in Range(F)
      BY DEF Range
    <3>2. QED
      BY <1>7, <1>10, <2>2, <3>1
  <2>6. ASSUME NEW m \in DOMAIN F1, NEW n \in DOMAIN F1, StreamOf(F1[m]) = StreamOf(F1[n])
        PROVE  m = n
    <3>1. CASE m \in DOMAIN F /\ n \in DOMAIN F
      BY <1>4, <2>2, <2>6, <3>1 DEF EachOnce
    <3>2. CASE m = Len(F) + 1 /\ n = Len(F) + 1
      BY <3>2
    <3>3. CASE m \in DOMAIN F /\ n = Len(F) + 1
      BY <1>8, <2>2, <2>5, <2>6, <3>3
    <3>4. CASE m = Len(F) + 1 /\ n \in DOMAIN F
      BY <1>8, <2>2, <2>5, <2>6, <3>4
    <3>5. QED
      BY <2>4, <2>6, <3>1, <3>2, <3>3, <3>4
  <2>7. QED
    BY <2>1, <2>6 DEF EachOnce
<1>12. H1 \in Seq(Http) /\ Range(H1) = Range(HH) \cup Range(H) /\ Len(H1) = Len(HH) + Len(H)
  <2>1. HH \in Seq(Http) /\ H \in Seq(Http)
    BY <1>5, <1>9
  <2>2. /\ HH \o H \in Seq(Http) /\ Len(HH \o H) = Len(HH) + Len(H)
        /\ Range(HH \o H) = Range(HH) \cup Range(H)
    BY <2>1, JoinedRange
  <2>3. QED
    BY <1>a, <2>2
<1>13. D1 \in Seq(Dns) /\ Range(D1) = Range(DD) \cup Range(D) /\ Len(D1) = Len(DD) + Len(D)
  <2>1. DD \in Seq(Dns) /\ D \in Seq(Dns)
    BY <1>5, <1>9
  <2>2. /\ DD \o D \in Seq(Dns) /\ Len(DD \o D) = Len(DD) + Len(D)
        /\ Range(DD \o D) = Range(DD) \cup Range(D)
    BY <2>1, JoinedRange
  <2>3. QED
    BY <1>a, <2>2
<1>14. /\ \A e \in Range(HH): \E b \in Emitted: HttpOf(e, b)
       /\ \A e \in Range(DD): \E b \in Emitted: DnsOf(e, b)
       /\ Range(V) = EvidenceOf(HH, DD) /\ Distinct(V) /\ Len(V) = Len(HH) + Len(DD)
       /\ \A f \in Range(F): Recorded(f)
       /\ imported = <<>>
  BY <1>1, <1>3, <1>d DEF Derived
<1>15. /\ \A type, e: /\ OfficialEvidence(type, e).packet_index = e.packet
                      /\ OfficialEvidence(type, e).evidence_type = type
  BY DEF OfficialEvidence
<1>16. \A v \in Range(V): v.packet_index \notin Range(a.members)
  <2> TAKE v \in Range(V)
  <2>1. \E b \in Emitted: v.packet_index \in Range(b.members)
    <3>1. CASE \E e \in Range(HH): v = OfficialEvidence("HTTP_EVENT", e)
      BY <1>14, <1>15, <3>1 DEF HttpOf
    <3>2. CASE \E e \in Range(DD): v = OfficialEvidence("DNS_EVENT", e)
      BY <1>14, <1>15, <3>2 DEF DnsOf
    <3>3. QED
      BY <1>14, <3>1, <3>2 DEF EvidenceOf
  <2>2. PICK b \in Emitted: v.packet_index \in Range(b.members)
    BY <2>1
  <2>3. b # a /\ b \in Streams
    BY <1>4, <1>7
  <2>4. Range(a.members) \cap Range(b.members) = {}
    BY <1>4, <1>7, <2>3 DEF StreamsHold
  <2>5. QED
    BY <2>2, <2>4
<1>17. /\ \A v \in Range(EH): v.packet_index \in Range(a.members) /\ v.evidence_type = "HTTP_EVENT"
       /\ \A v \in Range(ED): v.packet_index \in Range(a.members) /\ v.evidence_type = "DNS_EVENT"
  BY <1>9, <1>15 DEF HttpOf, DnsOf
<1>18. V1 \in Seq(Evidence) /\ Range(V1) = Range(V) \cup Range(EH) \cup Range(ED) /\ Distinct(V1)
       /\ Len(V1) = Len(V) + Len(EH) + Len(ED)
  <2>a. PICK W: W = V \o EH
    OBVIOUS
  <2>1. Range(V) \cap Range(EH) = {} /\ Range(V) \cap Range(ED) = {} /\ Range(EH) \cap Range(ED) = {}
    BY <1>16, <1>17
  <2>2. /\ W \in Seq(Evidence) /\ Range(W) = Range(V) \cup Range(EH) /\ Distinct(W)
        /\ Len(W) = Len(V) + Len(EH)
    <3>1. V \in Seq(Evidence) /\ EH \in Seq(Evidence) /\ Distinct(V) /\ Distinct(EH)
      BY <1>5, <1>9, <1>14
    <3>2. /\ V \o EH \in Seq(Evidence) /\ Range(V \o EH) = Range(V) \cup Range(EH)
          /\ Distinct(V \o EH) /\ Len(V \o EH) = Len(V) + Len(EH)
      BY <2>1, <3>1, JoinedRange, JoinedDistinct
    <3>3. QED
      BY <2>a, <3>2
  <2>3. Range(W) \cap Range(ED) = {}
    BY <2>1, <2>2
  <2>4. /\ W \o ED \in Seq(Evidence) /\ Range(W \o ED) = Range(W) \cup Range(ED)
        /\ Distinct(W \o ED) /\ Len(W \o ED) = Len(W) + Len(ED)
    <3>1. W \in Seq(Evidence) /\ ED \in Seq(Evidence) /\ Distinct(W) /\ Distinct(ED)
      BY <1>9, <2>2
    <3>2. QED
      BY <2>3, <3>1, Joined
  <2>5. QED
    BY <1>a, <2>a, <2>2, <2>4
<1>19. /\ result'.flows = F1 /\ result'.http_events = H1 /\ result'.dns_events = D1
       /\ result'.evidence = V1 /\ result'.raw_events = result.raw_events
       /\ result'.parse_status = result.parse_status /\ result' \in Capture
  <2> DEFINE r == [result EXCEPT !.flows = F1, !.http_events = H1, !.dns_events = D1,
                                 !.evidence = V1]
  <2>1. r \in Capture
    <3>1. F1 \in Seq(Flow) /\ H1 \in Seq(Http) /\ D1 \in Seq(Dns) /\ V1 \in Seq(Evidence)
      BY <1>11, <1>12, <1>13, <1>18
    <3>2. QED
      BY <1>4, <3>1 DEF Capture
  <2>2. /\ r.flows = F1 /\ r.http_events = H1 /\ r.dns_events = D1 /\ r.evidence = V1
        /\ r.raw_events = result.raw_events /\ r.parse_status = result.parse_status
    BY <1>4 DEF Capture
  <2>3. result' = r
    BY <1>2, <1>a
  <2> HIDE DEF r
  <2>4. QED
    BY <2>1, <2>2, <2>3
<1>20. Types'
  BY <1>1, <1>3, <1>6, <1>19, SameFile DEF Types
<1>21. Emitted' = Emitted \cup {a}
  <2>1. Emitted = {StreamOf(f): f \in Range(F)}
    BY <1>d DEF Emitted
  <2>2. Emitted' = {StreamOf(f): f \in Range(F1)}
    BY <1>19 DEF Emitted, StreamOf
  <2>3. QED
    BY <1>8, <1>11, <2>1, <2>2
<1>22. Range(active) = {} /\ Range(active') = {} /\ Distinct(active')
  BY <1>1, <1>4, NothingDerived
<1>23. Streams' = Streams
  <2>1. Streams' = Range(Tail(completed)) \cup Emitted \cup {a}
    BY <1>1, <1>21, <1>22 DEF Streams
  <2>2. QED
    BY <1>4, <1>6, <2>1
<1>24. Underway'
  BY <1>1 DEF Underway
<1>25. Assembled'
  <2>1. StreamsHold(Streams, cursor)' /\ Covered(Streams, cursor)'
    BY <1>1, <1>4, <1>23, SameFile
  <2>2. Range(completed') \cap Emitted' = {}
    BY <1>1, <1>4, <1>6, <1>21
  <2>3. Distinct(completed') /\ EachOnce(result'.flows)
    BY <1>1, <1>6, <1>11, <1>19
  <2>4. QED
    BY <1>1, <1>4, <1>22, <2>1, <2>2, <2>3 DEF Assembled, Distinct, Returned
<1>26. Derived'
  <2>1. \A f \in Range(F1): Recorded(f)
    BY <1>8, <1>11, <1>14
  <2>2. \A e \in Range(H1): \E b \in Emitted \cup {a}: HttpOf(e, b)
    BY <1>9, <1>12, <1>14
  <2>3. \A e \in Range(D1): \E b \in Emitted \cup {a}: DnsOf(e, b)
    BY <1>9, <1>13, <1>14
  <2>4. Range(V1) = EvidenceOf(H1, D1)
    <3>1. EvidenceOf(H1, D1) = EvidenceOf(HH, DD) \cup Range(EH) \cup Range(ED)
      BY <1>9, <1>12, <1>13 DEF EvidenceOf
    <3>2. QED
      BY <1>14, <1>18, <3>1
  <2>5. Len(V1) = Len(H1) + Len(D1)
    <3>1. Len(V1) = (Len(HH) + Len(DD)) + Len(H) + Len(D)
      BY <1>9, <1>14, <1>18
    <3>2. Len(HH) \in Nat /\ Len(DD) \in Nat /\ Len(H) \in Nat /\ Len(D) \in Nat
      BY <1>5, <1>9, LenProperties
    <3>3. Len(H1) = Len(HH) + Len(H) /\ Len(D1) = Len(DD) + Len(D)
      BY <1>12, <1>13
    <3>4. QED
      BY <3>1, <3>2, <3>3
  <2>6. \A f \in Range(result'.flows): Recorded(f)'
    BY <1>1, <1>19, <2>1, SameFile
  <2>7. \A e \in Range(result'.http_events): \E b \in Emitted': HttpOf(e, b)'
    BY <1>1, <1>19, <1>21, <2>2, SameFile
  <2>8. \A e \in Range(result'.dns_events): \E b \in Emitted': DnsOf(e, b)'
    BY <1>1, <1>19, <1>21, <2>3, SameFile
  <2>9. Distinct(result'.evidence) /\ Range(result'.evidence) = EvidenceOf(result'.http_events, result'.dns_events)
        /\ Len(result'.evidence) = Len(result'.http_events) + Len(result'.dns_events)
    BY <1>18, <1>19, <2>4, <2>5
  <2>10. Range(imported') = {} /\ imported' = <<>>
    BY <1>1, <1>4, <1>14, NothingDerived
  <2>11. QED
    BY <2>6, <2>7, <2>8, <2>9, <2>10 DEF Derived, EvidenceOf, Distinct
<1>27. Outcome'
  BY <1>1, <1>3, <1>4, <1>19, <1>24, SameFile DEF Outcome, Returned
<1>28. QED
  BY <1>20, <1>25, <1>26, <1>27 DEF FlowInv

-----------------------------------------------------------------------------
(* The theorems *)

\* One step of any kind.
LEMMA FlowNext == FlowInv /\ [Next]_vars => FlowInv'
<1> SUFFICES ASSUME FlowInv, [Next]_vars PROVE FlowInv'
  OBVIOUS
<1>1. CASE Scan \/ ScanDamaged
  BY <1>1, ScanStep
<1>2. CASE ReadPackets
  BY <1>2, ReadStep
<1>3. CASE ReaderFails
  BY <1>3, ReaderFailsStep
<1>4. CASE BuildFlows
  <2>1. PICK i \in Indexes: PassOver(i) \/ OpenStream(i) \/ JoinStream(i) \/ ReopenStream(i)
    BY <1>4 DEF BuildFlows, Indexes
  <2>2. QED
    BY <2>1, PassOverStep, OpenStep, JoinStep, ReopenStep
<1>5. CASE CloseStreams
  BY <1>5, CloseStep
<1>6. CASE EmitFlow
  BY <1>6, EmitStep
<1>7. CASE EmitRaises
  BY <1>7, RaiseStep
<1>8. CASE Return
  BY <1>8, ReturnStep
<1>9. CASE ImportOfficial
  BY <1>9, ImportStep
<1>10. CASE UNCHANGED vars
  <2>1. /\ Types /\ Assembled /\ Derived /\ Outcome
        /\ UNCHANGED <<file, phase, format, cursor, active, ordinals, completed, result, imported>>
    BY <1>10 DEF FlowInv, vars
  <2>2. Emitted' = Emitted
    BY <2>1 DEF Emitted
  <2>3. Streams' = Streams /\ (Underway' <=> Underway)
    BY <2>1, <2>2 DEF Streams, Underway, Returned
  <2>4. Types'
    BY <2>1, SameFile DEF Types
  <2>5. Assembled'
    BY <2>1, <2>2, <2>3, SameFile DEF Assembled, Returned
  <2>6. Derived'
    BY <2>1, <2>2, SameFile DEF Derived
  <2>7. EmptyResult' = EmptyResult
    BY DEF EmptyResult
  <2>8. Outcome'
    BY <2>1, <2>3, <2>7, SameFile DEF Outcome, Returned
  <2>9. QED
    BY <2>4, <2>5, <2>6, <2>8 DEF FlowInv
<1>11. QED
  BY <1>1, <1>2, <1>3, <1>4, <1>5, <1>6, <1>7, <1>8, <1>9, <1>10 DEF Next

\* The streams, the records and the outcome hold together in every state of every run.
THEOREM FlowsHold == Spec => []FlowInv
<1>1. QED
  BY FlowInit, FlowNext, PTL DEF Spec

\* Type correctness.
THEOREM TypeCorrect == Spec => []TypeOK
<1>1. FlowInv => TypeOK
  <2> SUFFICES ASSUME FlowInv PROVE TypeOK
    OBVIOUS
  <2>1. Types /\ Outcome /\ Derived
    BY DEF FlowInv
  <2>2. result.parse_status \in {"PARSED", "PARTIAL", "FAILED"}
    BY <2>1 DEF Types, Capture
  <2>3. Range(active) \subseteq Stream /\ Range(completed) \subseteq Stream
    BY <2>1, Elements DEF Types
  <2>4. QED
    BY <2>1, <2>2, <2>3 DEF TypeOK, Types, Outcome, Derived, Stream
<1>2. QED
  BY <1>1, FlowsHold, PTL

\* What the flows of a state are: each comes from a wellformed stream of its own.
LEMMA FlowFacts ==
    ASSUME FlowInv
    PROVE  /\ file \in Seq(Packet) /\ cursor \in Nat
           /\ \A n \in DOMAIN result.flows:
                /\ result.flows[n] \in Range(result.flows)
                /\ StreamOf(result.flows[n]) \in Emitted
                /\ Recorded(result.flows[n])
           /\ \A a \in Emitted: \E n \in DOMAIN result.flows: a = StreamOf(result.flows[n])
           /\ \A a \in Emitted: Wellformed(a, cursor)
           /\ \A a, b \in Emitted: a # b =>
                /\ Range(a.members) \cap Range(b.members) = {}
                /\ a.key # b.key \/ a.ordinal # b.ordinal
           /\ \A a \in Emitted: \A i \in Range(a.members): \A j \in Indexes:
                j < cursor => (j \in Range(a.members) <=> SameConversation(i, j))
           /\ EachOnce(result.flows)
           /\ \A flow: StreamOf(flow).members = flow.raw_event_ids
           /\ \A flow: /\ StreamOf(flow).key = flow.key
                       /\ StreamOf(flow).initiator = flow.initiator
                       /\ StreamOf(flow).ordinal = flow.flow_id[3]
<1>1. Types /\ Assembled /\ Derived
  BY DEF FlowInv
<1>2. file \in Seq(Packet) /\ cursor \in Nat
  BY <1>1, PacketFields DEF Types
<1>3. Emitted \subseteq Streams /\ StreamsHold(Streams, cursor) /\ EachOnce(result.flows)
  BY <1>1 DEF Assembled, Streams
<1>4. /\ \A a \in Emitted: Wellformed(a, cursor)
      /\ \A a, b \in Emitted: a # b =>
           /\ Range(a.members) \cap Range(b.members) = {}
           /\ a.key # b.key \/ a.ordinal # b.ordinal
      /\ \A a \in Emitted: \A i \in Range(a.members): \A j \in Indexes:
           j < cursor => (j \in Range(a.members) <=> SameConversation(i, j))
  BY <1>3 DEF StreamsHold
<1>5. /\ \A n \in DOMAIN result.flows: result.flows[n] \in Range(result.flows)
      /\ \A flow \in Range(result.flows): \E n \in DOMAIN result.flows: flow = result.flows[n]
  BY DEF Range
<1>6. /\ \A flow \in Range(result.flows): StreamOf(flow) \in Emitted /\ Recorded(flow)
      /\ \A a \in Emitted: \E flow \in Range(result.flows): a = StreamOf(flow)
  BY <1>1 DEF Emitted, Derived
<1>7. \A flow: /\ StreamOf(flow).members = flow.raw_event_ids
               /\ StreamOf(flow).key = flow.key
               /\ StreamOf(flow).initiator = flow.initiator
               /\ StreamOf(flow).ordinal = flow.flow_id[3]
  BY DEF StreamOf
<1>8. /\ \A n \in DOMAIN result.flows: /\ result.flows[n] \in Range(result.flows)
                                       /\ StreamOf(result.flows[n]) \in Emitted
                                       /\ Recorded(result.flows[n])
      /\ \A a \in Emitted: \E n \in DOMAIN result.flows: a = StreamOf(result.flows[n])
  BY <1>5, <1>6
<1>9. QED
  BY <1>2, <1>3, <1>4, <1>7, <1>8, Zenon

\* The flows of a capture that parses are its conversations (_build_flows).
THEOREM ConversationsBecomeFlows == Spec => []FlowsAreConversations
<1>1. FlowInv => FlowsAreConversations
  <2> SUFFICES ASSUME FlowInv, Returned, result.parse_status # "FAILED"
               PROVE  FlowsAreConversations
    BY DEF FlowsAreConversations
  <2>a. PICK flows: flows = result.flows
    OBVIOUS
  <2>1. /\ file \in Seq(Packet) /\ cursor \in Nat
        /\ \A n \in DOMAIN flows: StreamOf(flows[n]) \in Emitted /\ Recorded(flows[n])
        /\ \A a \in Emitted: \E n \in DOMAIN flows: a = StreamOf(flows[n])
        /\ \A a \in Emitted: Wellformed(a, cursor)
        /\ \A a, b \in Emitted: a # b => Range(a.members) \cap Range(b.members) = {}
        /\ \A a \in Emitted: \A i \in Range(a.members): \A j \in Indexes:
             j < cursor => (j \in Range(a.members) <=> SameConversation(i, j))
        /\ EachOnce(flows)
    BY <2>a, FlowFacts
  <2>2. \A flow: /\ StreamOf(flow).members = flow.raw_event_ids
                 /\ StreamOf(flow).initiator = flow.initiator
    BY DEF StreamOf
  <2>3. Streams = Emitted /\ Covered(Emitted, cursor) /\ cursor = Len(file) + 1
    <3>1. /\ Covered(Streams, cursor) /\ cursor = Len(file) + 1
          /\ active = <<>> /\ completed = <<>>
      BY DEF FlowInv, Assembled, Underway, Returned
    <3>2. Range(active) = {} /\ Range(completed) = {}
      BY <2>1, <3>1, NothingDerived
    <3>3. QED
      BY <3>1, <3>2 DEF Streams
  <2>4. \A j \in Indexes: j < cursor
    BY <2>1, <2>3, PacketFields
  <2>5. \A a \in Emitted: /\ Range(a.members) \subseteq Indexes
                          /\ Head(a.members) \in Range(a.members)
                          /\ \A i \in Range(a.members): HasPorts(i)
    BY <2>1, Members
  <2>6. \A a \in Emitted: \A i \in Range(a.members):
          Range(a.members) = {j \in Indexes: SameConversation(i, j)}
    BY <2>1, <2>4, <2>5
  <2>7. \A n \in DOMAIN flows: \E i \in {i \in Indexes: HasPorts(i)}:
          Range(flows[n].raw_event_ids) = {j \in Indexes: SameConversation(i, j)}
    <3> TAKE n \in DOMAIN flows
    <3>1. PICK a \in Emitted: a = StreamOf(flows[n])
      BY <2>1
    <3>2. Head(a.members) \in {i \in Indexes: HasPorts(i)}
      BY <2>5
    <3>3. Range(a.members) = {j \in Indexes: SameConversation(Head(a.members), j)}
      BY <2>5, <2>6
    <3>4. QED
      BY <2>2, <3>1, <3>2, <3>3
  <2>8. \A i \in {i \in Indexes: HasPorts(i)}: \E n \in DOMAIN flows:
          Range(flows[n].raw_event_ids) = {j \in Indexes: SameConversation(i, j)}
    <3> TAKE i \in {i \in Indexes: HasPorts(i)}
    <3>1. PICK a \in Emitted: i \in Range(a.members)
      BY <2>3, <2>4 DEF Covered
    <3>2. PICK n \in DOMAIN flows: a = StreamOf(flows[n])
      BY <2>1
    <3>3. QED
      BY <2>2, <2>6, <3>1, <3>2
  <2>9. {Range(flows[n].raw_event_ids): n \in DOMAIN flows}
          = {{j \in Indexes: SameConversation(i, j)}: i \in {i \in Indexes: HasPorts(i)}}
    BY <2>7, <2>8
  <2>10. ASSUME NEW m \in DOMAIN flows, NEW n \in DOMAIN flows,
                Range(flows[m].raw_event_ids) = Range(flows[n].raw_event_ids)
         PROVE  m = n
    <3>1. PICK a \in Emitted, b \in Emitted: a = StreamOf(flows[m]) /\ b = StreamOf(flows[n])
      BY <2>1
    <3>2. Range(a.members) \cap Range(b.members) # {}
      BY <2>2, <2>5, <2>10, <3>1
    <3>3. a = b
      BY <2>1, <3>2
    <3>4. QED
      BY <2>1, <3>1, <3>3 DEF EachOnce
  <2>11. \A n \in DOMAIN flows: IsSorted(flows[n].raw_event_ids, LAMBDA i, j: i < j)
    <3> TAKE n \in DOMAIN flows
    <3>1. InOrder(flows[n].raw_event_ids)
      BY <2>1, <2>2 DEF Wellformed
    <3>2. \A i, j \in 1..Len(flows[n].raw_event_ids):
             i < j => flows[n].raw_event_ids[i] < flows[n].raw_event_ids[j]
      BY <3>1, LenProperties DEF InOrder
    <3>3. QED
      BY <3>2 DEF IsSorted
  <2>12. \A n \in DOMAIN flows: flows[n].initiator = file[flows[n].first_packet_index].side
    BY <2>1, <2>2 DEF Wellformed, Recorded
  <2>13. QED
    BY <2>a, <2>9, <2>10, <2>11, <2>12 DEF FlowsAreConversations
<1>2. QED
  BY <1>1, FlowsHold, PTL

\* Streams differ in key or ordinal, events of one kind in their packet or flow.
LEMMA FlowsIdentified == FlowInv => IdentitiesDistinct
<1> SUFFICES ASSUME FlowInv PROVE IdentitiesDistinct
  OBVIOUS
<1>1. ASSUME NEW m \in DOMAIN result.flows, NEW n \in DOMAIN result.flows,
             result.flows[m].flow_id = result.flows[n].flow_id
      PROVE  m = n
  <2>1. PICK a \in Emitted, b \in Emitted:
               a = StreamOf(result.flows[m]) /\ b = StreamOf(result.flows[n])
    BY FlowFacts
  <2>2. /\ Recorded(result.flows[m]) /\ Recorded(result.flows[n])
        /\ a # b => a.key # b.key \/ a.ordinal # b.ordinal
        /\ EachOnce(result.flows)
    BY FlowFacts
  <2>3. FlowId(a) = FlowId(b)
    BY <1>1, <2>1, <2>2 DEF Recorded
  <2>4. a.key = b.key /\ a.ordinal = b.ordinal
    BY <2>3 DEF FlowId
  <2>5. QED
    BY <2>1, <2>2, <2>4 DEF EachOnce
<1>2. ASSUME NEW m \in DOMAIN result.evidence, NEW n \in DOMAIN result.evidence,
             result.evidence[m].evidence_id = result.evidence[n].evidence_id
      PROVE  m = n
  <2>1. /\ Distinct(result.evidence)
        /\ Range(result.evidence) = EvidenceOf(result.http_events, result.dns_events)
    BY DEF FlowInv, Derived
  <2>2. \A v \in Range(result.evidence): \E type, e: v = OfficialEvidence(type, e)
    BY <2>1 DEF EvidenceOf
  <2>3. result.evidence[m] \in Range(result.evidence) /\ result.evidence[n] \in Range(result.evidence)
    BY DEF Range
  <2>4. PICK t, e: result.evidence[m] = OfficialEvidence(t, e)
    BY <2>2, <2>3
  <2>5. PICK u, g: result.evidence[n] = OfficialEvidence(u, g)
    BY <2>2, <2>3
  <2>6. t = u /\ e.packet = g.packet /\ e.flow_id = g.flow_id
    BY <1>2, <2>4, <2>5 DEF OfficialEvidence
  <2>7. OfficialEvidence(t, e) = OfficialEvidence(u, g)
    BY <2>6 DEF OfficialEvidence
  <2>8. QED
    BY <2>1, <2>4, <2>5, <2>7 DEF Distinct
<1>3. QED
  BY <1>1, <1>2 DEF IdentitiesDistinct

\* Identifiers are distinct: of flows by their keys and ordinals, of evidence by
\* the packets and flows of the events.
THEOREM IdentifiersDiffer == Spec => []IdentitiesDistinct
<1>1. QED
  BY FlowsIdentified, FlowsHold, PTL

\* Responses meet their requests.
THEOREM ResponsesMeetRequests == Spec => []ResponsesFollowRequests
<1>1. FlowInv => ResponsesFollowRequests
  <2> SUFFICES ASSUME FlowInv PROVE ResponsesFollowRequests
    OBVIOUS
  <2>1. \A e \in Range(result.http_events): \E a \in Emitted: HttpOf(e, a)
    BY DEF FlowInv, Derived
  <2>2. \A a \in Emitted: \E flow \in Range(result.flows):
          flow.flow_id = FlowId(a) /\ flow.raw_event_ids = a.members
    <3> TAKE a \in Emitted
    <3>1. PICK n \in DOMAIN result.flows: a = StreamOf(result.flows[n])
      BY FlowFacts
    <3>2. /\ result.flows[n] \in Range(result.flows)
          /\ Recorded(result.flows[n])
          /\ StreamOf(result.flows[n]).members = result.flows[n].raw_event_ids
      BY FlowFacts
    <3>3. result.flows[n].flow_id = FlowId(StreamOf(result.flows[n]))
      BY <3>2 DEF Recorded
    <3>4. QED
      BY <3>1, <3>2, <3>3
  <2>3. \A f, g \in Range(result.flows): f.flow_id = g.flow_id => f = g
    <3>1. IdentitiesDistinct
      BY FlowsIdentified
    <3>2. QED
      BY <3>1 DEF IdentitiesDistinct, Range
  <2>4. ASSUME NEW n \in DOMAIN result.http_events
        PROVE  LET e == result.http_events[n]
                   flow == CHOOSE f \in Range(result.flows): f.flow_id = e.flow_id
                   later == {i \in Range(flow.raw_event_ids): i > e.packet}
                   window == {i \in later: \A j \in later: file[j].payload = "REQUEST" => i < j}
                   answers == {i \in window: file[i].payload = "RESPONSE"}
               IN  e.response = (IF answers = {} THEN 0 ELSE Max(answers))
    <3> DEFINE e == result.http_events[n]
               flow == CHOOSE f \in Range(result.flows): f.flow_id = e.flow_id
               later == {i \in Range(flow.raw_event_ids): i > e.packet}
               window == {i \in later: \A j \in later: file[j].payload = "REQUEST" => i < j}
               answers == {i \in window: file[i].payload = "RESPONSE"}
    <3>1. PICK a \in Emitted: HttpOf(e, a)
      BY <2>1 DEF Range
    <3>2. PICK f \in Range(result.flows): f.flow_id = FlowId(a) /\ f.raw_event_ids = a.members
      BY <2>2
    <3>3. e.flow_id = FlowId(a) /\ Answered(e, Range(a.members))
      BY <3>1 DEF HttpOf
    <3>4. flow = f
      BY <2>3, <3>2, <3>3
    <3>5. answers = Answers(e, Range(a.members))
      BY <3>2, <3>4 DEF Answers
    <3> HIDE DEF answers
    <3>6. e.response = (IF answers = {} THEN 0 ELSE Max(answers))
      BY <3>3, <3>5 DEF Answered
    <3>7. QED
      BY <3>6 DEF answers
  <2>5. QED
    BY <2>4, Zenon DEF ResponsesFollowRequests
<1>2. QED
  BY <1>1, FlowsHold, PTL

\* Evidence leads back to its packet.
THEOREM EvidenceLeadsBack == Spec => []EvidenceTraceable
<1>1. FlowInv => EvidenceTraceable
  <2> SUFFICES ASSUME FlowInv PROVE EvidenceTraceable
    OBVIOUS
  <2>a. PICK H, D, V: H = result.http_events /\ D = result.dns_events /\ V = result.evidence
    OBVIOUS
  <2>1. /\ \A e \in Range(H): \E a \in Emitted: HttpOf(e, a)
        /\ \A e \in Range(D): \E a \in Emitted: DnsOf(e, a)
        /\ Range(V) = EvidenceOf(H, D) /\ Len(V) = Len(H) + Len(D)
    BY <2>a DEF FlowInv, Derived
  <2>2. \A type, e: /\ OfficialEvidence(type, e).packet_index = e.packet
                    /\ OfficialEvidence(type, e).flow_id = e.flow_id
                    /\ OfficialEvidence(type, e).evidence_type = type
                    /\ OfficialEvidence(type, e).source_record_id = <<type, e.packet>>
    BY DEF OfficialEvidence
  <2>3. \A a \in Emitted: /\ Wellformed(a, cursor) /\ file \in Seq(Packet) /\ cursor \in Nat
                          /\ \E flow \in Range(result.flows):
                               a = StreamOf(flow) /\ Recorded(flow)
    BY FlowFacts
  <2>4. \A a \in Emitted: \A i \in Range(a.members): ReadPacket(i) = file[i] /\ file[i].kind = "SEGMENT"
    BY <2>3, Members DEF ReadPacket, HasPorts, Indexes
  <2>5. \A a \in Emitted: \E flow \in Range(result.flows):
          flow.flow_id = FlowId(a) /\ flow.raw_event_ids = a.members
    <3> TAKE a \in Emitted
    <3>1. PICK flow \in Range(result.flows): a = StreamOf(flow) /\ Recorded(flow)
      BY <2>3
    <3>2. StreamOf(flow).members = flow.raw_event_ids
      BY DEF StreamOf
    <3>3. flow.flow_id = FlowId(StreamOf(flow))
      BY <3>1 DEF Recorded
    <3>4. QED
      BY <3>1, <3>2, <3>3
  <2>6. \A v \in Range(V):
          \/ \E e \in Range(H): v = OfficialEvidence("HTTP_EVENT", e)
          \/ \E e \in Range(D): v = OfficialEvidence("DNS_EVENT", e)
    BY <2>1 DEF EvidenceOf
  <2>7. ASSUME NEW v \in Range(V)
        PROVE  /\ ReadPacket(v.packet_index).kind = "SEGMENT"
               /\ ReadPacket(v.packet_index).payload \in
                    (IF v.evidence_type = "HTTP_EVENT" THEN {"REQUEST"} ELSE {"QUERY", "ANSWER"})
               /\ \E f \in Range(result.flows):
                    f.flow_id = v.flow_id /\ v.packet_index \in Range(f.raw_event_ids)
    <3>1. CASE \E e \in Range(H): v = OfficialEvidence("HTTP_EVENT", e)
      <4>1. PICK e \in Range(H), a \in Emitted: v = OfficialEvidence("HTTP_EVENT", e) /\ HttpOf(e, a)
        BY <2>1, <3>1
      <4>2. /\ v.packet_index \in Range(a.members) /\ v.flow_id = FlowId(a)
            /\ v.evidence_type = "HTTP_EVENT" /\ file[v.packet_index].payload = "REQUEST"
        BY <2>2, <4>1 DEF HttpOf
      <4>3. QED
        BY <2>4, <2>5, <4>2
    <3>2. CASE \E e \in Range(D): v = OfficialEvidence("DNS_EVENT", e)
      <4>1. PICK e \in Range(D), a \in Emitted: v = OfficialEvidence("DNS_EVENT", e) /\ DnsOf(e, a)
        BY <2>1, <3>2
      <4>2. /\ v.packet_index \in Range(a.members) /\ v.flow_id = FlowId(a)
            /\ v.evidence_type = "DNS_EVENT" /\ file[v.packet_index].payload \in {"QUERY", "ANSWER"}
        BY <2>2, <4>1 DEF DnsOf
      <4>3. QED
        BY <2>4, <2>5, <4>2
    <3>3. QED
      BY <2>6, <3>1, <3>2
  <2>8. {v.source_record_id: v \in Range(V)}
          = {<<"HTTP_EVENT", e.packet>>: e \in Range(H)} \cup {<<"DNS_EVENT", e.packet>>: e \in Range(D)}
    <3>1. \A v \in Range(V):
            \/ \E e \in Range(H): v.source_record_id = <<"HTTP_EVENT", e.packet>>
            \/ \E e \in Range(D): v.source_record_id = <<"DNS_EVENT", e.packet>>
      BY <2>2, <2>6
    <3>2. /\ \A e \in Range(H): OfficialEvidence("HTTP_EVENT", e) \in Range(V)
          /\ \A e \in Range(D): OfficialEvidence("DNS_EVENT", e) \in Range(V)
      BY <2>1 DEF EvidenceOf
    <3>3. /\ \A e \in Range(H): \E v \in Range(V): v.source_record_id = <<"HTTP_EVENT", e.packet>>
          /\ \A e \in Range(D): \E v \in Range(V): v.source_record_id = <<"DNS_EVENT", e.packet>>
      BY <2>2, <3>2
    <3> DEFINE
          sources == {v.source_record_id: v \in Range(V)}
          http == {<<"HTTP_EVENT", e.packet>>: e \in Range(H)}
          dns == {<<"DNS_EVENT", e.packet>>: e \in Range(D)}
    <3>4. sources \subseteq http \cup dns
      BY <3>1
    <3>5. http \subseteq sources /\ dns \subseteq sources
      BY <3>3
    <3> HIDE DEF sources, http, dns
    <3>6. sources = http \cup dns
      BY <3>4, <3>5
    <3>7. QED
      BY <3>6 DEF sources, http, dns
  <2>9. QED
    BY <2>a, <2>1, <2>7, <2>8 DEF EvidenceTraceable
<1>2. QED
  BY <1>1, FlowsHold, PTL

\* What one packet can do to a capture.
THEOREM FailuresStayIsolated == Spec => []FailuresIsolated
<1>1. FlowInv => FailuresIsolated
  <2> SUFFICES ASSUME FlowInv PROVE FailuresIsolated
    OBVIOUS
  <2>1. phase = "raised" => Reason
    BY DEF FlowInv, Outcome
  <2>2. (Returned /\ result.parse_status # "FAILED") =>
          /\ result.raw_events = {i \in Indexes: Decodes(file[i])}
          /\ result.parse_status = "PARSED" =>
               \A i \in Indexes: file[i].kind \in {"SEGMENT", "NO_PORTS"}
    BY DEF FlowInv, Outcome, Underway, Observed, Indexes
  <2>3. ASSUME NEW flow \in Range(result.flows)
        PROVE  LET sent == {file[i].payload: i \in Range(flow.raw_event_ids)} IN
               /\ file[flow.first_packet_index].at <= file[flow.last_packet_index].at
               /\ flow.application_protocol = "HTTP" =>
                    /\ sent \cap {"BREAKING_REQUEST", "BREAKING_RESPONSE"} = {}
                    /\ \A i, j \in Range(flow.raw_event_ids):
                         i < j /\ file[i].payload = "REQUEST" => file[j].payload # "REFUSED_RESPONSE"
               /\ flow.application_protocol = "DNS" => "REFUSED_DNS" \notin sent
    <3> DEFINE a == StreamOf(flow)
    <3>1. Recorded(flow)
      BY DEF FlowInv, Derived
    <3>2. a.members = flow.raw_event_ids
      BY DEF StreamOf
    <3>3. /\ flow.first_packet_index = Head(a.members)
          /\ flow.last_packet_index = Last(a.members)
          /\ flow.application_protocol = FlowProtocol(a)
          /\ ~Raises(a)
      BY <3>1, <3>2 DEF Recorded
    <3> HIDE DEF a
    <3>4. ~(file[Head(a.members)].at > file[Last(a.members)].at)
      BY <3>3 DEF Raises, FlowRefused
    <3>5. file[Head(a.members)].at <= file[Last(a.members)].at
      <4>1. StreamOf(flow) \in Emitted
        BY DEF Emitted
      <4>2. Wellformed(a, cursor) /\ file \in Seq(Packet)
        BY <4>1, FlowFacts DEF a
      <4>a. PICK s, last: s = a.members /\ last = Len(s)
        OBVIOUS
      <4>3. s \in Seq(Indexes) /\ s # <<>> /\ Range(s) \subseteq Indexes
        BY <4>2, <4>a, FlowFacts, Members, Elements DEF Wellformed, Stream
      <4>4. DOMAIN s = 1..last /\ last \in Nat /\ 1 \in DOMAIN s /\ Head(s) = s[1]
        BY <4>3, <4>a, Headed, LenProperties
      <4>5. last \in DOMAIN s /\ Last(s) = s[last]
        <5>1. 1 \in 1..last /\ last \in Nat
          BY <4>4
        <5>2. last \in 1..last
          BY <5>1
        <5>3. QED
          BY <4>4, <4>a, <5>2 DEF Last
      <4>6. s[1] \in Indexes /\ s[last] \in Indexes
        BY <4>3, <4>4, <4>5 DEF Range
      <4>7. file[s[1]].at \in Nat /\ file[s[last]].at \in Nat
        BY <4>2, <4>6, PacketFields
      <4>8. QED
        BY <3>4, <4>a, <4>4, <4>5, <4>7
    <3>6. /\ FlowProtocol(a) = "HTTP" =>
               \A i \in Range(a.members): file[i].payload \notin {"BREAKING_REQUEST", "BREAKING_RESPONSE"}
          /\ FlowProtocol(a) = "HTTP" => \A i, j \in Range(a.members):
               i < j /\ file[i].payload = "REQUEST" => file[j].payload # "REFUSED_RESPONSE"
          /\ FlowProtocol(a) = "DNS" => \A i \in Range(a.members): file[i].payload # "REFUSED_DNS"
      BY <3>3 DEF Raises, HttpBreaks, ResponseRefused, DnsRefused
    <3>7. QED
      BY <3>2, <3>3, <3>5, <3>6
  <2>4. result.parse_status = "FAILED" => result.flows = <<>> /\ result.evidence = <<>>
    BY DEF FlowInv, Outcome
  <2>5. QED
    BY <2>1, <2>2, <2>3, <2>4 DEF FailuresIsolated, Reason
<1>2. QED
  BY <1>1, FlowsHold, PTL

=============================================================================
