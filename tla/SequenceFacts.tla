--------------------------- MODULE SequenceFacts ---------------------------
(***************************************************************************)
(* Facts about sequences that the proofs share: what elements a sequence   *)
(* has when one is appended or another one follows it, that a function     *)
(* defined step by step exists, and what kind of sequence flattening gives.*)
(***************************************************************************)
EXTENDS Integers, SequencesExt, SequenceTheorems, FiniteSetTheorems, WellFoundedInduction, TLAPS

\* No element of the sequence is there twice.
Distinct(s) == \A m, n \in DOMAIN s: s[m] = s[n] => m = n

\* A set of natural numbers has a smallest element.
LEMMA Smallest ==
    ASSUME NEW T, T \subseteq Nat, T # {}
    PROVE  \E n \in T: \A m \in T: n <= m
<1>1. PICK n \in T: \A m \in T: ~(<<m, n>> \in OpToRel(<, Nat))
  BY WFMin, NatLessThanWellFounded
<1>2. \A m \in T: ~(m < n)
  BY <1>1 DEF OpToRel
<1>3. QED
  BY <1>2

\* A sequence's domain, and its elements.
LEMMA Elements ==
    ASSUME NEW S, NEW s \in Seq(S)
    PROVE  /\ DOMAIN s = 1..Len(s) /\ Len(s) \in Nat
           /\ \A n \in DOMAIN s: s[n] \in S /\ s[n] \in Range(s)
           /\ Range(s) \subseteq S
           /\ \A x \in Range(s): \E n \in DOMAIN s: x = s[n]
<1>1. DOMAIN s = 1..Len(s) /\ Len(s) \in Nat
  BY LenProperties
<1>2. \A n \in DOMAIN s: s[n] \in S
  BY <1>1, ElementOfSeq
<1>3. QED
  BY <1>1, <1>2 DEF Range

\* Appending an element.
LEMMA Appended ==
    ASSUME NEW S, NEW s \in Seq(S), NEW x \in S
    PROVE  /\ Append(s, x) \in Seq(S)
           /\ Len(Append(s, x)) = Len(s) + 1
           /\ Append(s, x)[Len(s) + 1] = x
           /\ \A n \in DOMAIN s: Append(s, x)[n] = s[n]
           /\ Range(Append(s, x)) = Range(s) \cup {x}
           /\ Distinct(s) /\ x \notin Range(s) => Distinct(Append(s, x))
<1> DEFINE t == Append(s, x)
<1>1. /\ t \in Seq(S) /\ Len(t) = Len(s) + 1 /\ t[Len(s) + 1] = x
      /\ \A i \in 1..Len(s): t[i] = s[i]
  BY AppendProperties
<1>2. DOMAIN s = 1..Len(s) /\ DOMAIN t = 1..Len(t) /\ Len(s) \in Nat
  BY <1>1, LenProperties
<1> HIDE DEF t
<1>3. DOMAIN t = DOMAIN s \cup {Len(s) + 1} /\ Len(s) + 1 \notin DOMAIN s
  BY <1>1, <1>2
<1>4. Range(t) = Range(s) \cup {x}
  BY <1>1, <1>2, <1>3 DEF Range
<1>5. Distinct(s) /\ x \notin Range(s) => Distinct(t)
  BY <1>1, <1>2, <1>3 DEF Range, Distinct
<1>6. QED
  BY <1>1, <1>2, <1>4, <1>5 DEF t

\* Putting one sequence after another.
LEMMA Joined ==
    ASSUME NEW S, NEW s \in Seq(S), NEW t \in Seq(S)
    PROVE  /\ s \o t \in Seq(S)
           /\ Len(s \o t) = Len(s) + Len(t)
           /\ \A n \in DOMAIN s: (s \o t)[n] = s[n]
           /\ \A n \in DOMAIN t: (s \o t)[Len(s) + n] = t[n]
           /\ Range(s \o t) = Range(s) \cup Range(t)
           /\ Distinct(s) /\ Distinct(t) /\ Range(s) \cap Range(t) = {} => Distinct(s \o t)
<1> DEFINE u == s \o t
<1>1. /\ u \in Seq(S) /\ Len(u) = Len(s) + Len(t)
      /\ \A i \in 1..Len(s) + Len(t): u[i] = IF i <= Len(s) THEN s[i] ELSE t[i - Len(s)]
  BY ConcatProperties
<1>2. /\ DOMAIN s = 1..Len(s) /\ DOMAIN t = 1..Len(t) /\ DOMAIN u = 1..Len(s) + Len(t)
      /\ Len(s) \in Nat /\ Len(t) \in Nat
  BY <1>1, LenProperties
<1> HIDE DEF u
<1>3. \A n \in DOMAIN s: n \in DOMAIN u /\ u[n] = s[n]
  BY <1>1, <1>2
<1>4. \A n \in DOMAIN t: Len(s) + n \in DOMAIN u /\ u[Len(s) + n] = t[n]
  BY <1>1, <1>2
<1>5. \A n \in DOMAIN u: n \in DOMAIN s \/ (n - Len(s) \in DOMAIN t /\ Len(s) + (n - Len(s)) = n)
  BY <1>2
<1>6. Range(u) = Range(s) \cup Range(t)
  <2>1. ASSUME NEW x \in Range(u) PROVE x \in Range(s) \cup Range(t)
    BY <1>3, <1>4, <1>5 DEF Range
  <2>2. ASSUME NEW x \in Range(s) \cup Range(t) PROVE x \in Range(u)
    BY <1>3, <1>4 DEF Range
  <2>3. QED
    BY <2>1, <2>2
<1>7. ASSUME Distinct(s), Distinct(t), Range(s) \cap Range(t) = {}, NEW m \in DOMAIN u,
             NEW n \in DOMAIN u, u[m] = u[n]
      PROVE  m = n
  <2>1. CASE m \in DOMAIN s /\ n \in DOMAIN s
    BY <1>3, <1>7, <2>1 DEF Distinct
  <2>2. CASE m \notin DOMAIN s /\ n \notin DOMAIN s
    <3>1. t[m - Len(s)] = t[n - Len(s)] /\ m - Len(s) \in DOMAIN t /\ n - Len(s) \in DOMAIN t
      BY <1>4, <1>5, <1>7, <2>2
    <3>2. m - Len(s) = n - Len(s)
      BY <1>7, <3>1 DEF Distinct
    <3>3. QED
      BY <1>2, <3>2
  <2>3. CASE m \in DOMAIN s /\ n \notin DOMAIN s
    <3>1. u[m] \in Range(s) /\ u[n] \in Range(t)
      BY <1>3, <1>4, <1>5, <2>3 DEF Range
    <3>2. QED
      BY <1>7, <3>1
  <2>4. CASE m \notin DOMAIN s /\ n \in DOMAIN s
    <3>1. u[m] \in Range(t) /\ u[n] \in Range(s)
      BY <1>3, <1>4, <1>5, <2>4 DEF Range
    <3>2. QED
      BY <1>7, <3>1
  <2>5. QED
    BY <2>1, <2>2, <2>3, <2>4
<1>8. QED
  BY <1>1, <1>3, <1>4, <1>6, <1>7 DEF u, Distinct

\* A function on 0..size that is defined step by step.
Stepwise(g, size, base, step) ==
    g = [n \in 0..size |-> IF n = 0 THEN base ELSE step[n][g[n - 1]]]

\* It exists.
LEMMA StepByStep ==
    ASSUME NEW size \in Nat, NEW S, NEW base \in S, NEW step \in [1..size -> [S -> S]]
    PROVE  \E g \in [0..size -> S]: Stepwise(g, size, base, step)
<1> USE DEF Stepwise
<1> DEFINE
      Built(n, g) == g = [m \in 0..n |-> IF m = 0 THEN base ELSE step[m][g[m - 1]]]
      T == {n \in 0..size: ~\E g \in [0..n -> S]: Built(n, g)}
<1>1. /\ T \subseteq 0..size /\ 0..size \subseteq Nat
      /\ \A n \in 0..size: n \notin T => \E g \in [0..n -> S]: Built(n, g)
  OBVIOUS
<1>2. \A n \in T: ~\E g \in [0..n -> S]: Built(n, g)
  OBVIOUS
<1> HIDE DEF T
<1>3. ASSUME T # {} PROVE FALSE
  <2>1. PICK n \in T: \A m \in T: n <= m
    BY <1>1, <1>3, Smallest
  <2>2. n \in 0..size /\ n \in Nat /\ ~\E g \in [0..n -> S]: Built(n, g)
    BY <1>1, <1>2, <2>1
  <2>3. CASE n = 0
    <3> DEFINE h == [m \in 0..n |-> base]
    <3>1. h \in [0..n -> S] /\ Built(n, h)
      BY <2>3
    <3>2. QED
      BY <2>2, <3>1
  <2>4. CASE n # 0
    <3>1. n - 1 \in 0..size /\ n - 1 \notin T /\ n \in 1..size /\ n - 1 \in 0..n - 1
      BY <2>1, <2>2, <2>4
    <3>2. PICK g \in [0..n - 1 -> S]: Built(n - 1, g)
      BY <1>1, <3>1
    <3>3. step[n] \in [S -> S] /\ g[n - 1] \in S
      BY <3>1
    <3> DEFINE h == [m \in 0..n |-> IF m = n THEN step[n][g[n - 1]] ELSE g[m]]
    <3>4. \A m \in 0..n: m # n => m \in 0..n - 1
      BY <2>2
    <3>5. h \in [0..n -> S]
      BY <3>3, <3>4
    <3>6. ASSUME NEW m \in 0..n
          PROVE  h[m] = IF m = 0 THEN base ELSE step[m][h[m - 1]]
      <4>1. CASE m = n
        <5>1. h[m - 1] = g[n - 1] /\ h[m] = step[n][g[n - 1]]
          BY <2>2, <2>4, <4>1
        <5>2. QED
          BY <2>4, <4>1, <5>1
      <4>2. CASE m # n
        <5>1. m \in 0..n - 1 /\ h[m] = g[m]
          BY <3>4, <4>2
        <5>2. g[m] = IF m = 0 THEN base ELSE step[m][g[m - 1]]
          BY <3>2, <5>1
        <5>3. m # 0 => m - 1 \in 0..n /\ m - 1 # n
          BY <2>2, <5>1
        <5>4. QED
          BY <5>1, <5>2, <5>3
      <4>3. QED
        BY <4>1, <4>2
    <3> HIDE DEF h
    <3>7. Built(n, h)
      BY <3>5, <3>6
    <3>8. QED
      BY <2>2, <3>5, <3>7
  <2>5. QED
    BY <2>3, <2>4
<1>4. QED
  BY <1>1, <1>3

\* One sequence after another of a sequence of sequences.
LEMMA Flattened ==
    ASSUME NEW S, NEW seqs \in Seq(Seq(S))
    PROVE  FlattenSeq(seqs) \in Seq(S)
<1> DEFINE
      f == CHOOSE f: f = [i \in 1..Len(seqs) |-> IF i = 1 THEN seqs[i] ELSE f[i - 1] \o seqs[i]]
      Q == Seq(S)
      T == {n \in 1..Len(seqs): f[n] \notin Q}
<1>1. FlattenSeq(seqs) = IF Len(seqs) = 0 THEN seqs ELSE f[Len(seqs)]
  BY Zenon DEF FlattenSeq
<1>2. CASE Len(seqs) = 0
  BY <1>1, <1>2
<1>3. CASE Len(seqs) # 0
  <2>a. PICK size: size = Len(seqs) - 1
    OBVIOUS
  <2>1. /\ size \in Nat /\ Len(seqs) = size + 1
        /\ \A n \in 1..Len(seqs): seqs[n] \in Q
    BY <1>3, <2>a, Elements
  <2>2. \A s, t \in Q: s \o t \in Q
    BY Joined
  <2> HIDE DEF f, Q
  <2> DEFINE step == [n \in 1..size |-> [g \in Q |-> g \o seqs[n + 1]]]
  <2>3. /\ step \in [1..size -> [Q -> Q]]
        /\ \A n \in 1..size: \A g \in Q: step[n][g] = g \o seqs[n + 1]
        /\ seqs[1] \in Q
    <3>1. \A n \in 1..size: seqs[n + 1] \in Q
      BY <2>1
    <3>2. QED
      BY <2>1, <2>2, <3>1
  <2> HIDE DEF step
  <2>4. PICK g \in [0..size -> Q]:
          g = [n \in 0..size |-> IF n = 0 THEN seqs[1] ELSE step[n][g[n - 1]]]
    <3>1. \E g \in [0..size -> Q]: Stepwise(g, size, seqs[1], step)
      BY <2>1, <2>3, StepByStep, Zenon
    <3>2. QED
      BY <3>1 DEF Stepwise
  <2> DEFINE h == [i \in 1..Len(seqs) |-> g[i - 1]]
  <2>5. h = [i \in 1..Len(seqs) |-> IF i = 1 THEN seqs[i] ELSE h[i - 1] \o seqs[i]]
    <3>1. ASSUME NEW i \in 1..Len(seqs)
          PROVE  h[i] = IF i = 1 THEN seqs[i] ELSE h[i - 1] \o seqs[i]
      <4>1. CASE i = 1
        BY <2>1, <2>4, <4>1
      <4>2. CASE i # 1
        <5>1. /\ i - 1 \in 1..size /\ i - 1 \in 0..size /\ i - 1 # 0 /\ (i - 1) + 1 = i
              /\ i - 1 - 1 \in 0..size /\ i - 1 \in 1..Len(seqs)
          BY <2>1, <4>2
        <5>2. h[i] = g[i - 1] /\ h[i - 1] = g[i - 1 - 1] /\ g[i - 1 - 1] \in Q
          BY <5>1
        <5>3. g[i - 1] = step[i - 1][g[i - 1 - 1]]
          BY <2>4, <5>1
        <5>4. step[i - 1][g[i - 1 - 1]] = g[i - 1 - 1] \o seqs[(i - 1) + 1]
          BY <2>3, <5>1, <5>2
        <5>5. QED
          BY <4>2, <5>1, <5>2, <5>3, <5>4
      <4>3. QED
        BY <4>1, <4>2
    <3>2. QED
      BY <3>1
  <2> HIDE DEF h
  <2>6. f = [i \in 1..Len(seqs) |-> IF i = 1 THEN seqs[i] ELSE f[i - 1] \o seqs[i]]
    BY <2>5, Zenon DEF f
  <2>7. \A i \in 1..Len(seqs): f[i] = IF i = 1 THEN seqs[i] ELSE f[i - 1] \o seqs[i]
    BY <2>6
  <2>8. /\ T \subseteq Nat /\ \A n \in T: n \in 1..Len(seqs) /\ f[n] \notin Q
        /\ \A n \in 1..Len(seqs): n \notin T => f[n] \in Q
    OBVIOUS
  <2> HIDE DEF T
  <2>9. ASSUME T # {} PROVE FALSE
    <3>1. PICK n \in T: \A m \in T: n <= m
      BY <2>8, <2>9, Smallest
    <3>2. n \in 1..Len(seqs) /\ f[n] \notin Q
      BY <2>8, <3>1
    <3>3. CASE n = 1
      BY <2>1, <2>7, <3>2, <3>3
    <3>4. CASE n # 1
      <4>1. n - 1 \in 1..Len(seqs) /\ n - 1 \notin T
        BY <2>1, <3>1, <3>2, <3>4
      <4>2. f[n - 1] \in Q /\ seqs[n] \in Q /\ f[n] = f[n - 1] \o seqs[n]
        BY <2>1, <2>7, <2>8, <3>2, <3>4, <4>1
      <4>3. QED
        BY <2>2, <3>2, <4>2
    <3>5. QED
      BY <3>3, <3>4
  <2>10. Len(seqs) \in 1..Len(seqs)
    BY <2>1
  <2>11. f[Len(seqs)] \in Q
    BY <2>8, <2>9, <2>10
  <2>12. QED
    BY <1>1, <1>3, <2>11 DEF Q
<1>4. QED
  BY <1>2, <1>3

=============================================================================
