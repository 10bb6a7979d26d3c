----------------------- MODULE KnowledgeIndex_proofs -----------------------
(***************************************************************************)
(* Theorems about KnowledgeIndex, for any directories and documents: type  *)
(* correctness, an index that has been made is that of its directory, and  *)
(* searches find what they should.                                         *)
(***************************************************************************)
EXTENDS KnowledgeIndex, SequenceFacts

-----------------------------------------------------------------------------
(* Loading *)

\* What FirstOfEach has gathered from the first m entries.
Gathered(g, entries, m, taken) ==
    /\ g \in Seq(Entry) /\ OncePerId(g)
    /\ \A n \in DOMAIN g:
         /\ g[n].id \notin taken
         /\ \E i \in 1..m: g[n] = entries[i] /\ \A j \in 1..i - 1: entries[j].id # g[n].id
    /\ \A i \in 1..m: entries[i].id \in taken \cup IdsOf(g)

\* One entry more.
LEMMA KeepStep ==
    ASSUME NEW entries \in Seq(Entry), NEW taken, NEW m \in DOMAIN entries, NEW g,
           Gathered(g, entries, m - 1, taken)
    PROVE  Gathered(Keep(g, entries[m], taken), entries, m, taken)
<1>1. /\ DOMAIN entries = 1..Len(entries) /\ Len(entries) \in Nat /\ m \in Nat \ {0}
      /\ entries[m] \in Entry /\ 1..m - 1 \subseteq 1..m
      /\ \A i \in 1..m: i = m \/ i \in 1..m - 1
  BY Elements
<1>2. /\ g \in Seq(Entry) /\ OncePerId(g)
      /\ \A n \in DOMAIN g: g[n].id \notin taken
      /\ \A n \in DOMAIN g:
           \E i \in 1..m - 1: g[n] = entries[i] /\ \A j \in 1..i - 1: entries[j].id # g[n].id
      /\ \A i \in 1..m - 1: entries[i].id \in taken \cup IdsOf(g)
  BY DEF Gathered
<1>3. CASE entries[m].id \in taken \cup IdsOf(g)
  <2>1. Keep(g, entries[m], taken) = g
    BY <1>3 DEF Keep
  <2>2. \A n \in DOMAIN g:
          \E i \in 1..m: g[n] = entries[i] /\ \A j \in 1..i - 1: entries[j].id # g[n].id
    BY <1>1, <1>2
  <2>3. \A i \in 1..m: entries[i].id \in taken \cup IdsOf(g)
    BY <1>1, <1>2, <1>3
  <2>4. QED
    BY <1>2, <2>1, <2>2, <2>3 DEF Gathered
<1>4. CASE entries[m].id \notin taken \cup IdsOf(g)
  <2> DEFINE h == Append(g, entries[m])
  <2>1. Keep(g, entries[m], taken) = h
    BY <1>4 DEF Keep
  <2>2. /\ h \in Seq(Entry) /\ Len(h) = Len(g) + 1 /\ h[Len(g) + 1] = entries[m]
        /\ \A n \in DOMAIN g: h[n] = g[n]
        /\ DOMAIN g = 1..Len(g) /\ Len(g) \in Nat
    BY <1>1, <1>2, Appended, Elements
  <2>3. DOMAIN h = 1..Len(h)
    BY <2>2, Elements
  <2> HIDE DEF h
  <2>4. /\ DOMAIN h = DOMAIN g \cup {Len(g) + 1} /\ Len(g) + 1 \notin DOMAIN g
    BY <2>2, <2>3
  <2>5. IdsOf(h) = IdsOf(g) \cup {entries[m].id}
    BY <2>2, <2>4 DEF IdsOf
  <2>6. \A n \in DOMAIN g: g[n].id # entries[m].id
    BY <1>4 DEF IdsOf
  <2>7. OncePerId(h)
    BY <1>2, <2>2, <2>4, <2>6 DEF OncePerId
  <2>8. \A j \in 1..m - 1: entries[j].id # entries[m].id
    BY <1>2, <1>4
  <2>9. ASSUME NEW n \in DOMAIN h
        PROVE  /\ h[n].id \notin taken
               /\ \E i \in 1..m: h[n] = entries[i] /\ \A j \in 1..i - 1: entries[j].id # h[n].id
    <3>1. CASE n \in DOMAIN g
      BY <1>1, <1>2, <2>2, <3>1
    <3>2. CASE n = Len(g) + 1
      <4>1. m \in 1..m
        BY <1>1
      <4>2. QED
        BY <1>4, <2>2, <2>8, <3>2, <4>1
    <3>3. QED
      BY <2>4, <3>1, <3>2
  <2>10. \A i \in 1..m: entries[i].id \in taken \cup IdsOf(h)
    BY <1>1, <1>2, <2>5
  <2>11. QED
    BY <2>1, <2>2, <2>7, <2>9, <2>10 DEF Gathered
<1>5. QED
  BY <1>3, <1>4

\* What FirstOfEach gathers: the entries that are the first of an id not taken.
LEMMA FirstOfEachOf ==
    ASSUME NEW entries \in Seq(Entry), NEW taken
    PROVE  Gathered(FirstOfEach(entries, taken), entries, Len(entries), taken)
<1> DEFINE
      f == CHOOSE f: f = [n \in 0..Len(entries) |->
                            IF n = 0 THEN <<>> ELSE Keep(f[n - 1], entries[n], taken)]
<1>1. FirstOfEach(entries, taken) = f[Len(entries)]
  BY Zenon DEF FirstOfEach
<1>a. PICK size: size = Len(entries)
  OBVIOUS
<1>2. /\ DOMAIN entries = 1..size /\ size \in Nat
      /\ \A n \in 1..size: entries[n] \in Entry
  BY <1>a, Elements
<1> DEFINE
      S == Seq(Entry)
      step == [n \in 1..size |-> [g \in S |-> Keep(g, entries[n], taken)]]
      T == {n \in 0..size: ~Gathered(f[n], entries, n, taken)}
<1>3. <<>> \in S
  OBVIOUS
<1>4. /\ step \in [1..size -> [S -> S]]
      /\ \A n \in 1..size: \A g \in S: step[n][g] = Keep(g, entries[n], taken)
  <2>1. \A n \in 1..size: \A g \in S: Keep(g, entries[n], taken) \in S
    BY <1>2, AppendProperties DEF Keep
  <2>2. QED
    BY <2>1
<1> HIDE DEF S, step
<1>5. PICK g \in [0..size -> S]: g = [n \in 0..size |-> IF n = 0 THEN <<>> ELSE step[n][g[n - 1]]]
  <2>1. size \in Nat /\ step \in [1..size -> [S -> S]]
    BY <1>2, <1>4
  <2>2. \E g \in [0..size -> S]: Stepwise(g, size, <<>>, step)
    BY <1>3, <2>1, StepByStep, Zenon
  <2>3. QED
    BY <2>2 DEF Stepwise
<1>6. g = [n \in 0..size |-> IF n = 0 THEN <<>> ELSE Keep(g[n - 1], entries[n], taken)]
  <2>1. ASSUME NEW n \in 0..size
        PROVE  g[n] = IF n = 0 THEN <<>> ELSE Keep(g[n - 1], entries[n], taken)
    <3>1. CASE n = 0
      BY <1>5, <3>1
    <3>2. CASE n # 0
      <4>1. n \in 1..size /\ n - 1 \in 0..size
        BY <1>2, <3>2
      <4>2. g[n] = step[n][g[n - 1]] /\ g[n - 1] \in S
        BY <1>5, <3>2, <4>1
      <4>3. QED
        BY <1>4, <3>2, <4>1, <4>2
    <3>3. QED
      BY <3>1, <3>2
  <2>2. QED
    BY <1>5, <2>1
<1>7. f = [n \in 0..Len(entries) |->
             IF n = 0 THEN <<>> ELSE Keep(f[n - 1], entries[n], taken)]
  <2>1. g = [n \in 0..Len(entries) |->
               IF n = 0 THEN <<>> ELSE Keep(g[n - 1], entries[n], taken)]
    BY <1>a, <1>6
  <2>2. QED
    BY <2>1, Zenon
<1> HIDE DEF f
<1>8. /\ f[0] = <<>>
      /\ \A n \in 1..size: f[n] = Keep(f[n - 1], entries[n], taken)
  <2>1. f = [n \in 0..size |-> IF n = 0 THEN <<>> ELSE Keep(f[n - 1], entries[n], taken)]
    BY <1>a, <1>7
  <2>2. \A n \in 0..size: f[n] = IF n = 0 THEN <<>> ELSE Keep(f[n - 1], entries[n], taken)
    BY <2>1
  <2>3. 0 \in 0..size /\ \A n \in 1..size: n \in 0..size /\ n # 0
    BY <1>2
  <2>4. QED
    BY <2>2, <2>3
<1>9. /\ T \subseteq 0..size /\ 0..size \subseteq Nat
      /\ \A n \in T: ~Gathered(f[n], entries, n, taken)
      /\ \A n \in 0..size: n \notin T => Gathered(f[n], entries, n, taken)
  OBVIOUS
<1> HIDE DEF T
<1>10. ASSUME T # {} PROVE FALSE
  <2>1. PICK n \in T: \A m \in T: n <= m
    BY <1>9, <1>10, Smallest
  <2>2. n \in 0..size /\ n \in Nat /\ ~Gathered(f[n], entries, n, taken)
    BY <1>9, <2>1
  <2>3. CASE n = 0
    <3>1. Gathered(<<>>, entries, 0, taken)
      BY <1>3 DEF Gathered, OncePerId, S
    <3>2. QED
      BY <1>8, <2>2, <2>3, <3>1
  <2>4. CASE n # 0
    <3>1. n \in 1..size /\ n - 1 \in 0..size /\ n - 1 \notin T
      BY <1>2, <2>1, <2>2, <2>4
    <3>2. Gathered(f[n - 1], entries, n - 1, taken)
      BY <1>9, <3>1
    <3>3. Gathered(Keep(f[n - 1], entries[n], taken), entries, n, taken)
      BY <1>2, <3>1, <3>2, KeepStep
    <3>4. QED
      BY <1>8, <2>2, <3>1, <3>3
  <2>5. QED
    BY <2>3, <2>4
<1>11. size \in 0..size /\ size \notin T
  BY <1>2, <1>10
<1>12. QED
  BY <1>1, <1>9, <1>11, <1>a

\* Being without bad files, a directory is a sequence of sequences of entries.
LEMMA Readable ==
    ASSUME NEW files \in Directories, ~LoadFails(files)
    PROVE  files \in Seq(Seq(Entry)) /\ FlattenSeq(files) \in Seq(Entry)
<1>1. files \in Seq({Unreadable} \cup Seq(Entry))
  BY KnowledgeAssumption
<1>2. \A n \in 1..Len(files): files[n] \in Seq(Entry)
  <2>1. /\ DOMAIN files = 1..Len(files)
        /\ \A n \in DOMAIN files: files[n] \in {Unreadable} \cup Seq(Entry) /\ files[n] \in Range(files)
    BY <1>1, Elements, Zenon
  <2>2. QED
    BY <2>1 DEF LoadFails
<1>3. files \in Seq(Seq(Entry))
  <2>1. Len(files) \in Nat /\ files = [n \in 1..Len(files) |-> files[n]]
    BY <1>1
  <2>2. QED
    BY <1>2, <2>1
<1>4. QED
  BY <1>3, Flattened, Zenon

\* The imports: of each id in the files its first entry.
LEMMA ImportsOf ==
    ASSUME NEW files, FlattenSeq(files) \in Seq(Entry)
    PROVE  /\ LoadImported(files) \in Seq(Entry) /\ OncePerId(LoadImported(files))
           /\ IdsOf(LoadImported(files)) = IdsOf(FlattenSeq(files))
           /\ \A n \in DOMAIN LoadImported(files):
                LoadImported(files)[n] = FirstImport(files, LoadImported(files)[n].id)
<1> DEFINE
      entries == FlattenSeq(files)
      g == LoadImported(files)
<1>1. Gathered(g, entries, Len(entries), {})
  BY FirstOfEachOf DEF LoadImported
<1>2. DOMAIN entries = 1..Len(entries) /\ Len(entries) \in Nat
  BY Elements
<1>3. /\ g \in Seq(Entry) /\ OncePerId(g)
      /\ \A n \in DOMAIN g:
           \E i \in DOMAIN entries: g[n] = entries[i] /\ \A j \in 1..i - 1: entries[j].id # g[n].id
      /\ \A i \in DOMAIN entries: entries[i].id \in IdsOf(g)
  BY <1>1, <1>2 DEF Gathered
<1>f. \A id: FirstImport(files, id) =
        entries[CHOOSE i \in DOMAIN entries:
                  entries[i].id = id /\ \A j \in 1..i - 1: entries[j].id # id]
  BY Zenon DEF FirstImport
<1> HIDE DEF g, entries
<1>4. IdsOf(g) = IdsOf(entries)
  BY <1>3 DEF IdsOf
<1>5. ASSUME NEW n \in DOMAIN g PROVE g[n] = FirstImport(files, g[n].id)
  <2> DEFINE First(i) == entries[i].id = g[n].id /\ \A j \in 1..i - 1: entries[j].id # g[n].id
  <2>1. PICK i \in DOMAIN entries: g[n] = entries[i] /\ \A j \in 1..i - 1: entries[j].id # g[n].id
    BY <1>3
  <2>2. First(i)
    BY <2>1
  <2>3. ASSUME NEW k \in DOMAIN entries, First(k) PROVE k = i
    <3>1. i \in Nat /\ k \in Nat /\ i >= 1 /\ k >= 1
      BY <1>2
    <3>2. k \notin 1..i - 1 /\ i \notin 1..k - 1
      BY <2>2, <2>3
    <3>3. QED
      BY <3>1, <3>2
  <2>4. FirstImport(files, g[n].id) = entries[CHOOSE k \in DOMAIN entries: First(k)]
    BY <1>f
  <2> HIDE DEF First
  <2>5. (CHOOSE k \in DOMAIN entries: First(k)) = i
    BY <2>2, <2>3
  <2>6. QED
    BY <2>1, <2>4, <2>5
<1>6. QED
  BY <1>3, <1>4, <1>5 DEF g, entries

\* The documents built in that no import replaces.
LEMMA BuiltInKept ==
    ASSUME NEW taken
    PROVE  /\ FirstOfEach(BuiltIn, taken) \in Seq(Entry)
           /\ OncePerId(FirstOfEach(BuiltIn, taken))
           /\ IdsOf(FirstOfEach(BuiltIn, taken)) = IdsOf(BuiltIn) \ taken
           /\ \A n \in DOMAIN FirstOfEach(BuiltIn, taken):
                FirstOfEach(BuiltIn, taken)[n] \in ToSet(BuiltIn)
<1> DEFINE g == FirstOfEach(BuiltIn, taken)
<1>1. BuiltIn \in Seq(Entry)
  <2>1. Document \subseteq Entry /\ BuiltIn \in Seq(Document)
    BY KnowledgeAssumption DEF Document
  <2>2. QED
    BY <2>1, Elements
<1>2. Gathered(g, BuiltIn, Len(BuiltIn), taken)
  BY <1>1, FirstOfEachOf
<1>3. DOMAIN BuiltIn = 1..Len(BuiltIn)
  BY <1>1, Elements
<1> HIDE DEF g
<1>4. /\ g \in Seq(Entry) /\ OncePerId(g)
      /\ \A n \in DOMAIN g: g[n].id \notin taken /\ \E i \in DOMAIN BuiltIn: g[n] = BuiltIn[i]
      /\ \A i \in DOMAIN BuiltIn: BuiltIn[i].id \in taken \cup IdsOf(g)
  BY <1>2, <1>3 DEF Gathered
<1>5. IdsOf(g) = IdsOf(BuiltIn) \ taken
  BY <1>4 DEF IdsOf
<1>6. \A n \in DOMAIN g: g[n] \in ToSet(BuiltIn)
  BY <1>4 DEF ToSet
<1>7. QED
  BY <1>4, <1>5, <1>6 DEF g

\* Two sequences without a common id, one after the other.
LEMMA JoinedById ==
    ASSUME NEW s \in Seq(Entry), NEW t \in Seq(Entry),
           OncePerId(s), OncePerId(t), IdsOf(s) \cap IdsOf(t) = {}
    PROVE  /\ s \o t \in Seq(Entry) /\ OncePerId(s \o t)
           /\ IdsOf(s \o t) = IdsOf(s) \cup IdsOf(t)
           /\ \A n \in DOMAIN (s \o t):
                \/ \E i \in DOMAIN s: (s \o t)[n] = s[i]
                \/ \E i \in DOMAIN t: (s \o t)[n] = t[i]
<1> DEFINE u == s \o t
<1>1. /\ u \in Seq(Entry) /\ Len(u) = Len(s) + Len(t)
      /\ \A n \in DOMAIN s: u[n] = s[n]
      /\ \A n \in DOMAIN t: u[Len(s) + n] = t[n]
  BY Joined
<1>2. /\ DOMAIN s = 1..Len(s) /\ DOMAIN t = 1..Len(t) /\ DOMAIN u = 1..Len(u)
      /\ Len(s) \in Nat /\ Len(t) \in Nat
  BY <1>1, Elements
<1> HIDE DEF u
<1>3. /\ \A n \in DOMAIN s: n \in DOMAIN u
      /\ \A n \in DOMAIN t: Len(s) + n \in DOMAIN u
      /\ \A n \in DOMAIN u: n \in DOMAIN s \/ (n - Len(s) \in DOMAIN t /\ Len(s) + (n - Len(s)) = n)
  BY <1>1, <1>2
<1>4. \A n \in DOMAIN u: (n \in DOMAIN s /\ u[n] = s[n]) \/ \E i \in DOMAIN t: n = Len(s) + i /\ u[n] = t[i]
  BY <1>1, <1>3
<1>5. IdsOf(u) = IdsOf(s) \cup IdsOf(t)
  <2>1. \A n \in DOMAIN u: u[n].id \in IdsOf(s) \/ u[n].id \in IdsOf(t)
    BY <1>4 DEF IdsOf
  <2>2. \A n \in DOMAIN s: s[n].id \in IdsOf(u)
    BY <1>1, <1>3 DEF IdsOf
  <2>3. \A n \in DOMAIN t: t[n].id \in IdsOf(u)
    <3>1. \A n \in DOMAIN t: \E i \in DOMAIN u: u[i] = t[n]
      BY <1>1, <1>3
    <3>2. QED
      BY <3>1 DEF IdsOf
  <2>4. IdsOf(u) \subseteq IdsOf(s) \cup IdsOf(t)
    BY <2>1 DEF IdsOf
  <2>5. IdsOf(s) \subseteq IdsOf(u) /\ IdsOf(t) \subseteq IdsOf(u)
    BY <2>2, <2>3 DEF IdsOf
  <2>6. QED
    BY <2>4, <2>5
<1>6. ASSUME NEW m \in DOMAIN u, NEW n \in DOMAIN u, u[m].id = u[n].id PROVE m = n
  <2>1. \A i \in DOMAIN s: \A j \in DOMAIN t: s[i].id # t[j].id
    BY DEF IdsOf
  <2>2. CASE m \in DOMAIN s /\ u[m] = s[m]
    BY <1>4, <1>6, <2>1, <2>2 DEF OncePerId
  <2>3. CASE \E i \in DOMAIN t: m = Len(s) + i /\ u[m] = t[i]
    <3>1. PICK i \in DOMAIN t: m = Len(s) + i /\ u[m] = t[i]
      BY <2>3
    <3>2. CASE n \in DOMAIN s /\ u[n] = s[n]
      BY <1>6, <2>1, <3>1, <3>2
    <3>3. CASE \E j \in DOMAIN t: n = Len(s) + j /\ u[n] = t[j]
      BY <1>6, <3>1, <3>3 DEF OncePerId
    <3>4. QED
      BY <1>4, <3>2, <3>3
  <2>4. QED
    BY <1>4, <2>2, <2>3
<1>7. QED
  BY <1>1, <1>4, <1>5, <1>6 DEF u, OncePerId

\* What load_all returns.
LEMMA Loaded ==
    ASSUME NEW files, FlattenSeq(files) \in Seq(Entry)
    PROVE  /\ LoadAll(files) \in Seq(Entry) /\ OncePerId(LoadAll(files))
           /\ IdsOf(LoadAll(files)) = IdsOf(BuiltIn) \cup IdsOf(FlattenSeq(files))
           /\ \A n \in DOMAIN LoadAll(files):
                IF LoadAll(files)[n].id \in IdsOf(FlattenSeq(files))
                  THEN LoadAll(files)[n] = FirstImport(files, LoadAll(files)[n].id)
                  ELSE LoadAll(files)[n] \in ToSet(BuiltIn)
<1> DEFINE
      t == LoadImported(files)
      s == FirstOfEach(BuiltIn, IdsOf(t))
      ids == IdsOf(FlattenSeq(files))
<1>1. LoadAll(files) = s \o t
  BY Zenon DEF LoadAll
<1>2. /\ t \in Seq(Entry) /\ OncePerId(t) /\ IdsOf(t) = ids
      /\ \A n \in DOMAIN t: t[n] = FirstImport(files, t[n].id)
  BY ImportsOf, Zenon
<1>3. /\ s \in Seq(Entry) /\ OncePerId(s) /\ IdsOf(s) = IdsOf(BuiltIn) \ IdsOf(t)
      /\ \A n \in DOMAIN s: s[n] \in ToSet(BuiltIn)
  BY BuiltInKept, Zenon
<1> HIDE DEF s, t, ids
<1>4. IdsOf(s) \cap IdsOf(t) = {}
  BY <1>3
<1> DEFINE u == s \o t
<1>5. /\ u \in Seq(Entry) /\ OncePerId(u) /\ IdsOf(u) = IdsOf(s) \cup IdsOf(t)
      /\ \A n \in DOMAIN u: (\E i \in DOMAIN s: u[n] = s[i]) \/ (\E i \in DOMAIN t: u[n] = t[i])
  BY <1>2, <1>3, <1>4, JoinedById, Zenon
<1> HIDE DEF u
<1>6. /\ \A i \in DOMAIN s: s[i].id \notin ids
      /\ \A i \in DOMAIN t: t[i].id \in ids
  BY <1>2, <1>3 DEF IdsOf
<1>7. \A n \in DOMAIN u: IF u[n].id \in ids THEN u[n] = FirstImport(files, u[n].id) ELSE u[n] \in ToSet(BuiltIn)
  BY <1>2, <1>3, <1>5, <1>6
<1>8. IdsOf(u) = IdsOf(BuiltIn) \cup ids
  BY <1>2, <1>3, <1>5
<1>9. QED
  BY <1>1, <1>5, <1>7, <1>8 DEF u, ids

\* How many documents are no built-in ones.
LEMMA Counted ==
    ASSUME NEW entries \in Seq(Entry), OncePerId(entries)
    PROVE  /\ ImportedCount(entries) = Cardinality(IdsOf(entries) \ IdsOf(BuiltIn))
           /\ ImportedCount(entries) \in 0..Len(entries)
<1> DEFINE
      I == {i \in DOMAIN entries: entries[i].id \notin IdsOf(BuiltIn)}
      J == IdsOf(entries) \ IdsOf(BuiltIn)
      f == [i \in I |-> entries[i].id]
<1>1. DOMAIN entries = 1..Len(entries) /\ Len(entries) \in Nat
  BY Elements
<1>2. /\ IsFiniteSet(1..Len(entries)) /\ Cardinality(1..Len(entries)) = Len(entries)
  <2>a. PICK size: size = Len(entries)
    OBVIOUS
  <2>1. 1 \in Int /\ size \in Int /\ size \in Nat
    BY <1>1, <2>a
  <2>2. IsFiniteSet(1..size) /\ Cardinality(1..size) = IF 1 > size THEN 0 ELSE size - 1 + 1
    BY <2>1, FS_Interval
  <2>3. (IF 1 > size THEN 0 ELSE size - 1 + 1) = size
    BY <2>1
  <2>4. QED
    BY <2>2, <2>3, <2>a
<1>3. I \in SUBSET (1..Len(entries))
  BY <1>1
<1>4. f \in Bijection(I, J)
  <2>1. f \in [I -> J]
    BY DEF IdsOf
  <2>2. \A a, b \in I: f[a] = f[b] => a = b
    BY DEF OncePerId
  <2>3. \A id \in J: \E i \in I: f[i] = id
    BY DEF IdsOf
  <2>4. QED
    BY <2>1, <2>2, <2>3 DEF Bijection, Injection, Surjection, IsInjective
<1> HIDE DEF I, J, f
<1>5. IsFiniteSet(I) /\ Cardinality(I) <= Len(entries) /\ Cardinality(I) \in Nat
  <2>a. PICK D: D = 1..Len(entries)
    OBVIOUS
  <2>1. IsFiniteSet(D) /\ I \in SUBSET D /\ Cardinality(D) = Len(entries)
    BY <1>2, <1>3, <2>a
  <2>2. IsFiniteSet(I) /\ Cardinality(I) <= Cardinality(D)
    BY <2>1, FS_Subset
  <2>3. Cardinality(I) \in Nat
    BY <2>2, FS_CardinalityType
  <2>4. QED
    BY <2>1, <2>2, <2>3
<1>6. Cardinality(J) = Cardinality(I)
  <2>1. ExistsBijection(I, J)
    BY <1>4 DEF ExistsBijection
  <2>2. QED
    BY <1>5, <2>1, FS_Bijection
<1>7. ImportedCount(entries) = Cardinality(I)
  BY DEF ImportedCount, I
<1>8. Cardinality(I) \in 0..Len(entries)
  BY <1>1, <1>5
<1>9. QED
  BY <1>6, <1>7, <1>8 DEF J

\* The entries that KnowledgeDocument takes: all, or those before the first that it refuses.
LEMMA Taken ==
    ASSUME NEW entries \in Seq(Entry), OncePerId(entries)
    PROVE  /\ ~Refuses(entries) => entries \in Seq(Document)
           /\ Refuses(entries) => Accepted(entries) \in Seq(Document) /\ OncePerId(Accepted(entries))
<1>1. /\ DOMAIN entries = 1..Len(entries) /\ Len(entries) \in Nat
      /\ \A n \in DOMAIN entries: entries[n] \in Entry
  BY Elements
<1>2. ASSUME ~Refuses(entries) PROVE entries \in Seq(Document)
  <2>1. \A n \in 1..Len(entries): entries[n] \in Document
    BY <1>1, <1>2 DEF Refuses, Document
  <2>2. entries = [n \in 1..Len(entries) |-> entries[n]]
    BY <1>1
  <2>3. QED
    BY <1>1, <2>1, <2>2
<1>3. ASSUME Refuses(entries) PROVE Accepted(entries) \in Seq(Document) /\ OncePerId(Accepted(entries))
  <2> DEFINE
        T == {i \in DOMAIN entries: ~entries[i].valid}
        first == FirstRefused(entries)
        s == SubSeq(entries, 1, first - 1)
  <2>1. T \subseteq Nat /\ T # {}
    BY <1>1, <1>3 DEF Refuses
  <2>2. \E n \in T: \A m \in T: n <= m
    BY <2>1, Smallest
  <2>3. first \in T /\ \A m \in T: first <= m
    <3>1. first = CHOOSE n \in T: \A m \in T: n <= m
      BY DEF FirstRefused, Min
    <3> HIDE DEF T, first
    <3>2. QED
      BY <2>2, <3>1
  <2>4. /\ first \in DOMAIN entries
        /\ \A i \in DOMAIN entries: ~entries[i].valid => first <= i
    BY <2>3
  <2>5. Accepted(entries) = s
    BY DEF Accepted
  <2> HIDE DEF T, first
  <2>6. first \in Nat /\ first >= 1 /\ first - 1 \in Int /\ first - 1 <= Len(entries)
    BY <1>1, <2>4
  <2>7. \A i \in 1..first - 1: i \in DOMAIN entries /\ entries[i] \in Document
    <3>1. \A i \in 1..first - 1: i \in DOMAIN entries /\ ~(first <= i)
      BY <1>1, <2>6
    <3>2. \A i \in DOMAIN entries: entries[i].valid \in BOOLEAN
      BY <1>1 DEF Entry
    <3>3. QED
      BY <1>1, <2>4, <3>1, <3>2 DEF Document
  <2>8. /\ s \in Seq(Document) /\ Len(s) = first - 1
        /\ \A i \in 1..first - 1: s[i] = entries[i]
    <3>1. /\ s \in Seq(Document)
          /\ Len(s) = IF 1 <= first - 1 THEN first - 1 - 1 + 1 ELSE 0
          /\ \A i \in 1..first - 1 - 1 + 1: s[i] = entries[1 + i - 1]
      BY <2>6, <2>7, SubSeqProperties
    <3> HIDE DEF s
    <3>2. /\ 1..first - 1 - 1 + 1 = 1..first - 1
          /\ \A i \in 1..first - 1: 1 + i - 1 = i
          /\ Len(s) = first - 1
      BY <2>6, <3>1
    <3>3. QED
      BY <3>1, <3>2
  <2> HIDE DEF s
  <2>9. DOMAIN s = 1..first - 1
    BY <2>8, Elements
  <2>10. OncePerId(s)
    BY <2>7, <2>8, <2>9 DEF OncePerId
  <2>11. QED
    BY <2>5, <2>8, <2>10
<1>4. QED
  BY <1>2, <1>3

-----------------------------------------------------------------------------
(* The invariant *)

\* An index that has been made is that of its directory in every part: the
\* documents, their count, what ranks them and, when it is used, the table that
\* recalls them.
Made ==
    indexed # None =>
        /\ ~LoadFails(indexed) /\ ~Refuses(LoadAll(indexed))
        /\ documents = LoadAll(indexed)
        /\ imported = ImportedCount(documents)
        /\ tfidf = ToSet(documents)
        /\ fts_available => fts = documents

IndexInv == TypeOK /\ Made

\* What the index is made of when nothing fails.
LEMMA MadeOf ==
    ASSUME NEW files \in Directories, ~LoadFails(files)
    PROVE  /\ OncePerId(LoadAll(files)) /\ LoadAll(files) \in Seq(Entry)
           /\ ~Refuses(LoadAll(files)) =>
                /\ LoadAll(files) \in Seq(Document)
                /\ ImportedCount(LoadAll(files)) \in 0..Len(LoadAll(files))
                /\ ToSet(LoadAll(files)) \subseteq Document
           /\ Refuses(LoadAll(files)) =>
                /\ Accepted(LoadAll(files)) \in Seq(Document)
                /\ OncePerId(Accepted(LoadAll(files)))
                /\ ImportedCount(Accepted(LoadAll(files))) \in 0..Len(Accepted(LoadAll(files)))
<1> DEFINE loaded == LoadAll(files)
<1>1. loaded \in Seq(Entry) /\ OncePerId(loaded)
  BY Readable, Loaded, Zenon
<1> HIDE DEF loaded
<1>2. Document \subseteq Entry
  BY DEF Document
<1>3. /\ ~Refuses(loaded) => loaded \in Seq(Document)
      /\ Refuses(loaded) => Accepted(loaded) \in Seq(Document) /\ OncePerId(Accepted(loaded))
  BY <1>1, Taken, Zenon
<1>4. ImportedCount(loaded) \in 0..Len(loaded)
  BY <1>1, Counted, Zenon
<1>5. loaded \in Seq(Document) => ToSet(loaded) \subseteq Document
  BY Elements DEF ToSet
<1>6. ASSUME Refuses(loaded)
      PROVE  ImportedCount(Accepted(loaded)) \in 0..Len(Accepted(loaded))
  <2>1. Accepted(loaded) \in Seq(Entry)
    <3>a. PICK s: s = Accepted(loaded)
      OBVIOUS
    <3>1. s \in Seq(Document)
      BY <1>3, <1>6, <3>a
    <3>2. Len(s) \in Nat /\ s = [n \in 1..Len(s) |-> s[n]] /\ \A n \in 1..Len(s): s[n] \in Document
      BY <3>1
    <3>3. s \in Seq(Entry)
      BY <1>2, <3>2
    <3>4. QED
      BY <3>a, <3>3
  <2>2. QED
    BY <1>3, <1>6, <2>1, Counted, Zenon
<1>7. QED
  BY <1>1, <1>3, <1>4, <1>5, <1>6, Zenon DEF loaded

\* The invariant holds at first.
LEMMA Established == Init => IndexInv
<1> SUFFICES ASSUME Init PROVE IndexInv
  OBVIOUS
<1>1. /\ directory \in Directories /\ ~LoadFails(directory) /\ ~Refuses(LoadAll(directory))
      /\ documents = LoadAll(directory) /\ imported = ImportedCount(documents)
      /\ tfidf = ToSet(documents) /\ indexed = directory
      /\ \/ fts_available = TRUE /\ mode = "FTS5+TFIDF" /\ fts = documents
         \/ fts_available = FALSE /\ mode = "TFIDF_ONLY" /\ fts = None
  BY DEF Init
<1>2. /\ documents \in Seq(Document) /\ OncePerId(documents)
      /\ imported \in 0..Len(documents) /\ tfidf \subseteq Document
  BY <1>1, MadeOf, Zenon
<1>3. TypeOK
  BY <1>1, <1>2 DEF TypeOK, Modes
<1>4. Made
  BY <1>1 DEF Made
<1>5. QED
  BY <1>3, <1>4 DEF IndexInv

\* Reload and Reset, when they succeed.
LEMMA IndexesKeeps ==
    ASSUME NEW table \in Seq(Document) \cup {None}, TypeOK, Indexes(table)
    PROVE  IndexInv'
<1> DEFINE loaded == LoadAll(directory)
<1>1. /\ ~LoadFails(directory) /\ ~Refuses(loaded)
      /\ documents' = loaded /\ imported' = ImportedCount(loaded) /\ tfidf' = ToSet(loaded)
      /\ SyncFts(table, loaded)
      /\ indexed' = directory /\ directory' = directory /\ directory \in Directories
  BY DEF Indexes, Replace, TypeOK
<1>2. /\ loaded \in Seq(Document) /\ OncePerId(loaded)
      /\ ImportedCount(loaded) \in 0..Len(loaded) /\ ToSet(loaded) \subseteq Document
  BY <1>1, MadeOf, Zenon
<1> HIDE DEF loaded
<1>3. \/ fts_available' = TRUE /\ mode' = "FTS5+TFIDF" /\ fts' = loaded
      \/ fts_available' = FALSE /\ mode' = "TFIDF_ONLY" /\ fts' = table
  BY <1>1 DEF SyncFts, Rewritten
<1>4. TypeOK'
  BY <1>1, <1>2, <1>3 DEF TypeOK, Modes
<1>5. Made'
  BY <1>1, <1>3 DEF Made, loaded
<1>6. QED
  BY <1>4, <1>5 DEF IndexInv

\* The invariant is kept.
LEMMA Kept == IndexInv /\ [Next]_vars => IndexInv'
<1> SUFFICES ASSUME IndexInv, [Next]_vars PROVE IndexInv'
  OBVIOUS
<1>1. TypeOK /\ Made /\ fts \in Seq(Document) \cup {None} /\ directory \in Directories
  BY DEF IndexInv, TypeOK
<1>2. CASE Edit
  BY <1>1, <1>2 DEF IndexInv, TypeOK, Made, Edit, service
<1>3. CASE Reload
  BY <1>1, <1>3, IndexesKeeps DEF Reload
<1>4. CASE ReloadUnread
  BY <1>1, <1>4 DEF IndexInv, TypeOK, Made, ReloadUnread, vars, service
<1>5. CASE ReloadRefused
  <2> DEFINE accepted == Accepted(LoadAll(directory))
  <2>1. /\ documents' = accepted /\ imported' = ImportedCount(accepted) /\ indexed' = None
        /\ UNCHANGED <<directory, tfidf, fts_available, mode, fts>>
        /\ ~LoadFails(directory) /\ Refuses(LoadAll(directory))
    BY <1>5 DEF ReloadRefused
  <2>2. accepted \in Seq(Document) /\ OncePerId(accepted) /\ ImportedCount(accepted) \in 0..Len(accepted)
    BY <1>1, <2>1, MadeOf, Zenon
  <2> HIDE DEF accepted
  <2>3. QED
    BY <1>1, <2>1, <2>2 DEF IndexInv, TypeOK, Made
<1>6. CASE ReloadUnsynced
  <2> DEFINE loaded == LoadAll(directory)
  <2>1. /\ documents' = loaded /\ imported' = ImportedCount(loaded) /\ tfidf' = ToSet(loaded)
        /\ fts_available' = TRUE /\ fts' \in {fts, None, <<>>} /\ indexed' = None
        /\ UNCHANGED <<directory, mode>>
        /\ ~LoadFails(directory) /\ ~Refuses(loaded)
    BY <1>6 DEF ReloadUnsynced, Replace, Unsynced
  <2>2. /\ loaded \in Seq(Document) /\ OncePerId(loaded)
        /\ ImportedCount(loaded) \in 0..Len(loaded) /\ ToSet(loaded) \subseteq Document
    BY <1>1, <2>1, MadeOf, Zenon
  <2>3. fts' \in Seq(Document) \cup {None}
    <3>1. <<>> \in Seq(Document)
      OBVIOUS
    <3>2. fts' = fts \/ fts' = None \/ fts' = <<>>
      BY <2>1
    <3>3. QED
      BY <1>1, <3>1, <3>2
  <2> HIDE DEF loaded
  <2>4. TypeOK'
    BY <1>1, <2>1, <2>2, <2>3 DEF TypeOK
  <2>5. Made'
    BY <2>1 DEF Made
  <2>6. QED
    BY <2>4, <2>5 DEF IndexInv
<1>7. CASE Reset
  BY <1>1, <1>7, IndexesKeeps DEF Reset
<1>8. CASE ResetFails
  <2>1. fts' \in {None, <<>>} /\ indexed' = None /\ UNCHANGED <<directory, service>>
    BY <1>8 DEF ResetFails, Unsynced
  <2>2. fts' \in Seq(Document) \cup {None}
    <3>1. <<>> \in Seq(Document)
      OBVIOUS
    <3>2. fts' = None \/ fts' = <<>>
      BY <2>1
    <3>3. QED
      BY <3>1, <3>2
  <2>3. TypeOK'
    BY <1>1, <2>1, <2>2 DEF TypeOK, service
  <2>4. Made'
    BY <2>1 DEF Made
  <2>5. QED
    BY <2>3, <2>4 DEF IndexInv
<1>9. CASE UNCHANGED vars
  BY <1>1, <1>9 DEF IndexInv, TypeOK, Made, vars, service
<1>10. QED
  BY <1>2, <1>3, <1>4, <1>5, <1>6, <1>7, <1>8, <1>9 DEF Next

\* Every reachable state satisfies it.
LEMMA Always == Spec => []IndexInv
<1>1. QED
  BY Established, Kept, PTL DEF Spec

-----------------------------------------------------------------------------
(* The theorems *)

\* Whatever fails on the way (a bad file, a refused entry, a table that cannot be
\* written), the service holds documents that satisfy their schema, one per id.
THEOREM TypeCorrect == Spec => []TypeOK
<1>1. IndexInv => TypeOK
  BY DEF IndexInv
<1>2. QED
  BY <1>1, Always, PTL

\* An index that has been made, by a start, a reload or a reset, has of every id
\* its first import or else the document built in, and counts and ranks just these.
THEOREM IndexIsAsLoaded == Spec => []IndexedAsLoaded
<1>1. IndexInv => IndexedAsLoaded
  <2> SUFFICES ASSUME IndexInv, indexed # None PROVE IndexedAsLoaded
    BY DEF IndexedAsLoaded
  <2> DEFINE ids == IdsOf(FlattenSeq(indexed))
  <2>1. /\ indexed \in Directories /\ ~LoadFails(indexed)
        /\ documents = LoadAll(indexed) /\ imported = ImportedCount(documents)
        /\ tfidf = ToSet(documents)
    BY DEF IndexInv, TypeOK, Made
  <2>2. FlattenSeq(indexed) \in Seq(Entry)
    BY <2>1, Readable
  <2>3. /\ documents \in Seq(Entry) /\ OncePerId(documents)
        /\ IdsOf(documents) = IdsOf(BuiltIn) \cup ids
        /\ \A n \in DOMAIN documents:
             IF documents[n].id \in ids
               THEN documents[n] = FirstImport(indexed, documents[n].id)
               ELSE documents[n] \in ToSet(BuiltIn)
    BY <2>1, <2>2, Loaded, Zenon
  <2>4. imported = Cardinality(IdsOf(documents) \ IdsOf(BuiltIn))
    BY <2>1, <2>3, Counted, Zenon
  <2> HIDE DEF ids
  <2>5. IdsOf(documents) \ IdsOf(BuiltIn) = ids \ IdsOf(BuiltIn)
    BY <2>3
  <2>6. imported = Cardinality(ids \ IdsOf(BuiltIn))
    BY <2>4, <2>5
  <2>7. QED
    BY <2>1, <2>3, <2>6, Zenon DEF IndexedAsLoaded, ids
<1>2. QED
  BY <1>1, Always, PTL

\* While the index is made, a search fails for no query, shows only documents that
\* match, and finds each of those in which the table matches the query, or all of
\* them when it matches none.
THEOREM SearchesDoFind == Spec => []SearchesFind
<1>1. IndexInv => SearchesFind
  <2> SUFFICES ASSUME IndexInv, indexed # None, NEW query \in Queries
               PROVE  /\ ~SearchFails(query)
                      /\ \A hit \in Hits(query):
                           hit.matched # {} /\ hit.matched \subseteq hit.document.text
                      /\ \A d \in ToSet(documents):
                           /\ d.text \cap query.terms # {}
                           /\ \/ d.matches \cap query.quoted # {}
                              \/ ~fts_available
                              \/ \A e \in ToSet(documents): e.matches \cap query.quoted = {}
                           => Found(d, query)
    BY Zenon DEF SearchesFind
  <2>1. /\ documents \in Seq(Document) /\ OncePerId(documents)
        /\ tfidf = ToSet(documents) /\ (fts_available => fts = documents)
    BY DEF IndexInv, TypeOK, Made
  <2>2. \A e \in ToSet(documents): e.id \in IdsOf(documents)
    BY DEF ToSet, IdsOf
  <2>3. ASSUME NEW e \in ToSet(documents) PROVE DocumentOf(e.id) = e
    <3>1. \A d \in ToSet(documents): d.id = e.id => d = e
      BY <2>1 DEF ToSet, OncePerId
    <3>2. QED
      BY <3>1 DEF DocumentOf
  <2>4. \A e \in Ranked(query):
          e \in ToSet(documents) /\ e.text \cap query.terms # {}
    BY <2>1 DEF Ranked
  <2>5. ~SearchFails(query)
    <3>1. ~RecallFails(query)
      BY <2>1, KnowledgeAssumption DEF RecallFails
    <3>2. QED
      BY <2>2, <2>4, <3>1 DEF SearchFails
  <2>6. ASSUME NEW hit \in Hits(query)
        PROVE  hit.matched # {} /\ hit.matched \subseteq hit.document.text
    <3>1. PICK e \in Ranked(query):
            hit = [document |-> DocumentOf(e.id), matched |-> e.text \cap query.terms]
      BY DEF Hits
    <3>2. hit.document = e /\ hit.matched = e.text \cap query.terms
      BY <2>3, <2>4, <3>1
    <3>3. QED
      BY <2>4, <3>2
  <2>7. ASSUME NEW d \in ToSet(documents), d.text \cap query.terms # {},
               \/ d.matches \cap query.quoted # {}
               \/ ~fts_available
               \/ \A e \in ToSet(documents): e.matches \cap query.quoted = {}
        PROVE  Found(d, query)
    <3>1. d.id \in IdsOf(documents)
      BY <2>2
    <3>2. d.id \in Recall(query)
      <4>1. CASE d.matches \cap query.quoted # {}
        <5>1. fts_available => d.id \in FtsMatches(query)
          BY <2>1, <4>1 DEF FtsMatches
        <5>2. QED
          BY <3>1, <5>1 DEF Recall
      <4>2. CASE ~fts_available
        BY <3>1, <4>2 DEF Recall
      <4>3. CASE \A e \in ToSet(documents): e.matches \cap query.quoted = {}
        <5>1. fts_available => FtsMatches(query) = {}
          BY <2>1, <4>3 DEF FtsMatches
        <5>2. QED
          BY <3>1, <5>1 DEF Recall
      <4>4. QED
        BY <2>7, <4>1, <4>2, <4>3
    <3>3. d \in Ranked(query)
      BY <2>1, <2>7, <3>2 DEF Ranked
    <3> DEFINE found == [document |-> DocumentOf(d.id), matched |-> d.text \cap query.terms]
    <3>4. found \in Hits(query)
      BY <3>3 DEF Hits
    <3>5. found.document = d
      BY <2>3
    <3> HIDE DEF found
    <3>6. QED
      BY <3>4, <3>5 DEF Found
  <2>8. QED
    BY <2>5, <2>6, <2>7
<1>2. QED
  BY <1>1, Always, PTL

=============================================================================
