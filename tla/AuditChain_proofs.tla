-------------------------- MODULE AuditChain_proofs --------------------------
(***************************************************************************)
(* Theorems about AuditChain, for any sessions, any events, any edits and  *)
(* any largest number: type correctness, that concurrent appends keep an   *)
(* unedited chain whole, that a chain which verifies is genuine, and that  *)
(* the chain implements AppendOnlyLog.                                     *)
(***************************************************************************)
EXTENDS AuditChain, FiniteSetTheorems, SequenceTheorems, WellFoundedInduction, TLAPS

\* Last(chain) is the largest number of a chain that has records.
LEMMA LastIsLargest ==
    ASSUME NEW chain, DOMAIN chain \subseteq Numbers, DOMAIN chain # {}
    PROVE  /\ Last(chain) \in DOMAIN chain
           /\ \A j \in DOMAIN chain : j <= Last(chain)
<1> DEFINE
      D == DOMAIN chain
      Distance == {MaxSequence - i : i \in D}
<1>1. MaxSequence \in Nat /\ D \subseteq Nat /\ \A i \in D : i <= MaxSequence
  BY ChainAssumption DEF Numbers
<1>2. Distance \subseteq Nat /\ Distance # {}
  BY <1>1
<1>3. PICK d \in Distance : \A x \in Distance : ~ (<<x, d>> \in OpToRel(<, Nat))
  BY <1>2, WFMin, NatLessThanWellFounded
<1>4. \A x \in Distance : ~ (x < d)
  BY <1>2, <1>3 DEF OpToRel
<1>5. PICK i \in D : d = MaxSequence - i
  OBVIOUS
<1>6. \A j \in D : j <= i
  BY <1>1, <1>4, <1>5
<1>7. QED
  BY <1>6 DEF Last

\* A chain has a next number and link of their types, as long as the numbers
\* do not run out (AuditService.append).
LEMMA NextOfType ==
    ASSUME NEW chain, DOMAIN chain \subseteq Numbers, chain \in [DOMAIN chain -> Record],
           Cardinality(DOMAIN chain) < MaxSequence
    PROVE  NextOf(chain) \in [number : Numbers, prev : Digests]
<1>1. MaxSequence \in Nat
  BY ChainAssumption
<1>2. IsFiniteSet(Numbers)
  <2>1. IsFiniteSet(1..MaxSequence)
    BY <1>1, 1 \in Int, MaxSequence \in Int, FS_Interval
  <2>2. QED
    BY <2>1 DEF Numbers
<1>3. Cardinality(DOMAIN chain) \in Nat
  BY <1>2, FS_Subset, FS_CardinalityType
<1>4. Cardinality(DOMAIN chain) + 1 \in Numbers
  BY <1>1, <1>3 DEF Numbers
<1>5. NoHash \in Digests
  BY EmptySeq DEF NoHash, Digests
<1>6. DOMAIN chain # {} => chain[Last(chain)].hash \in Digests
  BY LastIsLargest DEF Record
<1>7. QED
  BY <1>4, <1>5, <1>6 DEF NextOf

-----------------------------------------------------------------------------
\* A record with one column changed.
LEMMA RecordChanges ==
    ASSUME NEW r \in Record, NEW e \in Events, NEW d \in Digests
    PROVE  /\ [r EXCEPT !.event = e] = [event |-> e, prev |-> r.prev, hash |-> r.hash]
           /\ [r EXCEPT !.prev = d] = [event |-> r.event, prev |-> d, hash |-> r.hash]
BY DEF Record

\* An edit leaves rows of the right type, each with the hash of a row there was.
LEMMA EditKeepsHashes ==
    ASSUME TypeOK, Edit
    PROVE  /\ DOMAIN rows' \subseteq Numbers /\ rows' \in [DOMAIN rows' -> Record]
           /\ \A k \in DOMAIN rows' : \E j \in DOMAIN rows : rows'[k].hash = rows[j].hash
<1> USE DEF TypeOK, Record
<1>1. PICK i \in DOMAIN rows :
          \/ \E e \in Events : EditContent(i, e)
          \/ \E j \in DOMAIN rows : EditLink(i, j)
          \/ \E n \in Numbers : EditNumber(i, n)
          \/ Delete(i)
  BY DEF Edit
<1>2. ASSUME NEW e \in Events, EditContent(i, e)
      PROVE  rows' = [rows EXCEPT ![i] = [event |-> e, prev |-> rows[i].prev,
                                          hash  |-> rows[i].hash]]
  BY <1>2, RecordChanges DEF EditContent
<1>3. ASSUME NEW j \in DOMAIN rows, EditLink(i, j)
      PROVE  rows' = [rows EXCEPT ![i] = [event |-> rows[i].event, prev |-> rows[j].hash,
                                          hash  |-> rows[i].hash]]
  <2>1. rows[i] \in Record /\ rows[i].event \in Events /\ rows[j].hash \in Digests
    OBVIOUS
  <2>2. [rows[i] EXCEPT !.prev = rows[j].hash] =
            [event |-> rows[i].event, prev |-> rows[j].hash, hash |-> rows[i].hash]
    BY <2>1, RecordChanges
  <2>3. rows' = [rows EXCEPT ![i] = [rows[i] EXCEPT !.prev = rows[j].hash]]
    BY <1>3 DEF EditLink
  <2>4. QED
    BY <2>2, <2>3
<1>4. CASE \E e \in Events : EditContent(i, e)
  BY <1>2, <1>4
<1>5. CASE \E j \in DOMAIN rows : EditLink(i, j)
  BY <1>3, <1>5
<1>6. CASE \E n \in Numbers : EditNumber(i, n)
  BY <1>6 DEF EditNumber
<1>7. CASE Delete(i)
  BY <1>7 DEF Delete
<1>8. QED
  BY <1>1, <1>4, <1>5, <1>6, <1>7

\* A step keeps every variable in its type.
LEMMA TypeStep ==
    ASSUME TypeOK, [Next]_vars
    PROVE  TypeOK'
<1> USE ChainAssumption DEF TypeOK
<1>1. ASSUME NEW s \in Sessions, ListChain(s)
      PROVE  TypeOK'
  <2>1. DOMAIN Visible(s) \subseteq Numbers /\ Visible(s) \in [DOMAIN Visible(s) -> Record]
    BY DEF Visible
  <2>2. NextOf(Visible(s)) \in [number : Numbers, prev : Digests]
    BY <1>1, <2>1, NextOfType DEF ListChain
  <2>3. QED
    BY <1>1, <2>2 DEF ListChain
<1>2. ASSUME NEW s \in Sessions, NEW e \in Events, Insert(s, e)
      PROVE  TypeOK'
  <2> DEFINE
        n == ahead[s].number
        record == [event |-> e, prev |-> ahead[s].prev,
                   hash |-> Digest(n, e, ahead[s].prev)]
  <2>1. n \in Numbers /\ ahead[s].prev \in Digests
    BY <1>2 DEF Insert
  <2>2. Digest(n, e, ahead[s].prev) \in Digests
    <3>1. <<n, e>> \in Nat \X Events
      BY <2>1 DEF Numbers
    <3>2. QED
      BY <2>1, <3>1, AppendProperties DEF Digest, Digests
  <2>3. record \in Record
    BY <2>1, <2>2 DEF Record
  <2>4. DOMAIN Visible(s) \subseteq Numbers /\ Visible(s) \in [DOMAIN Visible(s) -> Record]
    BY DEF Visible
  <2>5. /\ DOMAIN With(Visible(s), n, record) \subseteq Numbers
        /\ With(Visible(s), n, record) \in [DOMAIN With(Visible(s), n, record) -> Record]
    BY <2>1, <2>3, <2>4 DEF With
  <2>6. draft' = With(Visible(s), n, record)
    BY <1>2 DEF Insert
  <2>7. QED
    BY <1>2, <2>5, <2>6 DEF Insert
<1>3. ASSUME NEW s \in Sessions, InsertFails(s)
      PROVE  TypeOK'
  <2>1. ahead' \in [Sessions -> [number : Numbers, prev : Digests] \cup {None}]
    BY <1>3 DEF InsertFails
  <2>2. CASE writer = s
    BY <1>3, <2>1, <2>2 DEF InsertFails, Release
  <2>3. CASE writer # s
    BY <1>3, <2>1, <2>3 DEF InsertFails
  <2>4. QED
    BY <2>2, <2>3
<1>4. ASSUME NEW s \in Sessions, Commit(s)
      PROVE  TypeOK'
  BY <1>4 DEF Commit, Release, Record
<1>5. ASSUME NEW s \in Sessions, Rollback(s)
      PROVE  TypeOK'
  BY <1>5 DEF Rollback, Release
<1>6. CASE Edit
  BY <1>6, EditKeepsHashes DEF Edit
<1>7. CASE UNCHANGED vars
  BY <1>7 DEF vars
<1>8. QED
  BY <1>1, <1>2, <1>3, <1>4, <1>5, <1>6, <1>7 DEF Next

\* Type correctness of the chain, the sessions and the issued digests.
THEOREM TypeCorrect == Spec => []TypeOK
<1>1. Init => TypeOK
  BY DEF Init, TypeOK
<1>2. QED
  BY <1>1, TypeStep, PTL DEF Spec

-----------------------------------------------------------------------------
\* Every stored hash was issued by an append: edits leave hashes alone.
HashesIssued == \A i \in DOMAIN rows : rows[i].hash \in issued

\* A step stores no hash that no append has issued.
LEMMA HashesStep ==
    ASSUME TypeOK, HashesIssued, [Next]_vars
    PROVE  HashesIssued'
<1> USE DEF HashesIssued
<1>1. ASSUME NEW s \in Sessions, InsertFails(s) \/ Rollback(s)
      PROVE  HashesIssued'
  BY <1>1 DEF InsertFails, Rollback, Release
<1>2. ASSUME NEW s \in Sessions, Commit(s)
      PROVE  HashesIssued'
  BY <1>2 DEF Commit, Release
<1>3. CASE Edit
  BY <1>3, EditKeepsHashes DEF Edit
<1>4. QED
  BY <1>1, <1>2, <1>3 DEF Next, vars, ListChain, Insert

\* A chain that verifies is made of records as they were appended.
THEOREM VerifiedChainIsGenuine == Spec => []VerifiedIsGenuine
<1>1. Init => HashesIssued
  BY DEF Init, HashesIssued
<1>2. HashesIssued => VerifiedIsGenuine
  BY DEF HashesIssued, VerifiedIsGenuine, Verifies
<1>3. QED
  BY <1>1, <1>2, HashesStep, TypeCorrect, PTL DEF Spec

-----------------------------------------------------------------------------
\* A number and link that a session has computed from a chain either are
\* taken by now or continue the chain as it is.
Fits(chain, next) ==
    next.number \notin DOMAIN chain =>
        /\ DOMAIN chain = 1..(next.number - 1)
        /\ next.prev = Before(chain, next.number)

\* A transaction adds to the committed records and changes none of them.
Extends(longer, chain) ==
    /\ DOMAIN chain \subseteq DOMAIN longer /\ DOMAIN chain # DOMAIN longer
    /\ \A i \in DOMAIN chain : longer[i] = chain[i]

\* The invariant of chains that nobody has edited.
SoundInv ==
    edits = 0 =>
        /\ Verifies(rows)
        /\ writer # None => Verifies(draft) /\ Extends(draft, rows)
        /\ \A s \in Sessions : ahead[s] # None => Fits(Visible(s), ahead[s])

\* What a session computes from a chain without gaps fits it.
LEMMA NextOfFits ==
    ASSUME NEW chain, DOMAIN chain \subseteq Numbers, Verifies(chain)
    PROVE  Fits(chain, NextOf(chain))
<1>1. PICK n \in 0..MaxSequence : DOMAIN chain = 1..n
  BY DEF Verifies, IsNumbered
<1>2. n \in Nat /\ Cardinality(DOMAIN chain) = n
  BY <1>1, ChainAssumption, 1 \in Int, FS_Interval
<1>3. CASE n = 0
  BY <1>1, <1>2, <1>3 DEF Fits, NextOf, Before
<1>4. CASE n # 0
  <2>1. Last(chain) \in 1..n /\ n <= Last(chain)
    BY <1>1, <1>2, <1>4, LastIsLargest
  <2>2. Last(chain) = n
    BY <1>2, <2>1
  <2>3. NextOf(chain) = [number |-> n + 1, prev |-> chain[n].hash]
    BY <1>1, <1>2, <1>4, <2>2 DEF NextOf
  <2>4. QED
    BY <1>1, <1>2, <1>4, <2>3 DEF Fits, Before
<1>5. QED
  BY <1>3, <1>4

\* A record that continues a sound chain makes a longer one
\* (AuditService.append under the unique constraint).
LEMMA WithVerifies ==
    ASSUME NEW chain, Verifies(chain), NEW e,
           NEW next \in [number : Numbers, prev : Digests],
           Fits(chain, next), IsFree(next.number, chain)
    PROVE  LET longer == With(chain, next.number,
                              [event |-> e, prev |-> next.prev,
                               hash  |-> Digest(next.number, e, next.prev)])
           IN  Verifies(longer) /\ Extends(longer, chain)
<1> DEFINE
      n == next.number
      record == [event |-> e, prev |-> next.prev, hash |-> Digest(n, e, next.prev)]
      longer == With(chain, n, record)
<1>1. n \in 1..MaxSequence /\ n \in Nat /\ MaxSequence \in Nat
  BY ChainAssumption DEF Numbers
<1>2. n \notin DOMAIN chain /\ DOMAIN chain = 1..(n - 1) /\ next.prev = Before(chain, n)
  BY DEF Fits, IsFree
<1>3. /\ DOMAIN longer = 1..n
      /\ longer[n] = record
      /\ \A i \in 1..(n - 1) : longer[i] = chain[i]
  BY <1>1, <1>2 DEF With
<1>4. IsNumbered(longer)
  BY <1>1, <1>3 DEF IsNumbered
<1>5. \A i \in 1..n : Before(longer, i) = Before(chain, i)
  BY <1>1, <1>3 DEF Before
<1>6. \A i \in DOMAIN longer : /\ longer[i].prev = Before(longer, i)
                              /\ longer[i].hash = Digest(i, longer[i].event, longer[i].prev)
  <2>1. \A i \in 1..(n - 1) : /\ longer[i].prev = Before(longer, i)
                             /\ longer[i].hash = Digest(i, longer[i].event, longer[i].prev)
    BY <1>1, <1>2, <1>3, <1>5 DEF Verifies
  <2>2. longer[n].prev = Before(longer, n)
    BY <1>1, <1>2, <1>3, <1>5
  <2>3. longer[n].hash = Digest(n, longer[n].event, longer[n].prev)
    BY <1>3
  <2>4. QED
    BY <1>1, <1>3, <2>1, <2>2, <2>3
<1>7. Extends(longer, chain)
  BY <1>1, <1>2, <1>3 DEF Extends
<1>8. QED
  BY <1>4, <1>6, <1>7 DEF Verifies

\* What fits a chain fits what the chain grows to.
LEMMA FitsLonger ==
    ASSUME NEW chain, NEW longer, NEW next \in [number : Numbers, prev : Digests],
           Fits(chain, next), Verifies(longer), Extends(longer, chain)
    PROVE  Fits(longer, next)
<1> DEFINE n == next.number
<1>1. PICK m \in 0..MaxSequence : DOMAIN longer = 1..m
  BY DEF Verifies, IsNumbered
<1>2. n \in Nat \ {0} /\ m \in Nat
  BY <1>1, ChainAssumption DEF Numbers
<1>3. CASE n \in DOMAIN chain
  BY <1>3 DEF Extends, Fits
<1>4. CASE n \notin DOMAIN chain
  <2>1. DOMAIN chain = 1..(n - 1) /\ 1..(n - 1) \subseteq 1..m /\ 1..(n - 1) # 1..m
    BY <1>1, <1>4 DEF Fits, Extends
  <2>2. PICK k \in 1..m : k \notin 1..(n - 1)
    BY <2>1
  <2>3. n \in 1..m
    BY <1>2, <2>2
  <2>4. QED
    BY <1>1, <2>3 DEF Fits
<1>5. QED
  BY <1>3, <1>4

\* A step keeps the invariant of unedited chains.
LEMMA SoundStep ==
    ASSUME TypeOK, SoundInv, [Next]_vars
    PROVE  SoundInv'
<1> SUFFICES ASSUME edits' = 0
             PROVE  /\ Verifies(rows')
                    /\ writer' # None => Verifies(draft') /\ Extends(draft', rows')
                    /\ \A t \in Sessions : ahead'[t] # None => Fits(Visible(t)', ahead'[t])
  BY DEF SoundInv
<1> USE ChainAssumption
<1>1. edits = 0 /\ ~Edit
  <2>1. ~Edit
    BY DEF TypeOK, Edit
  <2>2. edits' = edits
    BY <2>1 DEF Next, vars, ListChain, InsertFails, Commit, Rollback, Insert
  <2>3. QED
    BY <2>1, <2>2
<1>2. /\ Verifies(rows)
      /\ writer # None => Verifies(draft) /\ Extends(draft, rows)
      /\ \A t \in Sessions : ahead[t] # None => Fits(Visible(t), ahead[t])
  BY <1>1 DEF SoundInv
<1>3. \A t \in Sessions : ahead[t] # None => ahead[t] \in [number : Numbers, prev : Digests]
  BY DEF TypeOK
<1>4. \A t \in Sessions : DOMAIN Visible(t) \subseteq Numbers /\ Verifies(Visible(t))
  BY <1>2 DEF TypeOK, Visible
<1>5. ASSUME NEW s \in Sessions, ListChain(s)
      PROVE  /\ Verifies(rows')
             /\ writer' # None => Verifies(draft') /\ Extends(draft', rows')
             /\ \A t \in Sessions : ahead'[t] # None => Fits(Visible(t)', ahead'[t])
  <2>1. Fits(Visible(s), NextOf(Visible(s)))
    BY <1>4, NextOfFits
  <2>2. \A t \in Sessions : Visible(t)' = Visible(t)
    BY <1>5 DEF ListChain, Visible
  <2>3. \A t \in Sessions : ahead'[t] = IF t = s THEN NextOf(Visible(s)) ELSE ahead[t]
    BY <1>5 DEF ListChain, TypeOK
  <2>4. QED
    BY <1>2, <1>5, <2>1, <2>2, <2>3 DEF ListChain
<1>6. ASSUME NEW s \in Sessions, NEW e \in Events, Insert(s, e)
      PROVE  /\ Verifies(rows')
             /\ writer' # None => Verifies(draft') /\ Extends(draft', rows')
             /\ \A t \in Sessions : ahead'[t] # None => Fits(Visible(t)', ahead'[t])
  <2>1. Verifies(draft') /\ Extends(draft', Visible(s))
    BY <1>2, <1>3, <1>4, <1>6, WithVerifies DEF Insert
  <2>2. Extends(draft', rows)
    BY <1>2, <2>1 DEF Visible, Extends
  <2>3. \A t \in Sessions \ {s} : Visible(t) = rows /\ Visible(t)' = rows
    BY <1>6 DEF Insert, MayWrite, Visible
  <2>4. \A t \in Sessions : ahead'[t] = IF t = s THEN None ELSE ahead[t]
    BY <1>6 DEF Insert, TypeOK
  <2>5. QED
    BY <1>2, <1>6, <2>1, <2>2, <2>3, <2>4 DEF Insert
<1>7. ASSUME NEW s \in Sessions, InsertFails(s) \/ Rollback(s)
      PROVE  /\ Verifies(rows')
             /\ writer' # None => Verifies(draft') /\ Extends(draft', rows')
             /\ \A t \in Sessions : ahead'[t] # None => Fits(Visible(t)', ahead'[t])
  <2>1. \/ writer = s /\ writer' = None /\ rows' = rows
        \/ UNCHANGED <<rows, writer, draft>>
    BY <1>7 DEF InsertFails, Rollback, Release
  <2>2. \A t \in Sessions \ {s} : Visible(t)' = Visible(t)
    BY <2>1 DEF Visible
  <2>3. \A t \in Sessions : ahead'[t] = IF t = s THEN None ELSE ahead[t]
    BY <1>7 DEF InsertFails, Rollback, TypeOK
  <2>4. QED
    BY <1>2, <2>1, <2>2, <2>3
<1>8. ASSUME NEW s \in Sessions, Commit(s)
      PROVE  /\ Verifies(rows')
             /\ writer' # None => Verifies(draft') /\ Extends(draft', rows')
             /\ \A t \in Sessions : ahead'[t] # None => Fits(Visible(t)', ahead'[t])
  <2>1. writer = s /\ ahead[s] = None /\ writer' = None /\ rows' = draft /\ ahead' = ahead
    BY <1>8 DEF Commit, Release
  <2>2. Verifies(draft) /\ Extends(draft, rows)
    BY <1>2, <2>1
  <2>3. \A t \in Sessions \ {s} : Visible(t) = rows /\ Visible(t)' = draft
    BY <2>1 DEF Visible
  <2>4. \A t \in Sessions : ahead[t] # None => Fits(draft, ahead[t])
    BY <1>2, <1>3, <2>1, <2>2, <2>3, FitsLonger
  <2>5. QED
    BY <2>1, <2>2, <2>3, <2>4
<1>9. CASE UNCHANGED vars
  <2>1. \A t \in Sessions : Visible(t)' = Visible(t)
    BY <1>9 DEF vars, Visible
  <2>2. QED
    BY <1>2, <1>9, <2>1 DEF vars
<1>10. QED
  BY <1>1, <1>5, <1>6, <1>7, <1>8, <1>9 DEF Next

\* The invariant holds initially and in every reachable state.
THEOREM SoundAlways == Spec => []SoundInv
<1>1. Init => SoundInv
  <2>1. DOMAIN <<>> = {} /\ 1..0 = {} /\ 0 \in 0..MaxSequence
    BY ChainAssumption
  <2>2. QED
    BY <2>1 DEF Init, SoundInv, Verifies, IsNumbered
<1>2. QED
  BY <1>1, SoundStep, TypeCorrect, PTL DEF Spec

\* However many sessions append at the same time, an unedited chain has no gap
\* and no fork.
THEOREM ChainStaysSound == Spec => []ChainSound
<1>1. SoundInv => ChainSound
  BY DEF SoundInv, ChainSound
<1>2. QED
  BY <1>1, SoundAlways, PTL

-----------------------------------------------------------------------------
\* A commit makes the trail longer, an edit ends the trust in it, and nothing
\* else touches it.
LEMMA TrailStep ==
    ASSUME TypeOK, SoundInv, [Next]_vars
    PROVE  [Trail!Next]_<<[i \in DOMAIN rows |-> rows[i].event], edits = 0>>
<1> DEFINE log == [i \in DOMAIN rows |-> rows[i].event]
<1>1. ASSUME NEW s \in Sessions, Commit(s), edits = 0
      PROVE  Trail!Grow
  <2>1. /\ rows' = draft /\ edits' = edits
        /\ Verifies(rows) /\ Verifies(draft) /\ Extends(draft, rows)
    BY <1>1, ChainAssumption DEF Commit, Release, SoundInv
  <2>2. PICK n \in 0..MaxSequence : DOMAIN rows = 1..n
    BY <2>1 DEF Verifies, IsNumbered
  <2>3. PICK m \in 0..MaxSequence : DOMAIN draft = 1..m
    BY <2>1 DEF Verifies, IsNumbered
  <2>4. n \in Nat /\ m \in Nat
    BY ChainAssumption
  <2>5. n < m
    <3>1. PICK k \in 1..m : k \notin 1..n
      BY <2>1, <2>2, <2>3 DEF Extends
    <3>2. QED
      BY <2>4, <3>1
  <2>6. log \in Seq(Events) /\ Len(log) = n /\ \A i \in 1..n : log[i] = rows[i].event
    BY <2>2, <2>4 DEF TypeOK, Record
  <2>7. log' \in Seq(Events) /\ Len(log') = m /\ \A i \in 1..m : log'[i] = draft[i].event
    BY <2>1, <2>3, <2>4 DEF TypeOK, Record
  <2>8. SubSeq(log', 1, n) \in Seq(Events) /\ Len(SubSeq(log', 1, n)) = n
        /\ \A i \in 1..n : SubSeq(log', 1, n)[i] = draft[i].event
    BY <2>4, <2>5, <2>7
  <2>9. \A i \in 1..n : draft[i].event = rows[i].event
    BY <2>1, <2>2 DEF Extends
  <2>10. SubSeq(log', 1, Len(log)) = log
    BY <2>6, <2>8, <2>9, SeqEqual
  <2>11. QED
    BY <1>1, <2>1, <2>5, <2>6, <2>7, <2>10 DEF Trail!Grow
<1>2. ASSUME NEW s \in Sessions, Commit(s), edits # 0
      PROVE  Trail!Distrust
  BY <1>2 DEF Commit, Trail!Distrust
<1>3. CASE Edit
  BY <1>3 DEF Edit, TypeOK, Trail!Distrust, Trail!Next
<1>4. ASSUME UNCHANGED <<rows, edits>>
      PROVE  UNCHANGED <<log, edits = 0>>
  BY <1>4
<1>5. ASSUME NEW s \in Sessions,
             ListChain(s) \/ InsertFails(s) \/ Rollback(s) \/ \E e \in Events : Insert(s, e)
      PROVE  UNCHANGED <<rows, edits>>
  BY <1>5 DEF ListChain, InsertFails, Rollback, Insert, Release
<1>6. QED
  BY <1>1, <1>2, <1>3, <1>4, <1>5 DEF Next, vars, Trail!Next

\* The chain implements an append-only log.
THEOREM ChainImplementsLog == Spec => FollowsTrail
<1>1. Init => Trail!Init
  <2>1. ASSUME Init
        PROVE  [i \in DOMAIN rows |-> rows[i].event] = <<>>
    BY <2>1 DEF Init
  <2>2. QED
    BY <2>1 DEF Init, Trail!Init
<1>2. QED
  BY <1>1, TrailStep, TypeCorrect, SoundAlways, PTL DEF Spec, FollowsTrail, Trail!Spec
=============================================================================
