----------------------------- MODULE AuditChain -----------------------------
(***************************************************************************)
(* The audit records of one incident (audit/service.py,                    *)
(* repositories/audit.py, AuditRecordORM of db/models.py): sessions append *)
(* to a chain of hashes over one SQLite database, and somebody may edit    *)
(* the stored rows behind the services.                                    *)
(*                                                                         *)
(* An append reads the chain, computes number and link of the new record,  *)
(* and inserts it.  The reading takes no lock: SQLite opens a transaction  *)
(* with the first row written, and one session at a time can write.  What  *)
(* keeps two appends apart is the uniqueness of (chain_key, sequence_no).  *)
(***************************************************************************)
EXTENDS Naturals, Sequences, FiniteSets

CONSTANTS
    Sessions,
    Events,        \* what a record says besides its number and its link
    MaxSequence,   \* bound: the largest sequence number
    Damage,        \* which edits of stored rows happen
    MaxEdits,      \* bound: how many of them
    None

Edits == {"content", "link", "number", "delete"}

ASSUME ChainAssumption ==
    /\ MaxSequence \in Nat
    /\ Damage \subseteq Edits /\ MaxEdits \in Nat
    /\ None \notin Sessions

VARIABLES
    rows,     \* committed records by sequence number
    writer,   \* the session whose transaction is open, or None
    draft,    \* the records by sequence number as the writer sees them
    ahead,    \* session -> number and link it has computed, or None
    issued,   \* digests of all records that were ever committed
    edits     \* how often the rows have been edited

vars == <<rows, writer, draft, ahead, issued, edits>>

-----------------------------------------------------------------------------
\* SHA-256 over the record without its hash; number and prev_hash are covered.
\* Different records have different digests: a digest is what it covers.
Digest(n, e, prev) == Append(prev, <<n, e>>)

\* prev_hash of a first record.
NoHash == <<>>

Digests == Seq(Nat \X Events)

Record == [event : Events, prev : Digests, hash : Digests]

Numbers == 1..MaxSequence

\* The type invariant.
TypeOK ==
    /\ DOMAIN rows \subseteq Numbers /\ rows \in [DOMAIN rows -> Record]
    /\ writer \in Sessions \cup {None}
    /\ DOMAIN draft \subseteq Numbers /\ draft \in [DOMAIN draft -> Record]
    /\ ahead \in [Sessions -> [number : Numbers, prev : Digests] \cup {None}]
    /\ issued \subseteq Digests
    /\ edits \in Nat

Init ==
    /\ rows = <<>> /\ draft = <<>>
    /\ writer = None
    /\ ahead = [s \in Sessions |-> None]
    /\ issued = {}
    /\ edits = 0

-----------------------------------------------------------------------------
\* A session sees what is committed and what it has written itself.
Visible(s) == IF writer = s THEN draft ELSE rows

Last(chain) == CHOOSE i \in DOMAIN chain : \A j \in DOMAIN chain : j <= i

\* Mutant: the first record gets the number 0.
NextOfFromZero(chain) ==
    [number |-> Cardinality(DOMAIN chain),
     prev   |-> IF DOMAIN chain = {} THEN NoHash ELSE chain[Last(chain)].hash]

\* Mutant: the link is that of the oldest record.
NextOfFirst(chain) ==
    [number |-> Cardinality(DOMAIN chain) + 1,
     prev   |-> IF DOMAIN chain = {} THEN NoHash
                ELSE chain[CHOOSE i \in DOMAIN chain : \A j \in DOMAIN chain : i <= j].hash]

\* The first half of AuditService.append: the number counts the records there
\* are, the link is the hash of the last one.
NextOf(chain) ==
    [number |-> Cardinality(DOMAIN chain) + 1,
     prev   |-> IF DOMAIN chain = {} THEN NoHash ELSE chain[Last(chain)].hash]

ListChain(s) ==
    /\ ahead[s] = None
    /\ Cardinality(DOMAIN Visible(s)) < MaxSequence
    /\ ahead' = [ahead EXCEPT ![s] = NextOf(Visible(s))]
    /\ UNCHANGED <<rows, writer, draft, issued, edits>>

MayWrite(s) == writer \in {None, s}

\* Mutant: the pair of chain and number is not unique, the newer row is read.
IsFreeAnyway(n, chain) == TRUE

\* uq_audit_chain_sequence.
IsFree(n, chain) == n \notin DOMAIN chain

With(chain, n, record) ==
    [i \in DOMAIN chain \cup {n} |-> IF i = n THEN record ELSE chain[i]]

\* The second half: the record is flushed into the session's transaction.
Insert(s, e) ==
    /\ ahead[s] # None /\ MayWrite(s)
    /\ IsFree(ahead[s].number, Visible(s))
    /\ writer' = s
    /\ draft' = With(Visible(s), ahead[s].number,
                     [event |-> e, prev |-> ahead[s].prev,
                      hash  |-> Digest(ahead[s].number, e, ahead[s].prev)])
    /\ ahead' = [ahead EXCEPT ![s] = None]
    /\ UNCHANGED <<rows, issued, edits>>

\* Closing a transaction leaves the sessions with the committed rows.
Release(committed) ==
    /\ writer' = None
    /\ rows' = committed
    /\ draft' = <<>>

\* The number is taken, or the other writer outlasts busy_timeout: the failed
\* flush takes the session's whole transaction with it.
InsertFails(s) ==
    /\ ahead[s] # None
    /\ MayWrite(s) => ~IsFree(ahead[s].number, Visible(s))
    /\ ahead' = [ahead EXCEPT ![s] = None]
    /\ IF writer = s THEN Release(rows) ELSE UNCHANGED <<rows, writer, draft>>
    /\ UNCHANGED <<issued, edits>>

Commit(s) ==
    /\ writer = s /\ ahead[s] = None
    /\ Release(draft)
    /\ issued' = issued \cup {draft[i].hash : i \in DOMAIN draft}
    /\ UNCHANGED <<ahead, edits>>

\* The session is rolled back, or its process dies.
Rollback(s) ==
    /\ writer = s
    /\ Release(rows)
    /\ ahead' = [ahead EXCEPT ![s] = None]
    /\ UNCHANGED <<issued, edits>>

-----------------------------------------------------------------------------
\* Edits of stored rows other than through the services, whose mapper refuses
\* them.  An edit changes one column and leaves record_hash alone.
EditContent(i, e) ==
    /\ "content" \in Damage /\ e # rows[i].event
    /\ rows' = [rows EXCEPT ![i].event = e]

EditLink(i, j) ==
    /\ "link" \in Damage /\ rows[j].hash # rows[i].prev
    /\ rows' = [rows EXCEPT ![i].prev = rows[j].hash]

EditNumber(i, n) ==
    /\ "number" \in Damage /\ n \notin DOMAIN rows
    /\ rows' = [k \in (DOMAIN rows \ {i}) \cup {n} |-> IF k = n THEN rows[i] ELSE rows[k]]

Delete(i) ==
    /\ "delete" \in Damage
    /\ rows' = [k \in DOMAIN rows \ {i} |-> rows[k]]

Edit ==
    /\ writer = None
    /\ \E i \in DOMAIN rows :
           \/ \E e \in Events : EditContent(i, e)
           \/ \E j \in DOMAIN rows : EditLink(i, j)
           \/ \E n \in Numbers : EditNumber(i, n)
           \/ Delete(i)
    /\ edits < MaxEdits /\ edits' = edits + 1
    /\ UNCHANGED <<writer, draft, ahead, issued>>

Next ==
    \/ \E s \in Sessions : ListChain(s) \/ InsertFails(s) \/ Commit(s) \/ Rollback(s)
    \/ \E s \in Sessions, e \in Events : Insert(s, e)
    \/ Edit

Spec == Init /\ [][Next]_vars

-----------------------------------------------------------------------------
Before(chain, i) == IF i = 1 THEN NoHash ELSE chain[i - 1].hash

IsNumbered(chain) == \E n \in 0..MaxSequence : DOMAIN chain = 1..n

\* Mutant: the hashes are recomputed, the links are not compared.
VerifiesHashes(chain) ==
    /\ IsNumbered(chain)
    /\ \A i \in DOMAIN chain : chain[i].hash = Digest(i, chain[i].event, chain[i].prev)

\* AuditService.verify_chain: numbers without a gap, each record linked to the
\* one before it, each hash that of its record.
Verifies(chain) ==
    /\ IsNumbered(chain)
    /\ \A i \in DOMAIN chain :
           /\ chain[i].prev = Before(chain, i)
           /\ chain[i].hash = Digest(i, chain[i].event, chain[i].prev)

\* Sessions that append at the same time neither fork the chain nor leave a
\* gap in it: what is committed verifies, and so does what the writer sees,
\* unless somebody has edited the rows (AuditService.append against the unique
\* constraint; a transaction of several records included).
ChainSound == edits = 0 => Verifies(rows) /\ (writer # None => Verifies(draft))

\* A chain that verifies is made of records exactly as they were once
\* appended: the same content, under the same number, after the same
\* predecessor, whatever edits and appends came in between.  (Records missing
\* at the end of the chain go unnoticed: nothing points at the last one.)
VerifiedIsGenuine ==
    Verifies(rows) =>
        \A i \in DOMAIN rows : Digest(i, rows[i].event, Before(rows, i)) \in issued

\* The committed chain is an append-only log of events.
Trail == INSTANCE AppendOnlyLog WITH
             log <- [i \in DOMAIN rows |-> rows[i].event], trusted <- edits = 0

FollowsTrail == Trail!Spec

=============================================================================
