--------------------------- MODULE KnowledgeIndex ---------------------------
(***************************************************************************)
(* The security knowledge index (knowledge/service.py): documents built in *)
(* and imported from a directory (loader.py), kept in memory, ranked by    *)
(* TF-IDF (ranking.py) among the candidates that an FTS5 table in          *)
(* business.db recalls.  The directory is edited, the index is reloaded,   *)
(* and a reset replaces business.db and the service; each of these may     *)
(* fail half way.                                                          *)
(*                                                                         *)
(* A document is an id, the terms of its text and what the table matches   *)
(* of it.  Scores, snippets and the limit of a search are left out.        *)
(***************************************************************************)
EXTENDS Integers, SequencesExt

CONSTANTS
    None,
    Unreadable,   \* a file that cannot be read, parsed or has an entry without content
    Ids,          \* document ids
    Terms,        \* what tokenize makes of a text, and what an expression quotes
    Queries,      \* what is searched for, see QueryType
    BuiltIn,      \* BUILTIN_DOCUMENTS: a sequence of entries, one per id
    Directories   \* states of data/knowledge/: its .md and .json files in name
                  \* order, each a sequence of entries or Unreadable

\* text: the terms of tokenize, which drops stopwords, keeps ci-runner whole and
\* takes of a CJK run every pair.  matches: the terms whose quotation FTS5 matches
\* in the text as unicode61 reads it, which splits ci-runner, so that "ci-runner"
\* is in "ci runner" too, keeps stopwords, and takes a CJK run whole, with the
\* words next to it.  Neither set bounds the other.  valid: the entry satisfies
\* KnowledgeDocument (no plaintext secret, no empty title).
Entry == [id: Ids, text: SUBSET Terms, matches: SUBSET Terms, valid: BOOLEAN]
Document == {e \in Entry: e.valid}

\* terms: tokenize of the query.  quoted: the terms of fts_match_expression, with
\* the stopwords, every other pair of a CJK run, and of full-width letters, which
\* tokenize normalizes, nothing.
QueryType == [terms: SUBSET Terms, quoted: SUBSET Terms]

IdsOf(entries) == {entries[i].id: i \in DOMAIN entries}
OncePerId(entries) == \A i, j \in DOMAIN entries: entries[i].id = entries[j].id => i = j

ASSUME KnowledgeAssumption ==
    /\ BuiltIn \in Seq(Document) /\ OncePerId(BuiltIn)
    /\ Queries \subseteq QueryType
    /\ \A directory \in Directories: directory \in Seq({Unreadable} \cup Seq(Entry))
    /\ Unreadable \notin Seq(Entry)
    /\ None \notin Directories /\ None \notin Seq(Document)

VARIABLES
    directory,     \* the files of data/knowledge/
    documents,     \* KnowledgeService._documents, in insertion order
    imported,      \* _imported_count
    tfidf,         \* _tfidf: the documents it was built from
    fts_available, \* _fts_available
    mode,          \* _mode
    fts,           \* the table knowledge_fts in business.db, or None
    indexed        \* history: the directory that the index is made from, or None
                   \* when the last indexing failed

service == <<documents, imported, tfidf, fts_available, mode>>
vars == <<directory, service, fts, indexed>>

-----------------------------------------------------------------------------
(* loader.py *)

Keep(kept, e, taken) == IF e.id \in taken \cup IdsOf(kept) THEN kept ELSE Append(kept, e)

\* The first entry of each id that is not taken, in their order.
FirstOfEach(entries, taken) ==
    LET kept[n \in 0..Len(entries)] ==
          IF n = 0 THEN <<>> ELSE Keep(kept[n - 1], entries[n], taken)
    IN  kept[Len(entries)]

\* One bad file fails the import.
LoadFails(files) == Unreadable \in Range(files)

\* Mutant of LoadImported: the last entry of an id counts.
LoadImportedLast(files) ==
    FoldLeft(LAMBDA kept, e: Append(SelectSeq(kept, LAMBDA k: k.id # e.id), e), <<>>,
             FlattenSeq(files))

LoadImported(files) == FirstOfEach(FlattenSeq(files), {})

\* Mutant of LoadAll: nothing is replaced.
LoadAllAppending(files) == BuiltIn \o LoadImported(files)

\* load_all: an import goes before the built-in document with its id.  (The
\* built-in ones have one id each, so that only these are dropped.)
LoadAll(files) ==
    LET imports == LoadImported(files) IN
    FirstOfEach(BuiltIn, IdsOf(imports)) \o imports

-----------------------------------------------------------------------------
(* ensure_indexed, and the reload and the reset that call it *)

ImportedCount(entries) == Cardinality({i \in DOMAIN entries: entries[i].id \notin IdsOf(BuiltIn)})

\* KnowledgeDocument refuses an entry: those before it have been put in place.
Refuses(entries) == \E i \in DOMAIN entries: ~entries[i].valid
FirstRefused(entries) == Min({i \in DOMAIN entries: ~entries[i].valid})
Accepted(entries) == SubSeq(entries, 1, FirstRefused(entries) - 1)

\* Mutant of Rewritten: the old rows stay.
RewrittenKeeping(table, entries) == IF table = None THEN entries ELSE table \o entries

\* The old table is dropped before the new one is filled.
Rewritten(table, entries) == entries

\* _sync_fts over the table that business.db holds.  Without FTS5, or when the
\* probe finds the database locked, an old table stays.
SyncFts(table, entries) ==
    \/ /\ fts_available' = TRUE /\ mode' = "FTS5+TFIDF"
       /\ fts' = Rewritten(table, entries)
    \/ /\ fts_available' = FALSE /\ mode' = "TFIDF_ONLY"
       /\ fts' = table

\* An error in DROP TABLE leaves the old table, one after it no table, and one
\* after CREATE TABLE an empty one.
Unsynced(table) == {table, None, <<>>}

Replace(entries) ==
    /\ documents' = entries
    /\ imported' = ImportedCount(entries)
    /\ tfidf' = ToSet(entries)

\* ensure_indexed succeeds, over the table that business.db holds.
Indexes(table) ==
    /\ ~LoadFails(directory)
    /\ ~Refuses(LoadAll(directory))
    /\ Replace(LoadAll(directory))
    /\ SyncFts(table, LoadAll(directory))
    /\ indexed' = directory
    /\ UNCHANGED directory

Reload == Indexes(fts)

\* A bad file: nothing has been changed yet.
ReloadUnread ==
    /\ LoadFails(directory)
    /\ UNCHANGED vars

\* A bad entry: the documents before it are new, what ranks and recalls is old.
ReloadRefused ==
    /\ ~LoadFails(directory)
    /\ LET loaded == LoadAll(directory) IN
       /\ Refuses(loaded)
       /\ documents' = Accepted(loaded)
       /\ imported' = ImportedCount(Accepted(loaded))
    /\ indexed' = None
    /\ UNCHANGED <<directory, tfidf, fts_available, mode, fts>>

\* The table cannot be written.
ReloadUnsynced ==
    /\ ~LoadFails(directory) /\ ~Refuses(LoadAll(directory))
    /\ Replace(LoadAll(directory))
    /\ fts_available' = TRUE /\ fts' \in Unsynced(fts)
    /\ indexed' = None
    /\ UNCHANGED <<directory, mode>>

\* reset() makes a new business.db and a new service; when that raises the old
\* service stays, over a business.db without its table.
Reset == Indexes(None)

ResetFails ==
    /\ fts' \in IF LoadFails(directory) \/ Refuses(LoadAll(directory)) THEN {None} ELSE Unsynced(None)
    /\ indexed' = None
    /\ UNCHANGED <<directory, service>>

Edit ==
    /\ directory' \in Directories
    /\ UNCHANGED <<service, fts, indexed>>

\* The process is up once a service has been constructed.
Init ==
    /\ directory \in {d \in Directories: ~LoadFails(d) /\ ~Refuses(LoadAll(d))}
    /\ documents = LoadAll(directory)
    /\ imported = ImportedCount(documents)
    /\ tfidf = ToSet(documents)
    /\ indexed = directory
    /\ \/ fts_available = TRUE /\ mode = "FTS5+TFIDF" /\ fts = documents
       \/ fts_available = FALSE /\ mode = "TFIDF_ONLY" /\ fts = None

Next == Edit \/ Reload \/ ReloadUnread \/ ReloadRefused \/ ReloadUnsynced \/ Reset \/ ResetFails

Spec == Init /\ [][Next]_vars

-----------------------------------------------------------------------------
(* search *)

\* The rows in which one of the quoted terms is found.
FtsMatches(query) == {e.id: e \in {d \in ToSet(fts): d.matches \cap query.quoted # {}}}

\* "no such table: knowledge_fts"
RecallFails(query) == fts_available /\ fts = None /\ query.quoted # {}

\* An expression without terms, and one without matches, recall everything.
Recall(query) ==
    IF fts_available /\ query.quoted # {} /\ FtsMatches(query) # {}
      THEN FtsMatches(query) ELSE IdsOf(documents)

\* score_tfidf: the entries with a term of the query, among the candidates.
Ranked(query) == {e \in tfidf: e.id \in Recall(query) /\ e.text \cap query.terms # {}}

\* self._documents[hit.doc_id], which raises when that id is not in memory.
DocumentOf(id) == CHOOSE d \in ToSet(documents): d.id = id
SearchFails(query) ==
    RecallFails(query) \/ \E e \in Ranked(query): e.id \notin IdsOf(documents)

Hits(query) ==
    {[document |-> DocumentOf(e.id), matched |-> e.text \cap query.terms]:
        e \in Ranked(query)}

-----------------------------------------------------------------------------
(* What the index promises *)

Modes == {"FTS5+TFIDF", "TFIDF_ONLY"}

\* Type invariant: no two documents have one id, whatever failed on the way.
TypeOK ==
    /\ directory \in Directories
    /\ documents \in Seq(Document) /\ OncePerId(documents)
    /\ imported \in 0..Len(documents)
    /\ tfidf \subseteq Document
    /\ fts_available \in BOOLEAN /\ mode \in Modes
    /\ fts \in Seq(Document) \cup {None}
    /\ indexed \in Directories \cup {None}

\* The import of an id that counts: its first entry in the order of the files.
FirstImport(files, id) ==
    LET entries == FlattenSeq(files) IN
    entries[CHOOSE i \in DOMAIN entries: entries[i].id = id /\ \A j \in 1..i-1: entries[j].id # id]

\* However the index came about (a reload, a reset, after failures), once it has
\* been made it is that of the directory read: every id is there once, an import
\* goes before the document built in, and the first import before the others.
IndexedAsLoaded ==
    indexed # None =>
        LET importedIds == IdsOf(FlattenSeq(indexed)) IN
        /\ IdsOf(documents) = IdsOf(BuiltIn) \cup importedIds
        /\ \A i \in DOMAIN documents:
             IF documents[i].id \in importedIds
               THEN documents[i] = FirstImport(indexed, documents[i].id)
               ELSE documents[i] \in ToSet(BuiltIn)
        /\ imported = Cardinality(importedIds \ IdsOf(BuiltIn))
        /\ tfidf = ToSet(documents)

Found(d, query) == \E hit \in Hits(query): hit.document = d

\* Once the index has been made, a search does not fail, and what it shows matches
\* the text it shows.  A document with a term of the query is found when the table
\* matches a quoted term in it, and any such document when the table is not used or
\* matches none in any text the index holds now: what a text was before, or a document
\* that is gone, hides none.
SearchesFind ==
    indexed # None =>
        \A query \in Queries:
            /\ ~SearchFails(query)
            /\ \A hit \in Hits(query): hit.matched # {} /\ hit.matched \subseteq hit.document.text
            /\ \A d \in ToSet(documents):
                 /\ d.text \cap query.terms # {}
                 /\ \/ d.matches \cap query.quoted # {}
                    \/ ~fts_available
                    \/ \A e \in ToSet(documents): e.matches \cap query.quoted = {}
                 => Found(d, query)

\* What tokenize.py:3 says, that FTS5 and the ranker operate in the same term space:
\* a document with a term of the query is found, whatever else matches.
SameTermSpace ==
    indexed # None =>
        \A query \in Queries: \A d \in ToSet(documents):
            d.text \cap query.terms # {} => Found(d, query)
=============================================================================
