# YuDun: a TLA+ model of the credential-containment demonstration

YuDun (`src/`) investigates a compromised API credential and contains it. A
signal of a mutated CI action opens an incident; agents investigate; facts are
promoted from evidence; a governed action request freezes the old key, creates
a new version and rebinds the CI runner of a *Mock* environment, after a human
approved it or, in the competition mode, after a policy pre-authorization; the
result is verified from the environment itself, an audit report is written, and
the incident is closed on top of an intact audit chain. The backend is one
Python process (FastAPI, SQLAlchemy over SQLite, LangGraph); the console is a
single React page.

This directory holds TLA+ modules for that control logic, TLC configurations
that check them on small instances, and TLAPS proofs that cover every
constant value.

## 1. Inventory

| Component | State | Operations | Interacts with | What makes it correct |
|---|---|---|---|---|
| Demo runtime, `application/demo.py` | stage, session, workflow, thread id, remembered answers, event feed | `start`, `decide`, `reset`, `status`, process start | workflow graph, both databases, console | what is committed is whole; the stage describes it; remembered answers are not stale |
| Workflow graph, `orchestration/golden_path.py` | position, stop reason, mode; persisted in `checkpoints.db` | 18 nodes, conditional edges, interrupt and resume | all domain services | ends or pauses; stops on a stop reason; a resumed position matches the rows |
| State manager, event intake, `services/state.py`, `events.py` | incident row with version | `create_from_ci_signal`, `transition` | audit, repositories | frozen order of statuses; one incident per signal |
| Facts, `services/facts.py` | confirmed facts | `promote` | evidence | prerequisites before consequences; six facts before attribution |
| Actions, `actions/service.py`, `policies/engine.py` | requests, policy decisions, approvals, pre-authorizations, executions | recommend, create, evaluate, decide, pre-authorize, execute | Mock environment, state manager | nothing is executed but what its authority has seen; once |
| Mock environment, `mock/state.py` | key, CI, attack and resource state with version; snapshots | `reset`, `save`, `snapshot` | executor, verification | changes only under authority; never half rotated in a committed store |
| Verification, `verification/engine.py` | results | `verify` | Mock environment, state manager | passes only on the environment as it is; failure never advances |
| Audit, `audit/service.py`, `repositories/audit.py` | hash chain per incident | `append`, `verify_chain` | every service | no gap, no fork, damage is found |
| Report and closure, `audit/reporting.py` | report | `generate`, `close` | audit, state manager | closes only on evidence that is still valid |
| Agents, `agents/runtime.py`, `tools/registry.py`, `evidence/service.py` | tasks, results, findings | plan, investigate, trace, authorize | model adapter, evidence | an agent sees and does only what its task grants |
| Event feed, `demo.py:55-80`, `api/routes.py:269-287` | list of events, one index per subscriber | publish, since, clear | console | a change reaches every page that has looked at the feed since the last reset |
| Knowledge index, `knowledge/service.py`, `loader.py`, `ranking.py` | documents, TF-IDF postings, full-text table in `business.db` | index, reload, search | agents, console | once an indexing has succeeded, the index is that of the directory, and a search fails for no query |
| Capture parsing, `pcap/parser.py`, `manifest.py` | flows, HTTP and DNS events, evidence | scan, normalize, import | evidence, demo runtime | packets of a connection stay together; responses meet their requests; evidence leads back to its packet |
| Detection rules, scenario, schemas, model adapter, manifests | none | pure functions | | |
| Console, `frontend/src/App.tsx` | page state | refresh, start, decide, reset | API | an old answer never overwrites a newer one |

Where it is hard: one database session is open across a whole run and is
committed only when the graph pauses or ends; the graph's position lives in
another database, written in the background; nothing is rolled back when a call
raises; the process may die anywhere; requests, approvals and their digests
may change between any two services; a client repeats a decision.
`PROJECT.json` lists the hazards at their lines with the properties that
watch them.

## 2. Modules

| Module | Models | Checked by |
|---|---|---|
| `IncidentLifecycle` | abstract: status, "somebody had the authority", "a verification passed" | refined by `IncidentServices` |
| `IncidentServices` | the domain services over one session, called in any order | `MCIncidentServices` |
| `IncidentServices_proofs` | theorems about `IncidentServices` | `tlapm` |
| `RunOutcome` | abstract: what an operator is told about a run and whether the environment is contained | refined by `DemoRun` |
| `DemoRun` | runtime, graph, session, business database, checkpoint position; composes `IncidentServices` by INSTANCE | `MCDemoRun` |
| `DemoRun_proofs` | theorems about `DemoRun` | `tlapm` |
| `AppendOnlyLog` | abstract: a log that only grows until somebody edits it | refined by `AuditChain` |
| `AuditChain` | one audit chain, appended to by several sessions, and its `verify_chain` | `MCAuditChain` |
| `AuditChain_proofs` | theorems about `AuditChain` | `tlapm` |
| `FlowAssembly` | from a capture file to imported evidence: scan, decoding, flows, HTTP and DNS records, locators | `MCFlowAssembly` |
| `FlowAssembly_proofs` | theorems about `FlowAssembly` | `tlapm` |
| `NeedToKnow` | abstract: who is granted, learns and concludes what | refined by `Delegation` |
| `Delegation` | evidence access and corrections, tool registry, agents and their model, facts | `MCDelegation` |
| `Delegation_proofs` | theorems about `Delegation` | `tlapm` |
| `Console` | a page, its event stream and the API calls of several clients over the runtime and its feed | `MCConsole` |
| `Console_proofs` | theorems about `Console` | `tlapm` |
| `KnowledgeIndex` | documents, rankings and full-text table under edits, reloads, resets and their failures; search | `MCKnowledgeIndex` |
| `KnowledgeIndex_proofs` | theorems about `KnowledgeIndex` | `tlapm` |
| `SequenceFacts` | lemmas on sequences that two of the proof modules share | `tlapm` |

`DemoRun` composes `IncidentServices` and the graph. The other modules meet it
at an interface: `FlowAssembly` ends in what `start` imports, `Delegation` is
what the nodes `plan_investigation`, `run_investigation` and `run_trace` call,
`Console` calls `start`, `decide` and `reset`, and `KnowledgeIndex` is rebuilt
by `reset`, whose failure is `ResetFails` in both.

### IncidentServices

The variables are the rows of one incident as a session sees them. `request[r]`
is the *content* of an action request row; equal contents have equal digests
(`action_request_digest` is injective as far as the services are concerned), so
an approval record carries the content it was given for in place of a hash.
`Compliant` contents pass every check of the policy engine; `OnTarget` ones aim
at the Mock credential. A content decides its idempotency key by its target
only, as `create_request` does.

Every service is one action, with all its writes. A service that raises before
it writes anything has no step; one that raises later has the writes it has
flushed: a repeated attribution leaves its facts (`EvaluateFacts`), and an
executor whose transition to CONTAINED is denied leaves the old key frozen
(`ExecuteHalts`). CONTAINED itself is never visible: the executor passes
through it. The services are not called in the graph's order here. A repeated
node, a damaged row and a second request are legal inputs, as they are in the
repository's integration tests (`AmendRequest` and `CorruptAudit` are the edits
those tests make).

The frozen key, the denied attack calls and the denied creation of resources
change together in `_apply`, so one field, `oldKey`, stands for the three. The
only environment the services produce outside `InitialMock` and `RotatedMock`
is the half-contained one of `ExecuteHalts`.

Not modelled here: audit records one by one (only whether the chain verifies),
version numbers, evidence and its semantics, timestamps. The latest approval is
the last one inserted; the code orders by timestamp.

### DemoRun

The IncidentServices variables are the session's view; `db` is the committed
business database and `saved` the position that the checkpoint database would
resume from. `Start` and `Decide` begin a call, each `Step` is a node, and
`Finish` is the rest of the call: commit, stage, remembered answer. A call
holds the runtime's lock, so no second call is in progress; only `Restart`, a
dead process, can come between. `Abandon` is a raised exception: the session
stays as it is. `StoreFails` is a failed flush: SQLAlchemy throws the
transaction away and refuses the session until somebody rolls it back, which
nobody does. `Leave` writes the checkpoint in the background, as LangGraph
does by default: a lost write surfaces when the graph has stopped.
`ResetFails` is a knowledge index that cannot be rebuilt after the files were
deleted. A graph that has not stopped has the stop reason `NONE`.

Left out: read-only calls, `_publish_current`'s events, timings, torn reads of
`status()`.

### AuditChain

One chain of audit records over one SQLite database. `rows` is what is
committed, `draft` what the one writing session sees, `ahead[s]` the number and
link that session `s` has computed and not yet inserted. `append` is two
actions because its reading takes no lock: the driver opens a transaction with
the first row written, and until then another session may commit.
`InsertFails` is the unique constraint (or `busy_timeout`); the failed flush
takes the session's earlier records with it. A digest is the list of all that
it covers, directly and through its link, so equal digests mean equal
histories. Edits change one column or delete a row, without touching
`record_hash`, like the statements of the repository's tests; somebody who
recomputes the hashes of a whole chain is outside of what the code promises to
notice, and so are records missing at its end.

### FlowAssembly

One run of the parser over a file chosen at the start. A packet is reduced to
what the code looks at: its endpoint pair and side, SYN without ACK, what the
payload parses as, its timestamp; a packet without ports, one that is not IPv4
and one whose decoding raises are kinds of their own. `_build_flows` is taken
packet by packet; the records of a flow (`FlowSchema`, `HttpEvents`,
`DnsEvents`, `OfficialEvidence`) are functions of its packets. Identifiers are
the tuples that the code hashes. `ParseHttp` and `ParseDns` are the bodies of
the two loops over a flow's packets; `raw_events` is a set, its order being that
of the indexes. Not every exception is caught: `ReaderFails` is, `WindowRefused`
and `EmitRaises` leave the parser. `Raises` has the four reasons of the second:
a conversation that ends before it begins; what neither `except` of
`_parse_http` names (`HttpBreaks`: dpkt makes a list of a header given twice, of
which `redact_text` and, for Content-Length, dpkt itself raise a TypeError); a
response that cannot complete the pending request; a refused DNS record. A
request that the event schema refuses is caught and passed over.

The reference definitions do not repeat the algorithm: a conversation is a
class of packets under `SameConversation`, and the response of a request is the
last one in its window.

### Delegation

Each action is one call on the session; a call that raises is an action of its
own, or a branch, with the records it has written by then. `trail` is the set
of audit records these calls write. A model's answer is any value its schema
accepts: plans that ask for more evidence, facts or tools than the parent has,
answers that cite other evidence, failures on either attempt. `read` is a
history of what `get_for_agent` returned. `Registry` is the whole of
`build_default_registry`.

`CreateEvidence` takes any record, as `EvidenceService.create` does: it does not
look at what a record supersedes. Who calls it decides: the import of a capture
(`demo.py:451`), the replay (`golden_path.py:215`) and the snapshots of the
environment (`mock/state.py:148`) build first versions (`Originals`), and the API
offers neither `create` nor `append_correction`. `CorrectionsKeepOrigin` and the
origin clause of `FactsGrounded` rest on that.

The refinement `NeedsToKnow` maps a task to its parent and its evidence, what
it read to `known`, and the findings of the investigation and trace agents to
`concluded`. Audit reports are left out of it: the report's finding cites the
task's evidence without reading it, which is no conclusion about its contents.

### Console

Every request is two steps, the server's and the one in which the page uses the
answer, so that answers are late and out of order. A refresh, and the load that
opens a page, make two requests, for the status and then for the bundle: they are
in the phase STATUS, BUNDLE and ANSWERED in turn, and fail in any of them
(`RefreshFails`, `LoadFails`), as a button's call may before or after the server
has acted (`CallFails`). What follows a failure is what the page does: nothing is
asked for again, the newest refresh shows its error and an older one swallows it.
`clock` counts the changes; what is read carries its value. `newest` in a refresh
is the comparison with `refreshSequence`. The load and the reset take no part in
that sequence, in the model as in the page: a load puts the bundle it read over
what a refresh has shown since. The stream polls the feed by index; `Reconnect` is
a lost connection. `due` and `synced` are history: the last change published since
the stream looked at the feed after a reset. The error shown is a flag.

Start, decide and reset are one step each, as they are under the runtime's
lock; `status()` takes no lock and may be torn, which is left out. So are
autonomous runs, which need no decision, and the switch of the role, which
opens the load and the stream again.

### KnowledgeIndex

`documents`, `tfidf` and `fts` are three copies of one thing, replaced one
after the other; each failure leaves them apart, and `indexed` remembers whether
the last indexing succeeded. A document is an id, the terms that `tokenize` makes
of its text, and the terms whose quotation the table matches in it
(`matches`). Neither set bounds the other: `unicode61` takes a run of CJK
characters with the Latin words next to it as one token, where `tokenize` takes
its pairs; it keeps stopwords; and it splits `ci-runner`, which `tokenize` keeps
and `fts_match_expression` quotes, so that the phrase also matches "ci runner". A
query likewise is its terms and the terms that are quoted.

The comment at `knowledge/tokenize.py:3` says that FTS5 and TF-IDF "operate in
the same term space"; `SameTermSpace` is the finding that they do not.
`SearchesFind` states what holds instead: a document with a term of the query is
found when the table matches a quoted term in it, and any such document when the
table is not used or matches none in any text the index holds now. A document
that has left the index, or a former text of one, never hides another.

## 3. Runs

| Run | Question | Bounds | Result |
|---|---|---|---|
| `services` | do authority, single rotation, accountability, rejection and closure hold in any order of calls; do the services implement `IncidentLifecycle` | 2 requests, 4 contents, 2 approvals per request | 366,577 states |
| `demo_run` | are whole runs sound under crash, failed flush, failed reset | 1 capture, faults crash, store, knowledge | 1,054 states |
| `demo_checkpoint` | what remains true when checkpoint writes are lost and decisions are repeated | faults store, checkpoint | 8,918 states |
| `audit_chain` | do concurrent appends ever fork a chain or leave a gap; what does a chain that verifies prove after edits | 2 sessions, 2 contents, 3 records, 3 edits of every kind | 568,106 states |
| `capture` | do flows, pairs, identifiers and locators agree with their reference definitions for every capture, and what can one bad packet do | captures of up to 4 packets of 17 kinds on 3 ports, import limit 2 | 2,010,374 states |
| `capture_parse_failures` | is what fails to parse put on the list of failures, as the design says | captures of up to 2 packets in the order of their timestamps | violated: finding |
| `delegation` | can a plan, a correction or an answer bring an agent beyond what it was granted and cleared for; does delegation implement `NeedToKnow` | 4 evidence records, 2 incidents, 3 tasks, 2 results, 2 facts | 349,127 states |
| `console` | are decisions about what was shown; do pages go back; is a page left old without an error | 1 page and other clients, 4 changes, 2 refreshes in flight, 1 button or lost connection of the page, one kind of decision | 740,247 states |
| `knowledge` | is the index that of the directory after any failures; does a search fail or miss what it should find | 7 directories, 3 ids, 4 terms, 8 queries | 1,092 states |
| `knowledge_terms` | do the table and the ranker work in one term space, as a comment says | same | violated: finding |
| `reject_after_lost_checkpoint` | does a rejection leave the environment alone | as `demo_checkpoint` | violated: finding |
| `restart_while_waiting` | can a waiting request be decided after a restart | fault crash | violated: finding |

Bounds. Two requests are enough for every property that compares requests, all
of which quantify over pairs; the four contents are one of each kind the
services tell apart, and two compliant ones so that a digest can differ while
the policy agrees. Two approvals give each order of approval and rejection.
One capture suffices because the import of a capture only matters through its
own earlier import. One request per run is what the graph creates.

Two sessions are enough to compute the same number, to fail against each
other's insert and to find the other's records on the next attempt; three
records are a first, a middle and a last one. Three edits reorder two records,
the repository's own longest edit.

Four packets hold a stream with two requests and two responses, one that is
ended by a SYN and opened again, two interleaved pairs, and a packet that fails
before one that is evidence. Three tasks are an issued one, its child and the
trace task that follows, so that a right can pass through two delegations; four
evidence records hold a correction of a correction and one record of another
incident. With one action of its own the page can press a button or lose its
connection while the other clients change the run four times: start, reset,
start, decide. One kind of decision stands for both, which differ only in the
answer remembered for them. Directories hold one override, one clash of two
imports in either order, an unreadable file and a refused entry.

Deadlock is checked where the system never stops: the services can always
ingest, and the runtime can always reset. `audit_chain` does not check it: with
the largest number used up and no edit left, nobody has anything to do. Nor do
`capture`, where a parser ends, `delegation`, where the tables fill up, and
`console`, where the clients may have nothing left to press, check it.

Fairness (`Console!FairSpec`): weak fairness on `Poll` (the generator of
`/events` sleeps 0.25 s and looks again), on `HandleEvent` (the browser's event
loop), on `Refreshing` and `Loading` (a request ends, and failing is a way to
end), and on the answer to a button's call (`Serves(p) \/ Answered(p)`: the server
answers or the call fails, and the page takes it up). No request need ever
succeed, nobody has to press a button, and a connection need not be lost.

## 4. What the properties say

`IncidentServices`: `ExecutedAsAuthorised` (whatever ran is word for word what
its authority had seen, human and automatic authority never mix),
`SingleRotation`, `ContainmentAccountable` (a half-done execution included),
`RejectionHolds`, `ClosureEvidence`, `FollowsLifecycle` (refinement).

Note what `ExecutedAsAuthorised` does not say: under human approval the
executed content need not be compliant. The policy decision is made once and is
bound to no digest, so a row amended afterwards and approved again by a human
is executed. The autonomous branch checks the content again and is bound to it.

`DemoRun`: `CommittedEffects` (what is committed is never a part of an
execution), `StageTruthful` (the stage table of docs/13 section 4.4),
`CacheTruthful`, `ClosedJustified`, `KeepsPromises` (refinement of
`RunOutcome`). The graph has no retries and no cycles, so that a run ends is
plain from `golden_path.py:135-191`, and no run is spent on it.

`AuditChain`: `ChainSound` (concurrent appends leave no gap and no fork),
`VerifiedIsGenuine` (a chain that verifies holds its records as written, even
after edits), `FollowsTrail` (refinement of `AppendOnlyLog`).

`FlowAssembly`: `FlowsAreConversations`, `IdentitiesDistinct`,
`ResponsesFollowRequests`, `EvidenceTraceable`, `FailuresIsolated`. The last says
which packets make an exception leave the parser, and that a capture which
returns made flows of none of these. It states what the code does where the
design (docs/4, section 6.1) asks for more: line 747 wants out-of-order and
fragmented traffic marked PARTIAL, but a capture whose last packet is stamped
earlier than its first raises, and one with fragments stays PARSED; line 750 is
finding 3.

`Delegation`: `CorrectionsKeepOrigin` (no two corrections turn official evidence
into synthetic, given what the callers of `create` store), `FindingsCleared`,
`ToolsSanctioned`, `FailuresConcludeNothing` (the model's failures leave no conclusion, and the trail agrees with the
results), `FactsGrounded`, `NeedsToKnow` (refinement).

`Console`: `DecisionsAsShown` (what is carried out is what was shown, however
stale the page), `RefreshesAdvance` (refreshes never go back), `ChangesShown`
(after a run was started or decided, a page whose stream had looked at the feed
since the last reset comes to show a later answer, or it shows an error: no
failure, superseded refresh or lost connection leaves it old without a word).
Without the condition on the stream it fails: a page's cursor is an index into a
list that reset clears, and the events between a reset and its next look may be
skipped. It is about what refreshes show; a load that is slower than the first
refresh may still put an older bundle over it, and `DecisionsAsShown` holds for
what is shown then.

`KnowledgeIndex`: `IndexedAsLoaded`, `SearchesFind`.

### Findings

1. *Rejection after a lost checkpoint.* `decide` keeps the session and the
   stage when the resumed graph raises. If the write of the checkpoint after
   `wait_for_approval` was lost, the approval's effects sit in the open
   session while the persisted position is still the pause. A rejection then
   commits them: HUMAN_REJECTED over a rotated environment.
2. *Restart while waiting.* The checkpoint database survives a restart but is
   never read: the waiting request cannot be decided any more.
3. *Parse failures on no list.* docs/4 line 750 wants what fails to parse on a
   list of isolated failures. Only packets that cannot be decoded are listed; an
   HTTP or DNS payload that does not parse is passed over without a trace, and one
   with a header given twice ends the import with a TypeError.
4. *Two term spaces.* `tokenize.py:3` says that FTS5 and the ranker operate in the
   same one. The query `ci-runner` recalls a text that says "ci runner", which has
   no term of it, and so hides one that says "ci-runner" next to CJK characters:
   nothing is found.

No run shows two lesser ones. The closing transition is guarded by the number of
pending high-risk actions (docs/4 line 910), and its only caller passes the
constant 0 (`audit/reporting.py:201`). A human approval of an amended request
needs no new policy decision (`policies/engine.py:124`).

## 5. Proofs

`IncidentServices_proofs` proves, for any sets of requests and contents and any
bound on approvals, the type invariant, the four safety invariants, the two
action properties and the refinement. The assumptions are the ones the module
states: compliant contents are on target and are contents, the bounds have
their types, and `None` is none of the values it stands beside.

The invariant is `IInv`. `ExecutedAsAuthorised` is not inductive alone: that an
approval can be trusted rests on `AuthorityFitsPolicy` (records of authority
exist only under the policy decision that calls for them, and decisions are
made once). `SingleRotation` is inductive with the types because an execution
needs the status ATTRIBUTED and leaves it; `ContainmentAccountable` needs that
authority is never withdrawn (`RecordsStay`: approval records only grow, a
pre-authorization stays). `ClosureEvidence` and the refinement need
`VerdictsHaveExecutions`: a verdict belongs to an execution and an incident past
VERIFIED keeps a passed one. Each `...Step` lemma is one conjunct over one step,
by cases on the actions; `Inductive` puts them together, and the properties
follow.

`AuditChain_proofs` proves every property of the `audit_chain` run for any
sessions, contents, edits and largest number; the assumption is the types of
the bounds and that `None` is no session. Three facts carry it. `HashesIssued`:
edits leave hashes alone, so every stored hash was issued by an append; a
verified hash then names a genuine record. `SoundInv` strengthens `ChainSound`:
while nobody has edited the rows, what a session has computed (`ahead`) either
is taken by now or continues the chain as it is (`Fits`), and the writer's
records extend the committed ones (`Extends`). A commit can therefore only make
another session's number taken, never wrong (`FitsLonger`). That the link is
that of the last record needs a largest element of the numbers (`LastIsLargest`,
from the well-foundedness of `<`). Digests are taken to be injective: they are
defined as what they cover.

`DemoRun_proofs` holds for every set of faults, unless a theorem says otherwise.
The assumptions are the types of the bounds and that `None` is not among the
values it stands beside. `RunInv` is inductive under crashes, failed flushes,
lost checkpoints and repeated decisions: the committed store is `Whole`
(environment, status and execution agree); a session that waits is whole too;
an open call is at a node that its stop reason fits (`CallInv`); a decision
resumes from a position it may take up (`DecideInv`), which may be behind the
session's rows but never ahead of them. From it follow `CommittedEffects`,
`CacheTruthful` and `ClosedJustified`. `ExactInv` says in addition which rows
each node has behind it and is what `StageTruthful` and the refinement of
`RunOutcome` rest on. It holds only where no checkpoint write is lost, and so
these two theorems assume `"checkpoint" \notin Faults`, which the run
`demo_run` satisfies. That is no convenience: the run
`reject_after_lost_checkpoint` is a counterexample without it.

`Delegation_proofs` proves all properties of the `delegation` run for any
evidence, plans, answers and bounds. Every part is inductive with the types.
`CorrectionsKeepOrigin` compares a record with its first version, which is a
recursive definition; `OriginInv` avoids an induction by speaking of *every*
function that assigns first versions consistently, and by carrying along that
one exists. `ClearedInv` strengthens `FindingsCleared` by what the trace agent
has linked; it needs that evidence, once written, is never changed, and that a
task whose reads are all on the trail was cleared for each (`ReadsAreCleared`).
`FactInv` has for each fact what `FactValidator` checked of it. The refinement
maps a task to its parent and its evidence, and its steps are those of
`NeedToKnow` or stutter: a child's evidence is a part of its parent's because
`Within` is checked before the child is stored.

`Console_proofs` proves the type invariant, `RefreshesAdvance` and
`DecisionsAsShown` for any number of pages and clients and any bounds. The types
are not inductive alone: that a refresh never applies an older answer needs
`PagesOK`, in which every answer in flight is no newer than the clock and at most
one refresh of a page is the newest. `DecidedInv` adds to `DecisionsAsShown`
that the run which waits for a decision is not among those decided.

`FlowAssembly_proofs` proves every invariant of the `capture` run for captures of
any number of packets. `FlowInv` has four parts. `Types`. `Assembled`: the
streams that are open, wait, or became a flow are disjoint; two packets before
the cursor are in one stream exactly when they are of one conversation
(`StreamsHold`); every packet with ports is in one (`Covered`); and during the
loop each key has one open stream at most, with an ordinal above those of its
completed ones (`BuildHolds`). The reference definition of a conversation looks
at packets only, so this part is the correctness of the splitting. `Derived`:
each flow is named after its stream, each HTTP event carries the last answer in
its window, and evidence and events are in bijection. `Outcome`: what the
status says of the packets, and why an exception left the parser. What
`HttpEvents` and `DnsEvents` compute is proved by induction on the number of a
stream's packets that have been parsed, written with a smallest counterexample
(`Smallest`, from the well-foundedness of `<`). TLC checked `FlowInv` on the
bounds of the `capture` run before it was proved. The assumptions are those of
the module: the types of packets, files and ports.

`KnowledgeIndex_proofs` proves every property of the `knowledge` run for any
directories, documents and queries. The invariant adds `Made` to the types: the
history variable says that the last indexing succeeded only while the documents,
their count, the rankings and, where it is used, the table are all those of one
directory without bad files. `IndexedAsLoaded` and `SearchesFind` follow from it and
from what loading computes: `FirstOfEachOf` (which entries the loop over the files
keeps, by induction on the number of entries, again with a smallest
counterexample), `Loaded` (a file's first entry of an id goes before the document
built in) and `Counted` (documents that are not built in and ids that are not are
equally many). TLC checked `Made` on the bounds of the `knowledge` run before it was
proved. The assumptions are the types of files, entries and queries and that no
id is built in twice; what the table matches in a text is left open.

`SequenceFacts` holds the lemmas that `FlowAssembly_proofs` and
`KnowledgeIndex_proofs` share: appending, joining and flattening sequences, and
that a function defined step by step exists.

Model-checked only: liveness (`ChangesShown`), which the prover does not reach. The
runs that expect a violation have nothing to prove.

## 6. Plan

1. Done: `IncidentServices`, `IncidentLifecycle`, `DemoRun`, `RunOutcome`,
   proofs of the services.
2. Done: `AuditChain`, `AppendOnlyLog`, and their proofs.
3. Done: `FlowAssembly`, `Delegation` with `NeedToKnow`, `Console` with the
   event feed, `KnowledgeIndex`.
4. Done: proofs about `DemoRun`, `Delegation`, `Console`, `FlowAssembly` and
   `KnowledgeIndex`.
5. Left: torn answers of `status()` in `Console`, and the switch of the role.

## 7. Not modelled

Detection rules and the synthetic scenario are pure functions of constant data;
schemas, redaction and canonical JSON are validation and formatting; manifests,
scripts, migrations and the deterministic model adapter keep no state. The
bytes of captures are data.

The optimistic version check of incident rows (`repositories/incidents.py:64`)
is not modelled: the program writes incidents from one session at a time, under
the runtime's lock. Nor is the order of approvals with equal timestamps, nor a
torn `status()`: its fields are read without the lock while another thread
assigns them. Of the console, the knowledge pane, the evidence drawer and the
switch of the role are left out; of the API, the roles and the validation of
requests.
