----------------------------- MODULE Console_proofs -----------------------------
(***************************************************************************)
(* Theorems about Console, for any number of pages, changes, requests in   *)
(* flight and decisions: type correctness, decisions are about what was    *)
(* shown, and refreshes never take a page back.                            *)
(***************************************************************************)
EXTENDS Console, SequenceTheorems, FiniteSetTheorems, TLAPS

\* The refresh that will be shown next was read no earlier than what is shown.
Fresh(q) == \A r \in q.refreshes: r.newest /\ r.phase # "STATUS" => q.seen <= r.clock

\* What TypeOK says of a page when the clock shows now.
Page(q, now) ==
    /\ q \in PageType
    /\ q.seen \in 0..now
    /\ \A r \in q.refreshes: r.run \in 0..r.clock /\ r.clock \in 0..now
    /\ \A r, s \in q.refreshes: r.newest /\ s.newest => r = s

\* Every page of the console.
PagesOK == \A p \in Pages: Page(page[p], clock) /\ Fresh(page[p])

-----------------------------------------------------------------------------
(* The pages *)

\* A page is as fresh as it was when the clock has advanced.
LEMMA PageLater ==
    ASSUME NEW q, NEW m \in Nat, NEW n \in Nat, m <= n, Page(q, m)
    PROVE  Page(q, n)
BY DEF Page, PageType, RefreshType

\* A new refresh supersedes the others.
Refreshed(q, op, own) ==
    [q EXCEPT !.op = op, !.refreshes = Superseded(@) \cup {NewRefresh(own)}]

\* A page that starts a refresh is a page still, and shows what it showed.
LEMMA NewRefreshOK ==
    ASSUME NEW q, NEW now \in Nat, Page(q, now), Fresh(q), NEW own \in BOOLEAN,
           NEW op \in OpType
    PROVE  /\ Page(Refreshed(q, op, own), now) /\ Fresh(Refreshed(q, op, own))
           /\ Refreshed(q, op, own).seen = q.seen
<1> PICK new: new = Refreshed(q, op, own)
  OBVIOUS
<1>1. /\ q \in PageType /\ q.seen \in 0..now
      /\ \A r \in q.refreshes: r \in RefreshType /\ r.run \in 0..r.clock /\ r.clock \in 0..now
  BY DEF Page, PageType
<1>2. \A r \in Superseded(q.refreshes):
        r \in RefreshType /\ ~r.newest /\ r.run \in 0..r.clock /\ r.clock \in 0..now
  BY <1>1 DEF Superseded, RefreshType
<1> PICK added: added = NewRefresh(own)
  OBVIOUS
<1>3. /\ added \in RefreshType /\ added.phase = "STATUS" /\ added.newest
      /\ added.run = 0 /\ added.clock = 0
  BY DEF NewRefresh, RefreshType, Answer
<1>4. /\ new \in PageType /\ new.refreshes = Superseded(q.refreshes) \cup {added}
      /\ new.seen = q.seen
  BY <1>1, <1>2, <1>3 DEF PageType, Refreshed
<1>5. \A r \in new.refreshes: r.newest => r = added
  BY <1>2, <1>4
<1>6. QED
  BY <1>1, <1>2, <1>3, <1>4, <1>5 DEF Page, Fresh

\* A refresh that has read the status.
WithStatus(r, now, current) == [r EXCEPT !.phase = "BUNDLE", !.clock = now, !.run = current]

\* A refresh that has read the status remembers when, and which run it saw.
LEMMA ReadOK ==
    ASSUME NEW r \in RefreshType, NEW now \in Nat, NEW current \in 0..now
    PROVE  /\ WithStatus(r, now, current) \in RefreshType
           /\ WithStatus(r, now, current).newest => r.newest
           /\ WithStatus(r, now, current).run = current
           /\ WithStatus(r, now, current).clock = now
<1>1. [r EXCEPT !.phase = "BUNDLE"] \in RefreshType
  BY DEF RefreshType
<1>2. ASSUME NEW s \in RefreshType PROVE [s EXCEPT !.clock = now] \in RefreshType
  BY DEF RefreshType
<1>3. ASSUME NEW s \in RefreshType PROVE [s EXCEPT !.run = current] \in RefreshType
  BY DEF RefreshType
<1>4. /\ WithStatus(r, now, current).newest => r.newest
      /\ WithStatus(r, now, current).run = current
      /\ WithStatus(r, now, current).clock = now
  BY DEF RefreshType, WithStatus
<1>5. WithStatus(r, now, current) \in RefreshType
  BY <1>1, <1>2, <1>3 DEF WithStatus
<1>6. QED
  BY <1>4, <1>5

\* A refresh that has read the bundle.
WithBundle(r, bundle) == [r EXCEPT !.phase = "ANSWERED", !.bundle = bundle]

\* A refresh that has read the bundle is about the status it has read.
LEMMA BundleReadOK ==
    ASSUME NEW r \in RefreshType, NEW bundle \in Answer
    PROVE  /\ WithBundle(r, bundle) \in RefreshType
           /\ WithBundle(r, bundle).newest = r.newest
           /\ WithBundle(r, bundle).run = r.run /\ WithBundle(r, bundle).clock = r.clock
<1>1. [r EXCEPT !.phase = "ANSWERED"] \in RefreshType
  BY DEF RefreshType
<1>2. \A s \in RefreshType: [s EXCEPT !.bundle = bundle] \in RefreshType
  BY DEF RefreshType
<1>3. WithBundle(r, bundle) \in RefreshType
  BY <1>1, <1>2 DEF WithBundle
<1>4. QED
  BY <1>3 DEF RefreshType, WithBundle

\* The page when a refresh ends.
Ended(q, r, bundle, seen, error, op) ==
    [q EXCEPT !.refreshes = @ \ {r}, !.bundle = bundle, !.seen = seen, !.error = error, !.op = op]

\* A page whose refresh has ended is a page still, without that refresh.
LEMMA EndedOK ==
    ASSUME NEW q \in PageType, NEW r, NEW bundle, NEW seen, NEW error, NEW op,
           bundle \in Answer /\ seen \in Nat /\ error \in BOOLEAN /\ op \in OpType
    PROVE  /\ Ended(q, r, bundle, seen, error, op) \in PageType
           /\ Ended(q, r, bundle, seen, error, op).seen = seen
           /\ Ended(q, r, bundle, seen, error, op).refreshes = q.refreshes \ {r}
<1>1. [q EXCEPT !.refreshes = @ \ {r}] \in PageType
  BY DEF PageType
<1>2. ASSUME NEW s \in PageType PROVE [s EXCEPT !.bundle = bundle] \in PageType
  BY DEF PageType
<1>3. ASSUME NEW s \in PageType PROVE [s EXCEPT !.seen = seen] \in PageType
  BY DEF PageType
<1>4. /\ \A s \in PageType: [s EXCEPT !.op = op] \in PageType
      /\ \A s \in PageType: [s EXCEPT !.error = error] \in PageType
  BY DEF PageType
<1>5. Ended(q, r, bundle, seen, error, op) \in PageType
  BY <1>1, <1>2, <1>3, <1>4 DEF Ended
<1>6. /\ Ended(q, r, bundle, seen, error, op).seen = seen
      /\ Ended(q, r, bundle, seen, error, op).refreshes = q.refreshes \ {r}
  BY DEF Ended, PageType
<1>7. QED
  BY <1>5, <1>6

\* The page after a step that neither begins, reads nor ends a refresh.
Calm(q, presses, load, op, bundle, error) ==
    [q EXCEPT !.presses = presses, !.load = load, !.op = op, !.bundle = bundle, !.error = error]

\* Such a step leaves the refreshes alone.
LEMMA CalmOK ==
    ASSUME NEW q \in PageType, NEW presses \in Nat, NEW load \in LoadType, NEW op \in OpType,
           NEW bundle \in Answer, NEW error \in BOOLEAN
    PROVE  /\ Calm(q, presses, load, op, bundle, error) \in PageType
           /\ Calm(q, presses, load, op, bundle, error).seen = q.seen
           /\ Calm(q, presses, load, op, bundle, error).refreshes = q.refreshes
<1>1. /\ \A s \in PageType: [s EXCEPT !.presses = presses] \in PageType
      /\ \A s \in PageType: [s EXCEPT !.load = load] \in PageType
      /\ \A s \in PageType: [s EXCEPT !.op = op] \in PageType
      /\ \A s \in PageType: [s EXCEPT !.bundle = bundle] \in PageType
      /\ \A s \in PageType: [s EXCEPT !.error = error] \in PageType
  BY DEF PageType
<1>2. Calm(q, presses, load, op, bundle, error) \in PageType
  BY <1>1 DEF Calm
<1>3. /\ Calm(q, presses, load, op, bundle, error).seen = q.seen
      /\ Calm(q, presses, load, op, bundle, error).refreshes = q.refreshes
  BY DEF Calm, PageType
<1>4. QED
  BY <1>2, <1>3

\* What a page shows of a run, if there is one.
LEMMA BundleOK ==
    ASSUME TypeOK, ConsoleAssumption, NEW r
    PROVE  BundleOf(r) \in Answer
BY DEF TypeOK, ConsoleAssumption, BundleOf, BundleRecord, Stages, Answer

\* The steps of pages leave the server alone.
LEMMA PagesOnly ==
    ASSUME PageSteps
    PROVE  UNCHANGED server
<1>1. ASSUME NEW p \in Pages, Poll(p) \/ Reconnect(p) \/ HandleEvent(p)
      PROVE  UNCHANGED server
  BY <1>1 DEF Poll, Reconnect, HandleEvent
<1>2. ASSUME NEW p \in Pages, Refreshing(p)
      PROVE  UNCHANGED server
  BY <1>2 DEF Refreshing, ReadStatus, ReadBundle, ShowRefresh, RefreshFails
<1>3. ASSUME NEW p \in Pages, Loading(p) \/ Answered(p)
      PROVE  UNCHANGED server
  BY <1>3 DEF Loading, LoadStatus, LoadBundle, LoadShows, LoadFails,
     Answered, ResetAnswered, OpAnswered, CallFails
<1>4. ASSUME NEW p \in Pages, NEW kind, Press(p, kind)
      PROVE  UNCHANGED server
  BY <1>4 DEF Press
<1>5. QED
  BY <1>1, <1>2, <1>3, <1>4 DEF PageSteps

\* A step changes pages to pages, and shows no older status than before.
LEMMA PagesStep ==
    ASSUME TypeOK, PagesOK, [Next]_vars
    PROVE  /\ page' \in [Pages -> PageType]
           /\ PagesOK'
           /\ \A p \in Pages: page'[p].seen >= page[p].seen
<1>1. /\ clock \in Nat /\ clock' \in Nat /\ clock <= clock' /\ page \in [Pages -> PageType]
      /\ Other \notin Pages
  <2>1. clock' = clock \/ clock' = clock + 1
    <3>1. ASSUME ServerSteps
          PROVE  clock' = clock \/ clock' = clock + 1
      BY <3>1 DEF ServerSteps, Serves, Reset, ResetIdle, Start, StartRefused, Decides, Decide,
         DecideAgain, DecideRefused, server
    <3>2. ASSUME PageSteps
          PROVE  clock' = clock
      BY <3>2, PagesOnly DEF server
    <3>3. QED
      BY <3>1, <3>2 DEF Next, vars, server
  <2>2. clock \in Nat /\ page \in [Pages -> PageType]
    BY DEF TypeOK
  <2>3. QED
    BY <2>1, <2>2, ConsoleAssumption
<1>2. \A p \in Pages: page[p] \in PageType /\ Page(page[p], clock) /\ Fresh(page[p]) /\ page[p].seen \in Nat
  BY <1>1 DEF PagesOK, PageType
<1> DEFINE Good(q, p) == Page(q, clock') /\ Fresh(q) /\ q.seen >= page[p].seen
<1>3. \A p \in Pages: Good(page[p], p)
  BY <1>1, <1>2, PageLater
<1>4. ASSUME NEW p \in Pages, NEW q, page' = [page EXCEPT ![p] = q], Good(q, p)
      PROVE  page' \in [Pages -> PageType] /\ \A i \in Pages: Good(page'[i], i)
  <2>1. q \in PageType
    BY <1>4 DEF Page
  <2>2. QED
    BY <1>1, <1>3, <1>4, <2>1
<1>6. ASSUME NEW p \in Pages, NEW op \in OpType, NEW error \in BOOLEAN,
             page' = [page EXCEPT ![p] = [page[p] EXCEPT !.op = op, !.error = error]]
      PROVE  page' \in [Pages -> PageType] /\ \A i \in Pages: Good(page'[i], i)
  <2> PICK q: q = [page[p] EXCEPT !.op = op, !.error = error]
    OBVIOUS
  <2>1. /\ q \in PageType /\ q.seen = page[p].seen /\ q.refreshes = page[p].refreshes
    BY <1>2 DEF PageType
  <2>2. Good(q, p)
    BY <1>3, <2>1 DEF Page, Fresh
  <2>3. page' = [page EXCEPT ![p] = q]
    BY <1>6
  <2>4. QED
    BY <1>4, <2>2, <2>3
<1>7. ASSUME NEW client \in Clients, Accepted(client) \/ (client # Other /\ Refused(client))
      PROVE  page' \in [Pages -> PageType] /\ \A i \in Pages: Good(page'[i], i)
  <2>1. CASE client = Other
    BY <1>1, <1>3, <1>7, <2>1 DEF Accepted
  <2>2. CASE client \in Pages
    <3>1. /\ [page[client].op EXCEPT !.phase = "ACCEPTED"] \in OpType /\ Idle \in OpType
          /\ page[client].error \in BOOLEAN /\ page[client] \in PageType
      BY <1>2, <2>2 DEF PageType, OpType, Idle
    <3>2. CASE Accepted(client)
      <4>1. page' = [page EXCEPT ![client] = [page[client] EXCEPT
                       !.op = [page[client].op EXCEPT !.phase = "ACCEPTED"], !.error = page[client].error]]
        BY <1>1, <2>2, <3>1, <3>2 DEF Accepted, PageType
      <4>2. QED
        BY <1>6, <2>2, <3>1, <4>1
    <3>3. CASE Refused(client)
      <4>1. page' = [page EXCEPT ![client] = [page[client] EXCEPT !.op = Idle, !.error = TRUE]]
        BY <1>1, <2>2, <3>1, <3>3 DEF Refused, PageType
      <4>2. QED
        BY <1>6, <2>2, <3>1, <4>1
    <3>4. QED
      BY <1>1, <1>7, <2>2, <3>2, <3>3
  <2>3. QED
    BY <2>1, <2>2 DEF Clients
<1>8. ASSUME NEW p \in Pages, HandleEvent(p) \/ OpAnswered(p)
      PROVE  page' \in [Pages -> PageType] /\ \A i \in Pages: Good(page'[i], i)
  <2>1. PICK op \in OpType, own \in BOOLEAN:
          page' = [page EXCEPT ![p] = Refreshed(page[p], op, own)]
    <3>1. CASE HandleEvent(p)
      <4>1. page[p].op \in OpType /\ [page[p] EXCEPT !.op = page[p].op] = page[p]
        BY <1>2 DEF PageType
      <4>2. QED
        BY <3>1, <4>1 DEF HandleEvent, Refreshed
    <3>2. CASE OpAnswered(p)
      <4>1. [page[p].op EXCEPT !.phase = "REFRESHING"] \in OpType
        BY <1>2 DEF PageType, OpType
      <4>2. page' = [page EXCEPT ![p] =
                       Refreshed(page[p], [page[p].op EXCEPT !.phase = "REFRESHING"], TRUE)]
        BY <3>2 DEF OpAnswered, Refreshed
      <4>3. QED
        BY <4>1, <4>2
    <3>3. QED
      BY <1>8, <3>1, <3>2
  <2> PICK q: q = Refreshed(page[p], op, own)
    OBVIOUS
  <2>2. clock' = clock
    BY <1>8 DEF HandleEvent, OpAnswered, server
  <2>3. Page(q, clock) /\ Fresh(q) /\ q.seen = page[p].seen
    <3>1. Page(page[p], clock) /\ Fresh(page[p])
      BY <1>2
    <3>2. QED
      BY <1>1, <3>1, NewRefreshOK
  <2>4. Good(q, p)
    BY <1>2, <2>2, <2>3
  <2>5. page' = [page EXCEPT ![p] = q]
    BY <2>1
  <2>6. QED
    BY <1>4, <2>4, <2>5
<1>9. ASSUME NEW p \in Pages, NEW r \in page[p].refreshes, ReadStatus(p, r) \/ ReadBundle(p, r)
      PROVE  page' \in [Pages -> PageType] /\ \A i \in Pages: Good(page'[i], i)
  <2>1. r \in RefreshType /\ run \in 0..clock /\ r.run \in 0..r.clock /\ r.clock \in 0..clock
    BY <1>2 DEF Page, PageType, TypeOK
  <2>2. PICK read \in RefreshType:
          /\ page' = [page EXCEPT ![p] = [page[p] EXCEPT !.refreshes = (page[p].refreshes \ {r}) \cup {read}]]
          /\ clock' = clock
          /\ read.run \in 0..read.clock /\ read.clock \in 0..clock
          /\ read.newest => r.newest /\ page[p].seen <= read.clock
    <3>1. CASE ReadStatus(p, r)
      <4> PICK read: read = WithStatus(r, clock, run)
        OBVIOUS
      <4>1. /\ page' = [page EXCEPT ![p] = [page[p] EXCEPT !.refreshes = (page[p].refreshes \ {r}) \cup {read}]]
            /\ clock' = clock
        BY <3>1 DEF ReadStatus, server, WithStatus
      <4>2. read \in RefreshType /\ read.run = run /\ read.clock = clock /\ (read.newest => r.newest)
        BY <1>1, <2>1, ReadOK
      <4>3. page[p].seen \in 0..clock
        BY <1>2 DEF Page
      <4>4. read.run \in 0..read.clock /\ read.clock \in 0..clock /\ page[p].seen <= read.clock
        BY <1>1, <2>1, <4>2, <4>3
      <4>5. QED
        BY <4>1, <4>2, <4>4
    <3>2. CASE ReadBundle(p, r)
      <4>a. PICK bundle: bundle = BundleOf(r.run)
        OBVIOUS
      <4>1. bundle \in Answer
        BY <4>a, BundleOK, ConsoleAssumption
      <4> PICK read: read = WithBundle(r, bundle)
        OBVIOUS
      <4>2. /\ page' = [page EXCEPT ![p] = [page[p] EXCEPT !.refreshes = (page[p].refreshes \ {r}) \cup {read}]]
            /\ clock' = clock /\ r.phase = "BUNDLE"
        BY <3>2, <4>a DEF ReadBundle, server, WithBundle
      <4>3. read \in RefreshType /\ read.run = r.run /\ read.clock = r.clock /\ read.newest = r.newest
        BY <2>1, <4>1, BundleReadOK
      <4>4. r.newest => page[p].seen <= r.clock
        BY <1>2, <4>2 DEF Fresh
      <4>5. QED
        BY <2>1, <4>2, <4>3, <4>4
    <3>3. QED
      BY <1>9, <3>1, <3>2
  <2>3. PICK q: q = [page[p] EXCEPT !.refreshes = (page[p].refreshes \ {r}) \cup {read}]
    OBVIOUS
  <2>4. q \in PageType /\ q.seen = page[p].seen /\ q.refreshes = (page[p].refreshes \ {r}) \cup {read}
    BY <1>2, <2>3 DEF PageType
  <2>5. \A s \in page[p].refreshes \ {r}: r.newest => ~s.newest
    BY <1>2 DEF Page, PageType, RefreshType
  <2>6. Page(q, clock)
    BY <1>1, <1>2, <2>2, <2>4, <2>5 DEF Page
  <2>7. Fresh(q)
    BY <1>2, <2>2, <2>4 DEF Fresh
  <2>8. Good(q, p)
    BY <1>2, <2>2, <2>4, <2>6, <2>7
  <2>9. QED
    BY <1>4, <2>2, <2>3, <2>8
<1>10. ASSUME NEW p \in Pages, NEW r \in page[p].refreshes, ShowRefresh(p, r) \/ RefreshFails(p, r)
       PROVE  page' \in [Pages -> PageType] /\ \A i \in Pages: Good(page'[i], i)
  <2>1. r \in RefreshType /\ r.clock \in 0..clock /\ r.newest \in BOOLEAN /\ r.bundle \in Answer
    BY <1>2 DEF Page, PageType, RefreshType
  <2>2. PICK op: op = Released(r, page[p].op)
    OBVIOUS
  <2>3. op \in OpType
    BY <1>2, <2>2 DEF Released, PageType, OpType, Idle
  <2>4. PICK bundle \in Answer, seen \in {page[p].seen, r.clock}, error \in BOOLEAN:
          /\ page' = [page EXCEPT ![p] = Ended(page[p], r, bundle, seen, error, op)]
          /\ clock' = clock
          /\ seen # page[p].seen => r.newest /\ r.phase # "STATUS"
    <3>1. CASE ShowRefresh(p, r)
      <4>1. PICK bundle: bundle = IF Applies(r) THEN r.bundle ELSE page[p].bundle
        OBVIOUS
      <4>2. PICK seen: seen = IF Applies(r) THEN r.clock ELSE page[p].seen
        OBVIOUS
      <4>3. PICK error: error = IF Applies(r) THEN FALSE ELSE page[p].error
        OBVIOUS
      <4>4. bundle \in Answer /\ seen \in {page[p].seen, r.clock} /\ error \in BOOLEAN
        BY <1>2, <2>1, <4>1, <4>2, <4>3 DEF PageType
      <4>5. page' = [page EXCEPT ![p] = Ended(page[p], r, bundle, seen, error, op)]
        <5>1. page' = [page EXCEPT ![p] = Ended(page[p], r,
                         IF Applies(r) THEN r.bundle ELSE page[p].bundle,
                         IF Applies(r) THEN r.clock ELSE page[p].seen,
                         IF Applies(r) THEN FALSE ELSE page[p].error, Released(r, page[p].op))]
          BY <1>1, <1>2, <3>1 DEF ShowRefresh, Ended, PageType
        <5>2. QED
          BY <2>2, <4>1, <4>2, <4>3, <5>1
      <4>6. seen # page[p].seen => r.newest /\ r.phase # "STATUS"
        BY <3>1, <4>2 DEF ShowRefresh, Applies
      <4>7. clock' = clock
        BY <3>1 DEF ShowRefresh, server
      <4>8. QED
        BY <4>4, <4>5, <4>6, <4>7
    <3>2. CASE RefreshFails(p, r)
      <4>1. page[p].bundle \in Answer /\ page[p].error \in BOOLEAN /\ Reports(r) \in BOOLEAN
        BY <1>2, <2>1 DEF PageType, Reports
      <4>2. PICK error \in BOOLEAN: error = (Reports(r) \/ page[p].error)
        OBVIOUS
      <4>3. page' = [page EXCEPT ![p] = [page[p] EXCEPT
                       !.refreshes = @ \ {r}, !.error = error, !.op = op]]
        BY <2>2, <3>2, <4>2 DEF RefreshFails
      <4>4. [page[p] EXCEPT !.refreshes = @ \ {r}, !.error = error, !.op = op] =
              Ended(page[p], r, page[p].bundle, page[p].seen, error, op)
        BY <1>2 DEF PageType, Ended
      <4>5. clock' = clock
        BY <3>2 DEF RefreshFails, server
      <4>6. QED
        BY <4>1, <4>3, <4>4, <4>5
    <3>3. QED
      BY <1>10, <3>1, <3>2
  <2>5. PICK q: q = Ended(page[p], r, bundle, seen, error, op)
    OBVIOUS
  <2>6. seen \in 0..clock /\ seen >= page[p].seen
    BY <1>2, <2>1, <2>4 DEF Page, Fresh
  <2>7. q \in PageType /\ q.seen = seen /\ q.refreshes = page[p].refreshes \ {r}
    <3>1. bundle \in Answer /\ seen \in Nat /\ error \in BOOLEAN /\ page[p] \in PageType
      BY <1>2, <2>6
    <3>2. QED
      BY <2>3, <2>5, <3>1, EndedOK
  <2>8. Page(q, clock)
    BY <1>2, <2>6, <2>7 DEF Page
  <2>9. Fresh(q)
    BY <1>2, <2>4, <2>7 DEF Fresh, Page
  <2>10. QED
    BY <1>4, <2>4, <2>5, <2>6, <2>7, <2>8, <2>9
<1>11. ASSUME NEW p \in Pages, NEW presses \in Nat, NEW load \in LoadType, NEW op \in OpType,
              NEW bundle \in Answer, NEW error \in BOOLEAN,
              page' = [page EXCEPT ![p] = Calm(page[p], presses, load, op, bundle, error)]
       PROVE  page' \in [Pages -> PageType] /\ \A i \in Pages: Good(page'[i], i)
  <2> PICK q: q = Calm(page[p], presses, load, op, bundle, error)
    OBVIOUS
  <2>1. q \in PageType /\ q.seen = page[p].seen /\ q.refreshes = page[p].refreshes
    BY <1>2, CalmOK
  <2>2. Good(q, p)
    BY <1>3, <2>1 DEF Page, Fresh
  <2>3. QED
    BY <1>4, <1>11, <2>2
<1>12. ASSUME NEW p \in Pages, Loading(p) \/ ResetAnswered(p)
                                 \/ \E kind \in Decisions \cup {"RESET", "START"}: Press(p, kind)
       PROVE  \E presses \in Nat, load \in LoadType, op \in OpType, bundle \in Answer, error \in BOOLEAN:
                page' = [page EXCEPT ![p] = Calm(page[p], presses, load, op, bundle, error)]
  <2>1. /\ page[p].presses \in Nat /\ page[p].load \in LoadType /\ page[p].op \in OpType
        /\ page[p].bundle \in Answer /\ page[p].error \in BOOLEAN /\ Idle \in OpType
        /\ None \in Answer /\ page[p].load.bundle \in Answer /\ page[p].load.run \in Nat
        /\ page[p] \in PageType
    BY <1>2 DEF PageType, OpType, Idle, Answer, LoadType
  <2>2. CASE LoadStatus(p)
    <3>1. PICK load: load = [page[p].load EXCEPT !.phase = "BUNDLE", !.run = run]
      OBVIOUS
    <3>2. load \in LoadType
      <4>1. run \in Nat
        BY <1>1 DEF TypeOK
      <4>2. /\ \A l \in LoadType: [l EXCEPT !.phase = "BUNDLE"] \in LoadType
            /\ \A l \in LoadType: [l EXCEPT !.run = run] \in LoadType
        BY <4>1 DEF LoadType
      <4>3. QED
        BY <2>1, <3>1, <4>2
    <3>3. page' = [page EXCEPT ![p] = Calm(page[p], page[p].presses, load, page[p].op,
                                           page[p].bundle, page[p].error)]
      BY <1>1, <2>1, <2>2, <3>1 DEF LoadStatus, PageType, Calm
    <3>4. QED
      BY <2>1, <3>2, <3>3
  <2>3. CASE LoadBundle(p)
    <3>1. PICK bundle: bundle = BundleOf(page[p].load.run)
      OBVIOUS
    <3>2. bundle \in Answer
      BY <3>1, BundleOK, ConsoleAssumption
    <3>3. PICK load: load = [page[p].load EXCEPT !.phase = "ANSWERED", !.bundle = bundle]
      OBVIOUS
    <3>4. load \in LoadType
      BY <2>1, <3>2, <3>3 DEF LoadType
    <3>5. page' = [page EXCEPT ![p] = Calm(page[p], page[p].presses, load, page[p].op,
                                           page[p].bundle, page[p].error)]
      BY <1>1, <2>1, <2>3, <3>1, <3>3 DEF LoadBundle, PageType, Calm
    <3>6. QED
      BY <2>1, <3>4, <3>5
  <2>4. CASE LoadShows(p) \/ LoadFails(p)
    <3>1. Loaded \in LoadType
      BY <2>1 DEF Loaded, NewLoad, LoadType
    <3>2. \/ page' = [page EXCEPT ![p] = Calm(page[p], page[p].presses, Loaded, page[p].op,
                                              page[p].load.bundle, page[p].error)]
          \/ page' = [page EXCEPT ![p] = Calm(page[p], page[p].presses, Loaded, page[p].op,
                                              page[p].bundle, TRUE)]
      BY <1>1, <2>1, <2>4 DEF LoadShows, LoadFails, PageType, Calm
    <3>3. QED
      BY <2>1, <3>1, <3>2
  <2>5. CASE ResetAnswered(p)
    <3>1. page' = [page EXCEPT ![p] = Calm(page[p], page[p].presses, page[p].load, Idle,
                                           None, page[p].error)]
      BY <1>1, <2>1, <2>5 DEF ResetAnswered, PageType, Calm
    <3>2. QED
      BY <2>1, <3>1
  <2>6. ASSUME NEW kind \in Decisions \cup {"RESET", "START"}, Press(p, kind)
        PROVE  \E presses \in Nat, op \in OpType:
                 page' = [page EXCEPT ![p] = Calm(page[p], presses, page[p].load, op, page[p].bundle, FALSE)]
    <3> PICK op: op = [kind |-> kind, phase |-> "SENT",
                       shown |-> IF kind \in Decisions THEN page[p].bundle.run ELSE 0]
      OBVIOUS
    <3>1. op \in OpType
      BY <2>1, <2>6 DEF Press, OpType, BundleRecord, Answer
    <3>2. page' = [page EXCEPT ![p] = Calm(page[p], page[p].presses + 1, page[p].load, op,
                                           page[p].bundle, FALSE)]
      BY <1>1, <2>1, <2>6 DEF Press, PageType, Calm
    <3>3. page[p].presses + 1 \in Nat
      BY <2>1
    <3>4. QED
      BY <3>1, <3>2, <3>3
  <2>7. QED
    BY <1>12, <2>1, <2>2, <2>3, <2>4, <2>5, <2>6 DEF Loading
<1>13. page' \in [Pages -> PageType] /\ \A i \in Pages: Good(page'[i], i)
  <2>1. CASE ServerSteps
    <3>1. \E client \in Clients: Accepted(client) \/ (client # Other /\ Refused(client))
      BY <2>1 DEF ServerSteps, Serves, Reset, ResetIdle, Start, StartRefused, Decides, Decide, DecideAgain,
         DecideRefused
    <3>2. QED
      BY <1>7, <3>1
  <2>2. CASE PageSteps
    <3>1. PICK p \in Pages:
            \/ Poll(p) \/ Reconnect(p) \/ HandleEvent(p) \/ Refreshing(p) \/ Loading(p)
            \/ Answered(p)
            \/ \E kind \in Decisions \cup {"RESET", "START"}: Press(p, kind)
      BY <2>2 DEF PageSteps
    <3>2. CASE Poll(p) \/ Reconnect(p)
      <4>1. page' = page
        BY <3>2 DEF Poll, Reconnect
      <4>2. QED
        BY <1>1, <1>3, <4>1
    <3>3. CASE HandleEvent(p) \/ OpAnswered(p)
      BY <1>8, <3>3
    <3>4. CASE Refreshing(p)
      BY <1>9, <1>10, <3>4 DEF Refreshing
    <3>5. CASE CallFails(p)
      <4>1. p # Other /\ p \in Clients /\ Refused(p)
        BY <1>1, <3>5 DEF CallFails, Clients
      <4>2. QED
        BY <1>7, <4>1
    <3>6. CASE \/ Loading(p) \/ ResetAnswered(p)
               \/ \E kind \in Decisions \cup {"RESET", "START"}: Press(p, kind)
      <4>1. PICK presses \in Nat, load \in LoadType, op \in OpType, bundle \in Answer, error \in BOOLEAN:
              page' = [page EXCEPT ![p] = Calm(page[p], presses, load, op, bundle, error)]
        BY <1>12, <3>6
      <4>2. QED
        BY <1>11, <4>1
    <3>7. QED
      BY <3>1, <3>2, <3>3, <3>4, <3>5, <3>6 DEF Answered
  <2>3. QED
    BY <1>1, <1>3, <2>1, <2>2 DEF Next, vars
<1>14. QED
  BY <1>13 DEF PagesOK

-----------------------------------------------------------------------------
(* The server and the streams *)

\* The events that the server publishes.
Events == {"replay.reset", "fact.confirmed", "incident.updated"}

\* A step of the server changes its state within its types.
LEMMA ServerStep ==
    ASSUME TypeOK, [Next]_vars
    PROVE  /\ clock' \in 0..MaxChanges /\ run' \in 0..clock' /\ stage' \in Stages
           /\ feed' \in Seq(Events) /\ answers' \subseteq (1..MaxChanges) \X Decisions
           /\ decisions' \in Seq([run: 1..MaxChanges, shown: 1..MaxChanges])
<1>1. /\ clock \in 0..MaxChanges /\ run \in 0..clock /\ stage \in Stages /\ feed \in Seq(Events)
      /\ answers \subseteq (1..MaxChanges) \X Decisions /\ MaxChanges \in Nat
      /\ decisions \in Seq([run: 1..MaxChanges, shown: 1..MaxChanges])
  BY ConsoleAssumption DEF TypeOK, Events
<1>2. ASSUME Publish PROVE feed' \in Seq(Events)
  <2>1. Published \in Seq(Events)
    BY DEF Published, Events
  <2>2. QED
    BY <1>1, <1>2, <2>1, ConcatProperties DEF Publish
<1>3. ASSUME NEW client \in Clients, Reset(client)
      PROVE  /\ clock' \in 0..MaxChanges /\ run' \in 0..clock' /\ stage' \in Stages
             /\ feed' \in Seq(Events) /\ answers' \subseteq (1..MaxChanges) \X Decisions
             /\ decisions' \in Seq([run: 1..MaxChanges, shown: 1..MaxChanges])
  <2>1. <<"replay.reset">> \in Seq(Events)
    BY DEF Events
  <2>2. QED
    <3>1. clock' = clock + 1 /\ clock < MaxChanges /\ run' = 0 /\ stage' = "IDLE" /\ answers' = {}
      BY <1>3 DEF Reset
    <3>2. feed' \in Seq(Events) /\ decisions' = decisions
      BY <1>3, <2>1 DEF Reset
    <3>3. clock' \in 0..MaxChanges /\ run' \in 0..clock'
      BY <1>1, <3>1
    <3>4. QED
      BY <1>1, <3>1, <3>2, <3>3 DEF Stages
<1>4. ASSUME NEW client \in Clients, Start(client)
      PROVE  /\ clock' \in 0..MaxChanges /\ run' \in 0..clock' /\ stage' \in Stages
             /\ feed' \in Seq(Events) /\ answers' \subseteq (1..MaxChanges) \X Decisions
             /\ decisions' \in Seq([run: 1..MaxChanges, shown: 1..MaxChanges])
  BY <1>1, <1>2, <1>4 DEF Start, Stages
<1>5. ASSUME NEW client \in Clients, NEW shown, NEW decision \in Decisions, Decide(client, shown, decision)
      PROVE  /\ clock' \in 0..MaxChanges /\ run' \in 0..clock' /\ stage' \in Stages
             /\ feed' \in Seq(Events) /\ answers' \subseteq (1..MaxChanges) \X Decisions
             /\ decisions' \in Seq([run: 1..MaxChanges, shown: 1..MaxChanges])
  <2>1. /\ run \in 1..MaxChanges /\ shown = run /\ clock' = clock + 1 /\ clock < MaxChanges
        /\ run' = run /\ stage' = "ENDED" /\ answers' = answers \cup {<<shown, decision>>}
        /\ decisions' = Append(decisions, [run |-> run, shown |-> shown])
    BY <1>1, <1>5 DEF Decide, IsCurrent
  <2>2. [run |-> run, shown |-> shown] \in [run: 1..MaxChanges, shown: 1..MaxChanges]
    BY <2>1
  <2>3. decisions' \in Seq([run: 1..MaxChanges, shown: 1..MaxChanges])
    BY <1>1, <2>1, <2>2, AppendProperties
  <2>4. feed' \in Seq(Events)
    BY <1>2, <1>5 DEF Decide
  <2>5. QED
    BY <1>1, <2>1, <2>3, <2>4 DEF Stages
<1>6. CASE UNCHANGED server
  BY <1>1, <1>6 DEF server
<1>7. CASE ServerSteps
  BY <1>3, <1>4, <1>5, <1>6, <1>7 DEF ServerSteps, Serves, ResetIdle, StartRefused, Decides,
     DecideAgain, DecideRefused
<1>8. QED
  BY <1>6, <1>7, PagesOnly DEF Next, vars

\* What a stream sends from the feed can be counted.
LEMMA SinceIsFinite ==
    ASSUME NEW index \in Nat, feed \in Seq(Events)
    PROVE  Cardinality({n \in DOMAIN Since(index): Since(index)[n] \in Subscribed}) \in Nat
<1>1. Since(index) \in Seq(Events)
  <2>1. \A i \in (index + 1)..Len(feed): feed[i] \in Events
    BY ElementOfSeq
  <2>2. QED
    BY <2>1, SubSeqProperties DEF Since
<1> PICK new: new = Since(index)
  OBVIOUS
<1>2. IsFiniteSet(DOMAIN new)
  BY <1>1, FS_Interval
<1>3. IsFiniteSet({n \in DOMAIN new: new[n] \in Subscribed})
  BY <1>2, FS_Subset
<1>4. QED
  BY <1>3, FS_CardinalityType

\* A step keeps the streams' types.
LEMMA StreamStep ==
    ASSUME TypeOK, [Next]_vars
    PROVE  stream' \in [Pages -> StreamType]
<1>1. /\ clock \in 0..MaxChanges /\ MaxChanges \in Nat /\ stream \in [Pages -> StreamType]
      /\ feed \in Seq(Events) /\ Len(feed) \in Nat
  BY ConsoleAssumption DEF TypeOK, Events
<1>2. ASSUME NEW due \in [Pages -> 0..MaxChanges],
             stream' = [p \in Pages |-> [stream[p] EXCEPT !.due = due[p]]]
      PROVE  stream' \in [Pages -> StreamType]
  <2>1. \A p \in Pages: [stream[p] EXCEPT !.due = due[p]] \in StreamType
    BY <1>1 DEF StreamType
  <2>2. QED
    BY <1>2, <2>1
<1>3. ASSUME Publish, clock < MaxChanges PROVE stream' \in [Pages -> StreamType]
  <2> DEFINE due == [p \in Pages |-> IF stream[p].synced THEN clock + 1 ELSE 0]
  <2>1. due \in [Pages -> 0..MaxChanges]
    BY <1>1, <1>3
  <2>2. stream' = [p \in Pages |-> [stream[p] EXCEPT !.due = due[p]]]
    BY <1>3 DEF Publish
  <2> HIDE DEF due
  <2>3. QED
    BY <1>2, <2>1, <2>2
<1>4. ASSUME NEW client \in Clients, Reset(client)
      PROVE  stream' \in [Pages -> StreamType]
  <2>1. \A p \in Pages: [stream[p] EXCEPT !.synced = FALSE, !.due = 0] \in StreamType
    <3>1. \A s \in StreamType: [s EXCEPT !.synced = FALSE] \in StreamType
      BY DEF StreamType
    <3>2. \A s \in StreamType: [s EXCEPT !.due = 0] \in StreamType
      <4>1. 0 \in 0..MaxChanges
        BY <1>1
      <4>2. QED
        BY <4>1 DEF StreamType
    <3>3. QED
      BY <1>1, <3>1, <3>2
  <2>2. QED
    BY <1>4, <2>1 DEF Reset
<1>5. CASE ServerSteps
  <2>1. ASSUME NEW client \in Clients,
               ResetIdle(client) \/ Start(client) \/ Decides(client) \/ StartRefused(client)
        PROVE  stream' = stream \/ (Publish /\ clock < MaxChanges)
    BY <2>1 DEF ResetIdle, Start, StartRefused, Decides, Decide, DecideAgain, DecideRefused
  <2>2. QED
    BY <1>1, <1>3, <1>4, <1>5, <2>1 DEF ServerSteps, Serves
<1>6. ASSUME NEW p \in Pages, Poll(p)
      PROVE  stream' \in [Pages -> StreamType]
  <2>1. stream[p] \in StreamType /\ stream[p].index \in Nat /\ stream[p].pending \in Nat
    BY <1>1 DEF StreamType
  <2> PICK count \in Nat:
        count = Cardinality({n \in DOMAIN Since(stream[p].index): Since(stream[p].index)[n] \in Subscribed})
    BY <1>1, <2>1, SinceIsFinite
  <2>2. \A s \in StreamType: [s EXCEPT !.index = Len(feed)] \in StreamType
    BY <1>1 DEF StreamType
  <2>3. \A s \in StreamType: [s EXCEPT !.synced = TRUE] \in StreamType
    BY DEF StreamType
  <2>4. \A s \in StreamType: [s EXCEPT !.pending = stream[p].pending + count] \in StreamType
    BY <2>1 DEF StreamType
  <2> PICK sent: sent = [stream[p] EXCEPT !.index = Len(feed), !.synced = TRUE,
                                          !.pending = stream[p].pending + count]
    OBVIOUS
  <2>5. sent \in StreamType
    BY <2>1, <2>2, <2>3, <2>4
  <2>6. stream' = [stream EXCEPT ![p] = sent]
    BY <1>1, <1>6, <2>1 DEF Poll, StreamType
  <2>7. QED
    BY <1>1, <2>5, <2>6
<1>7. ASSUME NEW p \in Pages, Reconnect(p)
      PROVE  stream' \in [Pages -> StreamType]
  <2>1. stream[p] \in StreamType /\ stream[p].lost \in Nat
    BY <1>1 DEF StreamType
  <2>2. \A s \in StreamType: [s EXCEPT !.lost = stream[p].lost + 1] \in StreamType
    BY <2>1 DEF StreamType
  <2>3. \A s \in StreamType: [s EXCEPT !.index = 0] \in StreamType
    BY DEF StreamType
  <2>4. \A s \in StreamType: [s EXCEPT !.synced = TRUE] \in StreamType
    BY DEF StreamType
  <2> PICK new: new = [stream[p] EXCEPT !.lost = stream[p].lost + 1, !.index = 0, !.synced = TRUE]
    OBVIOUS
  <2>5. new \in StreamType
    BY <2>1, <2>2, <2>3, <2>4
  <2>6. stream' = [stream EXCEPT ![p] = new]
    BY <1>1, <1>7, <2>1 DEF Reconnect, StreamType
  <2>7. QED
    BY <1>1, <2>5, <2>6
<1>8. ASSUME NEW p \in Pages, HandleEvent(p)
      PROVE  stream' \in [Pages -> StreamType]
  <2>1. stream[p] \in StreamType /\ stream[p].pending - 1 \in Nat
    BY <1>1, <1>8 DEF HandleEvent, StreamType
  <2>2. [stream[p] EXCEPT !.pending = stream[p].pending - 1] \in StreamType
    BY <2>1 DEF StreamType
  <2>3. stream' = [stream EXCEPT ![p] = [stream[p] EXCEPT !.pending = stream[p].pending - 1]]
    BY <1>1, <1>8 DEF HandleEvent
  <2>4. QED
    BY <1>1, <2>2, <2>3
<1>9. CASE PageSteps
  <2>1. ASSUME NEW p \in Pages, Refreshing(p) \/ Loading(p) \/ Answered(p)
        PROVE  stream' = stream
    BY <2>1 DEF Refreshing, ReadStatus, ReadBundle, ShowRefresh, RefreshFails, Loading, LoadStatus,
       LoadBundle, LoadShows, LoadFails, Answered, ResetAnswered, OpAnswered, CallFails
  <2>2. ASSUME NEW p \in Pages, NEW kind, Press(p, kind)
        PROVE  stream' = stream
    BY <2>2 DEF Press
  <2>3. QED
    BY <1>1, <1>6, <1>7, <1>8, <1>9, <2>1, <2>2 DEF PageSteps
<1>10. QED
  BY <1>1, <1>5, <1>9 DEF Next, vars

-----------------------------------------------------------------------------
(* The theorems *)

\* The console and the server keep their types, whatever arrives in what order.
THEOREM TypeCorrect == Spec => [](TypeOK /\ PagesOK)
<1>1. Init => TypeOK /\ PagesOK
  <2>1. ASSUME Init PROVE TypeOK /\ PagesOK
    <3>1. NewPage \in PageType /\ NewPage.seen = 0 /\ NewPage.refreshes = {}
      BY DEF NewPage, PageType, NewLoad, LoadType, Idle, OpType, Answer
    <3>2. NewStream \in StreamType
      BY ConsoleAssumption DEF NewStream, StreamType
    <3>3. <<>> \in Seq(Events) /\ <<>> \in Seq([run: 1..MaxChanges, shown: 1..MaxChanges])
      BY EmptySeq
    <3>4. TypeOK
      BY <2>1, <3>1, <3>2, <3>3, ConsoleAssumption DEF Init, TypeOK, Stages, Events
    <3>5. PagesOK
      BY <2>1, <3>1, <3>4 DEF Init, PagesOK, Page, Fresh
    <3>6. QED
      BY <3>4, <3>5
  <2>2. QED
    BY <2>1
<1>2. TypeOK /\ PagesOK /\ [Next]_vars => TypeOK' /\ PagesOK'
  <2>1. ASSUME TypeOK, PagesOK, [Next]_vars PROVE TypeOK' /\ PagesOK'
    BY <2>1, PagesStep, ServerStep, StreamStep DEF TypeOK, PagesOK, Page, Events
  <2>2. QED
    BY <2>1
<1>3. QED
  BY <1>1, <1>2, PTL DEF Spec

\* Answers that arrive out of order never take a page back to an older status
\* (refreshSequence in App.tsx).
THEOREM RefreshesNeverGoBack == Spec => RefreshesAdvance
<1>1. TypeOK /\ PagesOK /\ [Next]_vars => [\A p \in Pages: page'[p].seen >= page[p].seen]_vars
  BY PagesStep
<1>2. QED
  BY <1>1, TypeCorrect, PTL DEF Spec, RefreshesAdvance

\* The runs decided so far are not the one that waits for a decision.
DecidedInv ==
    /\ \A i \in DOMAIN decisions: decisions[i].run <= clock
    /\ stage = "WAITING_APPROVAL" => \A i \in DOMAIN decisions: decisions[i].run # run
    /\ DecisionsAsShown

\* A decision is recorded for the run that was shown, once for each run.
LEMMA DecidedStep ==
    ASSUME TypeOK, DecidedInv, [Next]_vars
    PROVE  DecidedInv'
<1>1. /\ clock \in Nat /\ run \in 0..clock /\ Len(decisions) \in Nat
      /\ DOMAIN decisions = 1..Len(decisions)
      /\ \A i \in DOMAIN decisions: decisions[i].run \in Nat
  <2>1. clock \in Nat /\ run \in 0..clock /\ decisions \in Seq([run: 1..MaxChanges, shown: 1..MaxChanges])
    BY ConsoleAssumption DEF TypeOK
  <2>2. DOMAIN decisions = 1..Len(decisions) /\ Len(decisions) \in Nat
    BY <2>1, LenProperties
  <2>3. \A i \in DOMAIN decisions: decisions[i] \in [run: 1..MaxChanges, shown: 1..MaxChanges]
    BY <2>1, <2>2, ElementOfSeq
  <2>4. QED
    BY <2>1, <2>2, <2>3
<1>2. ASSUME NEW client \in Clients, Reset(client) \/ Start(client)
      PROVE  DecidedInv'
  <2>1. /\ decisions' = decisions /\ clock' = clock + 1
        /\ stage' = "WAITING_APPROVAL" => run' = clock + 1
    BY <1>2 DEF Reset, Start
  <2>2. \A i \in DOMAIN decisions: decisions[i].run <= clock
    BY DEF DecidedInv
  <2>3. DecisionsAsShown'
    BY <2>1 DEF DecidedInv, DecisionsAsShown
  <2>4. QED
    BY <1>1, <2>1, <2>2, <2>3 DEF DecidedInv
<1>3. ASSUME NEW client \in Clients, NEW shown, NEW decision \in Decisions, Decide(client, shown, decision)
      PROVE  DecidedInv'
  <2>1. /\ stage = "WAITING_APPROVAL" /\ stage' = "ENDED" /\ shown = run /\ clock' = clock + 1
        /\ decisions' = Append(decisions, [run |-> run, shown |-> shown])
    BY <1>3 DEF Decide, IsCurrent
  <2>2. /\ DOMAIN decisions' = DOMAIN decisions \cup {Len(decisions) + 1}
        /\ decisions'[Len(decisions) + 1] = [run |-> run, shown |-> shown]
        /\ \A i \in DOMAIN decisions: decisions'[i] = decisions[i]
    <3>c. decisions \in Seq([run: 1..MaxChanges, shown: 1..MaxChanges])
      BY DEF TypeOK
    <3>e. [run: 1..MaxChanges, shown: 1..MaxChanges]
             \subseteq [run: 1..MaxChanges, shown: 1..MaxChanges] \cup {[run |-> run, shown |-> shown]}
      OBVIOUS
    <3>1. decisions \in Seq([run: 1..MaxChanges, shown: 1..MaxChanges] \cup {[run |-> run, shown |-> shown]})
      BY <3>c, <3>e, SeqMonotonic
    <3>a. PICK d: d = [run |-> run, shown |-> shown]
      OBVIOUS
    <3>b. PICK S: S = [run: 1..MaxChanges, shown: 1..MaxChanges] \cup {[run |-> run, shown |-> shown]}
      OBVIOUS
    <3>2. decisions \in Seq(S) /\ d \in S /\ decisions' = Append(decisions, d)
      BY <2>1, <3>1, <3>a, <3>b
    <3>3. /\ DOMAIN decisions = 1..Len(decisions) /\ Len(decisions) \in Nat
          /\ Len(decisions') = Len(decisions) + 1 /\ decisions' \in Seq(S)
          /\ decisions'[Len(decisions) + 1] = d
          /\ \A i \in 1..Len(decisions): decisions'[i] = decisions[i]
      BY <3>2, AppendProperties, LenProperties
    <3>4. DOMAIN decisions' = 1..Len(decisions')
      BY <3>3, LenProperties
    <3>5. QED
      BY <3>3, <3>4, <3>a
  <2>3. QED
    BY <1>1, <2>1, <2>2 DEF DecidedInv, DecisionsAsShown
<1>4. CASE UNCHANGED server
  BY <1>4 DEF server, DecidedInv, DecisionsAsShown
<1>5. CASE ServerSteps
  BY <1>2, <1>3, <1>4, <1>5 DEF ServerSteps, Serves, ResetIdle, StartRefused, Decides,
     DecideAgain, DecideRefused
<1>6. QED
  BY <1>4, <1>5, PagesOnly DEF Next, vars

\* A decision that is carried out is about the run that was shown when it was
\* taken, and a run is decided once, whoever decides (decide()).
THEOREM DecisionsAreAsShown == Spec => []DecisionsAsShown
<1>1. Init => DecidedInv
  BY DEF Init, DecidedInv, DecisionsAsShown
<1>2. TypeOK /\ DecidedInv /\ [Next]_vars => DecidedInv'
  BY DecidedStep
<1>3. DecidedInv => DecisionsAsShown
  BY DEF DecidedInv
<1>4. QED
  BY <1>1, <1>2, <1>3, TypeCorrect, PTL DEF Spec

=============================================================================
