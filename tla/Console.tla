------------------------------ MODULE Console ------------------------------
(***************************************************************************)
(* The browser console (frontend/src/App.tsx) over the HTTP API            *)
(* (api/routes.py), the runtime and its event feed (application/demo.py):  *)
(* a page asks for the status and then for the bundle of the incident, an  *)
(* event stream tells it when to ask again, and its buttons reset, start   *)
(* and decide runs, as any other client of the API may.                    *)
(*                                                                         *)
(* Requests and answers take time: the server's step and the step in which *)
(* the page uses the answer are apart, and either may be lost.  The data   *)
(* of a run are left out: clock counts the changes, and what is read       *)
(* carries its value.                                                      *)
(***************************************************************************)
EXTENDS Integers, SequencesExt

CONSTANTS
    None,
    Pages,          \* pages of the console
    Other,          \* the other clients of the API
    Decisions,      \* the decisions on a run, of ApprovalDecision
    MaxChanges,     \* bound on the changes: resets, starts and decisions
    MaxInFlight,    \* bound on the refreshes of a page in flight
    MaxPageActions  \* bound on the buttons pressed and the connections lost of a page

ASSUME ConsoleAssumption ==
    /\ Other \notin Pages /\ None \notin Pages
    /\ MaxChanges \in Nat /\ MaxInFlight \in Nat \ {0} /\ MaxPageActions \in Nat

VARIABLES
    clock,      \* the number of changes so far
    run,        \* the run in business.db and in DemoRuntime._incident_id, named for
                \* the change that started it; 0: none
    stage,      \* DemoRuntime._stage; ENDED stands for what decided runs end in
    feed,       \* EventFeed._events
    answers,    \* DemoRuntime._request_results: the run and the decision of each
    decisions,  \* history: [run, shown] of the decisions carried out
    stream,     \* [Pages -> stream state], see NewStream
    page        \* [Pages -> page state], see NewPage

server == <<clock, run, stage, feed, answers, decisions>>
vars == <<server, stream, page>>

Clients == Pages \cup {Other}

\* Of each event type that the page listens for, incident.updated stands for all:
\* it ends what a start or a decision publishes.
Published == <<"fact.confirmed", "incident.updated">>
Subscribed == {"incident.updated"}

\* A stream: the connections lost, the cursor of the server's generator, the
\* subscribed events it sent that the page has not handled, and as history whether it
\* looked at the feed since the feed was last cleared, and the last change
\* published since then.
NewStream ==
    [lost |-> 0, index |-> 0, pending |-> 0, synced |-> TRUE, due |-> 0]

\* A page: the buttons pressed, the bundle it shows, whether it shows an error, the
\* load that opened it, its refreshes in flight, the operation of its busy button,
\* and (history) the clock of the status that its last refresh showed.
NewLoad == [phase |-> "STATUS", run |-> 0, bundle |-> None]
Idle == [kind |-> "NONE", phase |-> "NONE", shown |-> 0]
NewPage ==
    [presses |-> 0, bundle |-> None, error |-> FALSE, load |-> NewLoad, refreshes |-> {},
     op |-> Idle, seen |-> 0]

Init ==
    /\ clock = 0 /\ run = 0 /\ stage = "IDLE"
    /\ feed = <<>> /\ answers = {} /\ decisions = <<>>
    /\ stream = [p \in Pages |-> NewStream]
    /\ page = [p \in Pages |-> NewPage]

-----------------------------------------------------------------------------
(* The runtime.  status() takes no lock; the rest does. *)

\* incident_bundle: NOT_FOUND unless business.db holds the incident.
BundleOf(r) == IF r = run /\ run # 0 THEN [run |-> run, stage |-> stage] ELSE None

\* A page without an incident asks for no bundle.
CanShow(r) == r = 0 \/ BundleOf(r) # None

Sent(client, kind) ==
    client \in Pages => page[client].op.kind = kind /\ page[client].op.phase = "SENT"

\* The call of a client returns: with an answer, or with an error, which ends it.
Accepted(client) ==
    page' = IF client = Other THEN page ELSE [page EXCEPT ![client].op.phase = "ACCEPTED"]
Refused(client) ==
    page' = [page EXCEPT ![client].op = Idle, ![client].error = TRUE]

\* The feed grows by what a start or a decision publishes.
Publish ==
    /\ feed' = feed \o Published
    /\ stream' = [p \in Pages |->
         [stream[p] EXCEPT !.due = IF stream[p].synced THEN clock + 1 ELSE 0]]

Reset(client) ==
    /\ run # 0 /\ clock < MaxChanges
    /\ Sent(client, "RESET")
    /\ clock' = clock + 1
    /\ run' = 0 /\ stage' = "IDLE"
    /\ answers' = {}
    /\ feed' = <<"replay.reset">>
    /\ stream' = [p \in Pages |-> [stream[p] EXCEPT !.synced = FALSE, !.due = 0]]
    /\ Accepted(client)
    /\ UNCHANGED decisions

\* The reset of an idle runtime changes nothing that is left in here.
ResetIdle(client) ==
    /\ client # Other
    /\ run = 0
    /\ Sent(client, "RESET")
    /\ Accepted(client)
    /\ UNCHANGED <<server, stream>>

\* A guarded run; an autonomous one ends without a decision.
Start(client) ==
    /\ stage = "IDLE" /\ clock < MaxChanges
    /\ Sent(client, "START")
    /\ clock' = clock + 1
    /\ run' = clock + 1
    /\ stage' = "WAITING_APPROVAL"
    /\ Publish
    /\ Accepted(client)
    /\ UNCHANGED <<answers, decisions>>

StartRefused(client) ==
    /\ client # Other
    /\ Sent(client, "START") /\ stage # "IDLE"
    /\ Refused(client)
    /\ UNCHANGED <<server, stream>>

IsCurrentAnyRun(shown) == run # 0
\* decide(): the request is found by its id and its digest must be the one shown.
IsCurrent(shown) == shown = run /\ run # 0

Decide(client, shown, decision) ==
    /\ clock < MaxChanges
    /\ <<shown, decision>> \notin answers
    /\ stage = "WAITING_APPROVAL"
    /\ IsCurrent(shown)
    /\ clock' = clock + 1
    /\ stage' = "ENDED"
    /\ answers' = answers \cup {<<shown, decision>>}
    /\ decisions' = Append(decisions, [run |-> run, shown |-> shown])
    /\ Publish
    /\ Accepted(client)
    /\ UNCHANGED run

\* The answer remembered for the request id, whatever the stage.
DecideAgain(client, shown, decision) ==
    /\ client # Other
    /\ <<shown, decision>> \in answers
    /\ Accepted(client)
    /\ UNCHANGED <<server, stream>>

DecideRefused(client, shown, decision) ==
    /\ client # Other
    /\ <<shown, decision>> \notin answers
    /\ stage # "WAITING_APPROVAL" \/ ~IsCurrent(shown)
    /\ Refused(client)
    /\ UNCHANGED <<server, stream>>

Decides(client) ==
    \E decision \in Decisions:
        LET shown == IF client = Other THEN run ELSE page[client].op.shown IN
        /\ Sent(client, decision)
        /\ \/ Decide(client, shown, decision)
           \/ DecideAgain(client, shown, decision)
           \/ DecideRefused(client, shown, decision)

-----------------------------------------------------------------------------
(* The event stream *)

\* EventFeed.since: nothing when the cursor is beyond a feed that was cleared.
Since(index) == SubSeq(feed, index + 1, Len(feed))

\* The generator of GET /events looks every 0.25 s.
Poll(p) ==
    /\ stream[p].index # Len(feed) \/ ~stream[p].synced
    /\ LET new == Since(stream[p].index) IN
       stream' = [stream EXCEPT ![p].index = Len(feed), ![p].synced = TRUE,
         ![p].pending = @ + Cardinality({n \in DOMAIN new: new[n] \in Subscribed})]
    /\ UNCHANGED <<server, page>>

MayAct(p) == page[p].presses + stream[p].lost < MaxPageActions

\* The connection is lost, and EventSource makes a new one, which begins at 0.
Reconnect(p) ==
    /\ MayAct(p)
    /\ stream' = [stream EXCEPT ![p].lost = @ + 1, ![p].index = 0, ![p].synced = TRUE]
    /\ UNCHANGED <<server, page>>

-----------------------------------------------------------------------------
(* The page *)

SupersededNone(refreshes) == refreshes
\* ++refreshSequence.current: newest is sequence === refreshSequence.current.
Superseded(refreshes) == {[r EXCEPT !.newest = FALSE]: r \in refreshes}

NewRefresh(own) ==
    [newest |-> TRUE, own |-> own, phase |-> "STATUS", clock |-> 0, run |-> 0, bundle |-> None]

CanRefresh(p) == Cardinality(page[p].refreshes) < MaxInFlight

\* An event the page listens for calls refresh().
HandleEvent(p) ==
    /\ stream[p].pending > 0
    /\ CanRefresh(p)
    /\ stream' = [stream EXCEPT ![p].pending = @ - 1]
    /\ page' = [page EXCEPT ![p].refreshes = Superseded(@) \cup {NewRefresh(FALSE)}]
    /\ UNCHANGED server

\* When a refresh that a button awaits ends, the button is free again.
Released(r, op) == IF r.own THEN Idle ELSE op

\* The server answers a refresh: with the status, and then with the bundle.
ReadStatus(p, r) ==
    /\ r.phase = "STATUS"
    /\ LET read == [r EXCEPT !.phase = "BUNDLE", !.clock = clock, !.run = run] IN
       page' = [page EXCEPT ![p].refreshes = (@ \ {r}) \cup {read}]
    /\ UNCHANGED <<server, stream>>

ReadBundle(p, r) ==
    /\ r.phase = "BUNDLE" /\ CanShow(r.run)
    /\ LET read == [r EXCEPT !.phase = "ANSWERED", !.bundle = BundleOf(r.run)] IN
       page' = [page EXCEPT ![p].refreshes = (@ \ {r}) \cup {read}]
    /\ UNCHANGED <<server, stream>>

AppliesAlways(r) == TRUE
\* Only the newest refresh shows its answer.
Applies(r) == r.newest

\* The answers have arrived.
ShowRefresh(p, r) ==
    /\ r.phase = "ANSWERED"
    /\ page' = [page EXCEPT ![p].refreshes = @ \ {r},
                            ![p].bundle = IF Applies(r) THEN r.bundle ELSE @,
                            ![p].seen = IF Applies(r) THEN r.clock ELSE @,
                            ![p].error = IF Applies(r) THEN FALSE ELSE @,
                            ![p].op = Released(r, @)]
    /\ UNCHANGED <<server, stream>>

ReportsNothing(r) == FALSE
\* An error is thrown again, and shown by who called refresh(), in the newest alone.
Reports(r) == r.newest

\* A request fails or its answer is lost, at any time; of an incident that is gone
\* there is no bundle.
RefreshFails(p, r) ==
    /\ page' = [page EXCEPT ![p].refreshes = @ \ {r},
                            ![p].error = Reports(r) \/ @,
                            ![p].op = Released(r, @)]
    /\ UNCHANGED <<server, stream>>

\* The load that opens the page reads the status and the bundle, and shows what it
\* has read whatever a refresh has shown in the meantime.
LoadStatus(p) ==
    /\ page[p].load.phase = "STATUS"
    /\ page' = [page EXCEPT ![p].load = [@ EXCEPT !.phase = "BUNDLE", !.run = run]]
    /\ UNCHANGED <<server, stream>>

LoadBundle(p) ==
    LET load == page[p].load IN
    /\ load.phase = "BUNDLE" /\ CanShow(load.run)
    /\ page' = [page EXCEPT ![p].load = [load EXCEPT !.phase = "ANSWERED", !.bundle = BundleOf(load.run)]]
    /\ UNCHANGED <<server, stream>>

Loaded == [NewLoad EXCEPT !.phase = "DONE"]

LoadShows(p) ==
    /\ page[p].load.phase = "ANSWERED"
    /\ page' = [page EXCEPT ![p].bundle = page[p].load.bundle, ![p].load = Loaded]
    /\ UNCHANGED <<server, stream>>

LoadFails(p) ==
    /\ page[p].load.phase # "DONE"
    /\ page' = [page EXCEPT ![p].error = TRUE, ![p].load = Loaded]
    /\ UNCHANGED <<server, stream>>

\* The buttons.  Reset is always there, Start while no bundle is shown, and the
\* decision, for an APPROVER, while the bundle waits for it.
Press(p, kind) ==
    LET bundle == page[p].bundle IN
    /\ page[p].op = Idle /\ MayAct(p)
    /\ kind = "START" => bundle = None
    /\ kind \in Decisions => bundle # None /\ bundle.stage = "WAITING_APPROVAL"
    /\ page' = [page EXCEPT ![p].presses = @ + 1, ![p].error = FALSE, ![p].op =
         [kind |-> kind, phase |-> "SENT", shown |-> IF kind \in Decisions THEN bundle.run ELSE 0]]
    /\ UNCHANGED <<server, stream>>

\* The answer to a reset clears the bundle, without superseding a refresh, and
\* the other operations await a refresh of their own.
ResetAnswered(p) ==
    /\ page[p].op.phase = "ACCEPTED" /\ page[p].op.kind = "RESET"
    /\ page' = [page EXCEPT ![p].op = Idle, ![p].bundle = None]
    /\ UNCHANGED <<server, stream>>

OpAnswered(p) ==
    /\ page[p].op.phase = "ACCEPTED" /\ page[p].op.kind # "RESET"
    /\ CanRefresh(p)
    /\ page' = [page EXCEPT ![p].op.phase = "REFRESHING",
                            ![p].refreshes = Superseded(@) \cup {NewRefresh(TRUE)}]
    /\ UNCHANGED <<server, stream>>

\* The call of a button fails on its way, before the server has acted or after.
CallFails(p) ==
    /\ page[p].op.phase \in {"SENT", "ACCEPTED"}
    /\ Refused(p)
    /\ UNCHANGED <<server, stream>>

-----------------------------------------------------------------------------

Serves(client) ==
    \/ Reset(client) \/ ResetIdle(client)
    \/ Start(client) \/ StartRefused(client) \/ Decides(client)
ServerSteps == \E client \in Clients: Serves(client)

Refreshing(p) ==
    \E r \in page[p].refreshes:
        ReadStatus(p, r) \/ ReadBundle(p, r) \/ ShowRefresh(p, r) \/ RefreshFails(p, r)

Loading(p) == LoadStatus(p) \/ LoadBundle(p) \/ LoadShows(p) \/ LoadFails(p)

Answered(p) == ResetAnswered(p) \/ OpAnswered(p) \/ CallFails(p)

PageSteps ==
    \E p \in Pages:
        \/ Poll(p) \/ Reconnect(p) \/ HandleEvent(p) \/ Refreshing(p) \/ Loading(p)
        \/ Answered(p)
        \/ \E kind \in Decisions \cup {"RESET", "START"}: Press(p, kind)

Next == ServerSteps \/ PageSteps

Spec == Init /\ [][Next]_vars

\* The stream polls, the browser handles what arrives, and a fetch ends, be it with
\* an error.  Nobody has to press a button, no connection need be lost, and no
\* fetch need succeed.
Fairness ==
    \A p \in Pages:
        /\ WF_vars(Poll(p)) /\ WF_vars(HandleEvent(p))
        /\ WF_vars(Refreshing(p)) /\ WF_vars(Loading(p))
        /\ WF_vars(Serves(p) \/ Answered(p))

FairSpec == Spec /\ Fairness

-----------------------------------------------------------------------------
(* What the console promises *)

Stages == {"IDLE", "WAITING_APPROVAL", "ENDED"}
BundleRecord == [run: 1..MaxChanges, stage: Stages]
StreamType == [lost: Nat, index: Nat, pending: Nat, synced: BOOLEAN, due: 0..MaxChanges]
Answer == BundleRecord \cup {None}
LoadType == [phase: {"STATUS", "BUNDLE", "ANSWERED", "DONE"}, run: Nat, bundle: Answer]
OpType == [kind: Decisions \cup {"NONE", "RESET", "START"},
           phase: {"NONE", "SENT", "ACCEPTED", "REFRESHING"}, shown: Nat]
RefreshType == [newest: BOOLEAN, own: BOOLEAN, phase: {"STATUS", "BUNDLE", "ANSWERED"},
                clock: Nat, run: Nat, bundle: Answer]
PageType == [presses: Nat, bundle: Answer, error: BOOLEAN, load: LoadType,
             refreshes: SUBSET RefreshType, op: OpType, seen: Nat]

\* Type invariant; of a page's refreshes at most one is the newest, and none
\* carries a status of the future.
TypeOK ==
    /\ clock \in 0..MaxChanges /\ run \in 0..clock
    /\ stage \in Stages
    /\ feed \in Seq({"replay.reset", "fact.confirmed", "incident.updated"})
    /\ answers \subseteq (1..MaxChanges) \X Decisions
    /\ decisions \in Seq([run: 1..MaxChanges, shown: 1..MaxChanges])
    /\ stream \in [Pages -> StreamType]
    /\ page \in [Pages -> PageType]
    /\ \A p \in Pages:
         /\ page[p].seen \in 0..clock
         /\ \A r \in page[p].refreshes: r.run \in 0..r.clock /\ r.clock \in 0..clock
         /\ \A r, s \in page[p].refreshes: r.newest /\ s.newest => r = s

\* What is decided is what was shown: a decision carried out is about the run
\* whose bundle the page showed when its button was pressed, however stale the
\* page has become since, and a run is decided once, whoever else decides.
DecisionsAsShown ==
    /\ \A i \in DOMAIN decisions: decisions[i].shown = decisions[i].run
    /\ \A i, j \in DOMAIN decisions: decisions[i].run = decisions[j].run => i = j

\* Answers that arrive out of order do not take a page back: a refresh never
\* shows a status older than the one the refresh before it showed.
RefreshesAdvance == [][\A p \in Pages: page'[p].seen >= page[p].seen]_vars

\* A run has been started or decided since the page's last refresh read the status,
\* and the page shows no error.
SilentlyOld(p) == page[p].seen < stream[p].due /\ ~page[p].error

\* No page is left old without a word: when a run has been started or decided and the
\* stream of a page had looked at the feed since the last reset, a refresh shows the
\* page an answer that was read after that change, or the page shows an error, and
\* whenever a button clears the error one of the two comes again, or a reset.
\* A request may fail at any time, of a refresh, of a button or of the load, and the
\* errors of superseded refreshes are swallowed.  The events of a reset and a start
\* that fall between two looks may be lost: hence the condition.  And the load that
\* opens a page may put an older bundle over what a refresh has shown: seen is what
\* refreshes showed.
ChangesShown == \A p \in Pages: SilentlyOld(p) ~> ~SilentlyOld(p)
=============================================================================
