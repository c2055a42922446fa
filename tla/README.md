# Verification of scada_web and scada_select

TLA+ models of the SCADA web bridge: the browser page (`UI/index.html`), the
FastAPI bridge (`scada_web/`), the DDS topics between it and the selector
(`dds/qos/profiles.xml`, `dds/idl/PlcValue.idl`), and the selector
(`scada_select/src/`). TLC checks them on small instances; TLAPS proves every
safety property of the seven behavioural modules for any number of clients,
tags, messages, failures and configuration entries. Liveness is model-checked.

    cd tla
    tlc -workers 2 -config MCControlPath.cfg MCControlPath
    tlapm ControlPath_proofs.tla

## The system

    browser page --ws--> InterestManager --ValueRequest--> ControlPlane
        ^                 (refcounts)       (VOLATILE)         |
        |                                                SelectionTable
        |                                                      |
        +--_ws_send-- reader loop <--SelectedValue-- DataPlane <--IdValue-- field
        +--REST poll------------- <--SelectedMetaData-- MetaDataPlane <-- field

| Component | State | Operations | Runs on | What makes it correct |
|---|---|---|---|---|
| Browser page | socket, watched tags, reconnect and poll timers | connect, disconnect, watch, unwatch, onopen, onclose | browser event loop, several sockets | the open socket's subscriptions are the watched tags; it reconnects exactly when it should |
| Endpoint and InterestManager | connections, uids per client, refcounts, separation | subscribe, unsubscribe, set_min_separation, disconnect | asyncio thread | counts are exact; ADD and DELETE only on the edges 0-1 and 1-0 (SR-001, SR-002) |
| Interest replay | what the callback has read | on_publication_matched | DDS listener thread | the selector ends with the web side's interest and separation whatever dies or restarts (SR-003) |
| ValueRequest topic | requests on their way | write, take | DDS | VOLATILE, RELIABLE, KEEP_ALL: what is written unmatched is lost, the rest arrives in order |
| ControlPlane, SelectionTable | selected uids with their last emission, separation in force | ADD, DELETE, PERIOD, METADATA; should_forward | selector dispatch thread | at most one write per separation; re-adding does not reset a tag |
| DataPlane | the batch taken, the writer's instances | process, forward_lifecycle | selector dispatch thread | retractions are not held back, tags are not starved |
| MetaDataPlane | the reader's read marks, the writer's instances | process, handle_metadata_request | selector dispatch thread | the catalogue converges to the field |
| Web configuration, gateway life cycle | DDS topics, readers, writers, reader loops | load_config, start, stop | main, then the asyncio thread | an accepted file starts; a writer is the one configured; the loops, REST and the pushes read one reader of a name |
| Gateway readers, REST | the DDS reader's read marks, send tasks, answers on their way | reader loop, _ws_send, REST reads, polls | asyncio thread | a sample reaches every client that wants it and no other (SR-004); polling repairs what a push lost |
| Selector options, test subscriber, scripts | none that outlives a call | parse, print, launch | - | not modelled, see the end |

What is hard: two threads of scada_web write to one topic with no common lock;
the topic forgets what is written while unmatched; either process may die and
return, and a crashed reader goes on counting until its lease is out; DDS
readers keep one sample per instance and one read mark per sample for all who
read them; writes time out; the page's close events come late; answers to polls
overtake pushes and each other; an exception ends a reader loop for good; start
fails half way through the entities of a file that was validated. PROJECT.json
lists each hazard at its line with the properties that are about it.

## The modules

| Module | Models | Composed of |
|---|---|---|
| `InterestManager` | `interest.py`, the handlers of `server.py` | |
| `SharedInterest` | what `InterestManager` promises the selector: one announced set for all clients | |
| `InterestManager_proofs` | theorems about it, and that it implements `SharedInterest` | `InterestManager`, `SI == INSTANCE SharedInterest` |
| `SelectionTable` | `SelectionTable.cxx`, as operators | |
| `ControlPath` | replay, writer start-up, ValueRequest topic, ControlPlane, crashes and restarts | `IM == INSTANCE InterestManager`, `ST == INSTANCE SelectionTable` |
| `ControlPath_proofs` | theorems about it | `ControlPath`, `SequenceFacts`, `W == INSTANCE InterestManager_proofs` |
| `DataPath` | field reader, DataPlane, SelectedValue writer, time | `ST == INSTANCE SelectionTable` |
| `DataPath_proofs` | theorems about it | `DataPath`, `SequenceFacts` |
| `MetaDataPlane` | field MetaData reader, MetaDataPlane, catalogue writer | |
| `MetaDataPlane_proofs` | theorems about it | `MetaDataPlane`, `SequenceFacts` |
| `PushPath` | a topic's reader, reader loop, demultiplexing, send tasks, REST reads, catalogue polling | |
| `PushPath_proofs` | theorems about it | `PushPath`, `SequenceFacts` |
| `Gateway` | `config.py`, the entities and loops of `gateway.py` | |
| `Gateway_proofs` | theorems about it | `Gateway` |
| `Hmi` | the page's sockets, and what the endpoint makes of their messages | |
| `Hmi_proofs` | theorems about it | `Hmi`, `SequenceFacts` |
| `SequenceFacts` | lemmas on queues that the proofs share: `Append`, `Tail`, the last element of a kind | |
| `MC*` | constants and symmetry for TLC | |

Definitions carry the names of the functions they model where TLA+ allows.
PROJECT.json `map` gives the lines of each. Operators under a `MUTANT` comment
are faulty versions used by the mutation checks; no specification uses them.

**Atomicity.** A step is what runs before anything else may observe or disturb
it. An asyncio handler has no `await`, so no other handler interleaves with it,
but the listener thread may: `InterestManager` therefore splits a handler into
the update of the counts and the callback that writes (`sending`), and a
disconnect into one release per uid (`leaving`). The listener's replay is split
into reading the separation, writing it, copying the key set and writing each
ADD. In the selector nothing runs beside the dispatch thread, but the field,
the clock and DDS do: a batch is handled sample by sample.

**DDS** is modelled from the QoS profiles the code loads. `requests` is the
VOLATILE RELIABLE KEEP_ALL topic: a write unmatched is lost, otherwise FIFO. A
KEEP_LAST 1 reader keeps the newest sample of an instance; whether it may keep
the newest sample of the other kind (value, or end of instance) beside it is
left open, so both outcomes are explored. `PushPath` treats every topic alike:
whether it is the metadata topic, which the page also polls, is chosen in
`Init`. An end is reported by the instance's
state when it is read. `matches` is the queue of match statuses; `dead` counts
readers of crashed selectors whose lease has not run out. Whether two statuses
may be merged is not modelled.

**History variables** (`told`, `missing`, `excess`, `stale_period`, `written`,
`writes`, `ghosts`, `fresh`, `missed`, `swallowed`, `mark`, `taken`, `overtaken`) record
what happened for the properties; no guard reads them. They also name the exceptions of a property:
`NoBlankDisplay` holds for every wanted uid but those in `missing`, and only an
ADD whose write raised puts a uid there. What an exception lets through is not
judged by the property: an ADD or DELETE that raises, an ADD replayed after a
DELETE, and what the dead table of a running selector still shows when scada_web
returns (`missing`, `excess`); samples that a REST read takes, answers out of
order and values beyond JSON (`Excused`); loops that have ended on an exception and topics that share a
name (in `TopicsRead`). These do happen in the code, and the models show what
they can lead to and what they cannot. `overtaken` holds a client and uid from
the arrival of an answer older than what the page shows until a push or an
answer with the newest sample.

## The runs

| Run | Shows | Bounds |
|---|---|---|
| `interest` | `RefcountExact`, `EdgeTriggered`, `ToldIsInterest`, `ImplementsSharedInterest` | 3 clients, 2 uids, 2 separations; no other bound |
| `control` | `NoBlankDisplay`, `NothingElseForwarded`, `SeparationFollows`, `SelectionIsInterest` | 2 clients, 2 uids, one of them enabled at start-up |
| `control_faults` | the same properties and `WantedIsSelected`, with raised writes and scada_web restarts | 1 client, 1 uid |
| `data` | `WritesAreSeparated`, `NoOtherGhost`, `NotStarved` | 1 uid, 11 ticks, separations 4 and 5, publish period 2, blocking 1 |
| `metadata` | `CatalogueFollows`, `Catalogued` | 2 uids, 2 revisions, 1 request at a time |
| `push` | `PushedOrTaken`, `OnlyWanted`, `ReachesBrowser`, `PollingHeals` | 2 clients, one stalled; 1 uid; 3 versions, one beyond JSON; 1 answer on its way to a page |
| `gateway` | `AcceptedStarts`, `WritersAsConfigured`, `OneReaderPerTopic`, `TopicsRead`, `Stops` | up to 2 topics and 2 writers, each flaw of an entry, 2 participants |
| `hmi` | `ServedIsWatched`, `StaysDisconnected`, `Reconnects` | 2 uids, 3 sockets at a time, 4 clicks, 2 broken connections |
| `lease` | `InterestReconciled` fails | see below |
| `race` | `SeparationApplied` fails | |
| `push_rest` | `NewSamplesForwarded` fails | |
| `hmi_zombie` | `OnlyWatchedStream` fails | |

*Gateway.* Two topics, or a topic and a writer, or two writers, are what the
checks of `_validate` and the collisions of `start` are about; every pair of a
sound entry with a sound one, and every flaw (type omitted, profile unknown or
omitted, participant not declared, separation not positive, profiles omitted or
unreadable) on single entries. The theorems lift the number of entries.

*Interest.* Three clients are enough for a count to go 1-2-3-2-1-0 with a
departed client half released. The theorems lift the bounds.

*Control.* `Pipeline` is all that was written, or is being written, and the
selector has not handled; `WillSelect` is the selection once it is drained.
`NoBlankDisplay` says a wanted uid will be selected, by the pipeline or by a
replay still ahead; `NothingElseForwarded` says nothing else will; `SelectionIsInterest`
says what that comes to for the browsers when all is quiet. Two uids let a
replay be interrupted between two ADDs; `MaxInFlight` bounds the commands on
their way by stopping new operations only; the replay itself may exceed it. With `MaxEvents = 2` a stop and a restart can both be unread. Runs
`control` and `control_faults` set `RestartAfterLease`: they are about a
selector that returns after its predecessor's lease ran out; `lease` is about one that
does not. The selector's start-up default (1000) differs from the web's initial
separation (250), so a missed PERIOD shows.

*Data.* Separations of 4 and 5 are well above the blocking of one tick, so that
`WritesAreSeparated` (separation less blocking) asks for gaps of 3 and 4 ticks.
It judges writes, not clock readings: `writes` changes with every write of a tag,
so a second one at the same reading counts as a gap of nothing. Its bound and that of
`NotStarved` are met exactly: a stricter one is violated. `NotStarved` allows
the longest separation, a publish period and three times the blocking: a sample may
come while one batch blocks, wait while the other handlers of the dispatch
thread do, and wait for its turn in its own batch. Between batches `now` is when
that thread was last free, and `Tick` lets time pass, while samples wait, for at
most `MaxBlocking` from then. Time goes to 11, past the bound of
`NotStarved` (10) and past two full separations. `MaxSeparation` is the
longest separation of the instance; no guard reads it.

*Metadata, push, hmi.* Versions and revisions are bounded so that a value, an
end and a rebirth can overtake each other in one batch; two samples may be
queued to a browser when a third arrives, the one beyond JSON comes between two
that are not, and an answer may be overtaken by a push. Two answers on their
way, which overtake each other, make twice the states (600,476) and pass too
with `MaxAnswers = 2`; `NewestIsShown` holds for any number. One page polls and one does not; one uid is enough, since all that
uids share is an answer, and `others_bad` stands for the other tags in it. A third socket is the one an old
socket's close event opens behind a second.

**Fairness.** `control_faults`: both processes' threads run, DDS matches and
delivers. Not fair: browsers, crashes, restarts, lease expiry. `metadata`: the
dispatch thread. `push`: the reader loop, the send tasks of the browsers that
go on reading (a stalled one's need never run), the poll timer and the arrival
of answers. `gateway`: main, and the event loop that runs reader loops and
cancellations; nobody has to stop the process. `hmi`: timers fire,
sockets open or close, the server reads; the number of broken connections is
bounded, as no page reconnects through an unending series of failures. `CHECK_DEADLOCK
FALSE` is set for the page, which has nothing to do when the user has
disconnected it, and for the gateway, whose process ends. `data`, `metadata` and `push` never stop: the field, the browsers or
commands can always move.

### Where the code and its documents disagree

- **`lease`**. `_on_publication_matched` replays only on a 0 to N change. A
  selector that crashes is still counted until its participant lease is out
  (100 s by default); one started within it makes the count 2 with a change of
  1, and nothing is replayed. SR-003 asks for reconciliation after every
  restart.
- **`race`**. The listener thread reads the separation at
  `server.py:350`, the asyncio thread changes it and sends the new value, the
  listener sends the old one. Both sides are then settled with different
  separations, and setting the same value again is a no-op. SR-001a says the
  new value applies everywhere.
- **`push_rest`**. The REST routes read with the push loop's
  reader, and a read marks samples READ. The page polls one of them for the
  metadata topic every 5 s.
- **`hmi_zombie`**. Connect, clicked while a socket is open or opening, or
  Disconnect and Connect in quick succession, leaves a second socket that keeps its subscriptions:
  the tags it watched go on streaming after they are unwatched, and no click
  closes it.

Three more have no run of their own. The exceptions of a passing run's property
name them.

- `handle_metadata_request` reads the instance without a state filter, so it
  consumes an unread dispose that `process()` was to forward (`MetaDataPlane`,
  `swallowed`). The control reader is drained before the metadata is
  dispatched, which makes that order the usual one. scada_web does not send
  METADATA today; the topic's contract allows any writer to.
- `_handle_publication_matched` looks whether the writer is being created and
  puts the status away in two steps (`WriterBeingCreated`, `MatchHeldBack`).
  If `_create_writers` takes the list in between, the status is in a list nobody
  reads again and the start-up replay is lost (`stale_period` "stranded").
- An entry without a type takes its name for one, and the type map has no topic
  names: the file is accepted and `start` raises. `config.yaml:41` says the
  reverse of `config.py:112`. `Unstartable` lists it with the four other ways.

## What is proved

Every safety property of a passing run is a theorem, for every value of the
constants. The theorems rest on the assumption on the module's constants alone:
finitely many connections, positive separations with the initial one among them,
a start-up range of known uids (`InterestAssumption`, `ControlPathAssumption`),
separations of at most `MaxSeparation` (`DataPathAssumption`), and the shape of
the constants elsewhere. Bounds such as `MaxInFlight`, `MaxEvents`, `MaxTime`,
`MaxClicks` are any natural numbers. Some theorems have a hypothesis, given in the table. `RestartAfterLease`: a
selector starts only when the participant lease of a crashed predecessor is
out; run `lease` shows a uid lost without it. `~WritesMayFail`: no ValueRequest
write raises once the writer is there. The others say that nobody makes a kind of request.

| Module | Theorem | Statement |
|---|---|---|
| `InterestManager_proofs` | `TypeCorrect` | `Spec => []TypeOK` |
| | `RefcountsAreExact` | `Spec => []RefcountExact` |
| | `InterestInvariant` | `Spec => []IInv`, the inductive invariant |
| | `CommandsAlternate` | `Spec => []EdgeTriggered` |
| | `CommandsConveyInterest` | `Spec => []ToldIsInterest` |
| | `SharedInterestImplemented` | `Spec => ImplementsSharedInterest` |
| `ControlPath_proofs` | `Invariant` | `Spec => []IInv`, the inductive invariant |
| | `TypeCorrect` | `Spec => []TypeOK` |
| | `OnlyWantedForwarded` | `Spec => []NothingElseForwarded` |
| | `WantedIsOnItsWay` | `RestartAfterLease`: `Spec => []NoBlankDisplay` |
| | `SeparationIsOnItsWay` | `RestartAfterLease`: `Spec => []SeparationFollows` |
| | `WebIsInterestManager` | `Spec =>` the steps of `InterestManager`, and restarts |
| | `SelectionFollowsBrowsers` | `RestartAfterLease`: `Spec => []SelectionIsInterest` |
| | `InterestIsReconciled` | `RestartAfterLease`, `~WritesMayFail`: `Spec => []InterestReconciled` |
| `DataPath_proofs` | `Invariant` | `Spec => []IInv`, the inductive invariant |
| | `TypeCorrect` | `Spec => []TypeOK` |
| | `NoRetractionLost` | `Spec => []NoOtherGhost` |
| | `EveryLiveTagIsWritten` | `Spec => []NotStarved` |
| | `DecimationHolds` | `Spec => WritesAreSeparated`, an action property |
| `MetaDataPlane_proofs` | `Invariant` | `Spec => []IInv`, the inductive invariant |
| | `TypeCorrect` | `Spec => []TypeOK` |
| | `CatalogueIsCurrent` | `Spec => []CatalogueFollows` |
| | `CatalogueIsTheField` | `MaxRequests = 0`: the same without `swallowed` |
| `PushPath_proofs` | `PushInvariant` | `Spec => []PushInv`, the inductive invariant |
| | `TypeCorrect` | `Spec => []TypeOK` |
| | `NewestIsShown` | `Spec => []PushedOrTaken` |
| | `NothingUnwanted` | `Spec => []OnlyWanted` |
| | `LoopAloneForwardsAll` | `Pollers = {}`, `~RestReads`, `NotFinite = {}`: `Spec => []NewSamplesForwarded` |
| `Gateway_proofs` | `TypeCorrect` | `Spec => []TypeOK` |
| | `StartInvariant` | `Spec => []StartInv`, the inductive invariant |
| | `AcceptedConfigurationsStart` | `Spec => []AcceptedStarts` |
| | `WritersAreAsConfigured` | `Spec => []WritersAsConfigured` |
| | `OneReaderIsRead` | `Spec => []OneReaderPerTopic` |
| `Hmi_proofs` | `Invariant` | `Spec => []IInv`, the inductive invariant |
| | `TypeCorrect` | `Spec => []TypeOK` |
| | `WatchedIsServed` | `Spec => []ServedIsWatched` |
| | `DisconnectHolds` | `Spec => []StaysDisconnected` |

*Interest.* `RefcountExact` is inductive with the types and the two facts that connect a
departed client with `leaving`; its step goes through how `Watchers(u)`
changes (`WatcherJoins`, `WatcherLeaves`, `WatcherDeparts`) and the cardinality
theorems of the library. `EdgeTriggered` is not inductive: it says nothing of
`told` while no command is being sent. The strengthening follows each uid: what the
commands so far asked for, with the one being sent, is exactly the uids whose
refcount is positive (`TracksStep`). With `RefcountExact` that is the union
of the interests. The refinement maps the announced set to `told` and a client's
interest to its uids, those of a departed client to nothing: a handler's update of
the counts is one wish, the callback that writes is one announcement or
withdrawal, and a change that reaches no edge is a stutter.

*Control.* What the pipeline leads to is, per uid, decided by its last ADD or
DELETE; `Outcome` says so of any queue, and `OutcomeOfAppend` and `OutcomeOfTail`
say what a write and a handled request make of it, so that no step has to look
through the queue. The properties alone are not inductive. A selector that is not matched yet
may have only its start-up range or known leftovers (`Accounted`), or a match would bring in
something unaccounted for. While a status is being put away its replay is not certain, so only the
statuses behind it promise one (`Promised`). With `RestartAfterLease` an unmatched
running selector has no dead predecessor (`Processes`), so its match is a 0 to N
change and the replay is ahead. A command being sent is true of the counts (`SendsTrue`).
`NothingElseForwarded` holds with or without the hypothesis.

*Control and interest together.* Every step of `ControlPath` is one of
`InterestManager`'s, leaves its state alone, or is a restart (`WebSteps`), so the
inductive invariant of the web side holds in the composition too. Between handlers
the counted uids are therefore what connected clients want (`CountedIsWanted`), and with
nothing under way the control path's invariants speak of the selection table itself:
`SelectionFollowsBrowsers`.

*The exceptions.* Three theorems say that an exception is what it is named for.
Without raised writes `missing` stays empty, as the writes that raise during
start-up are PERIODs: `InterestIsReconciled`. Without METADATA requests `swallowed` stays
empty: `CatalogueIsTheField`. Without REST reads, polls and values beyond JSON no page
is excused but for an ended instance: `LoopAloneForwardsAll`. The first and the last
are properties that runs `lease` and `push_rest` show to fail.

*Data.* `WritesAreSeparated` speaks of the steps that change `writes`, which only
the writing branch of `Forward` does. It needs that a write happened no later than
`MaxBlocking` after the emission the table recorded (`Emissions`), and that the
clock read for a batch is no further behind (`Timely`). `NotStarved` needs to know, for
a sample in the reader, in the batch, or handled, how long ago the tag may last
have been fresh (`Due`); that a sample of a live tag is there at all comes from
`LastTells`: the last sample of a tag says whether it lives. The bound counts
the blocking once for each stage of `Due`: handled, in the batch, in the reader.

*Metadata.* Besides the property itself, the newest sample in the reader says what
the field last said (`ReaderTrue`), and so does the last of a batch, unless a newer one
waits (`BatchTrue`). A read takes all there is of a tag, so if any sample is unread
the newest is; that the reader keeps at most one sample of each kind is what
makes a METADATA request write the latest description and no other.

*Push.* `PushedOrTaken` speaks of clients with no push under way. What makes it
inductive is that a queue that is not empty ends with the newest sample
(`QueueEndsNewest`), so that the send which empties it is the one that shows it; and
that no answer, and no push, is newer than the newest sample (`Bounded`), so that
an answer which replaces the newest is seen to be older and is accounted for.
`Bounded` also carries `OnlyWanted` over an unsubscribe: what is queued then is
no newer than the mark.

*Gateway.* `AcceptedStarts` says when `start` fails and when it does not, so the
invariant has to know what each entry gone through has left behind: the runtime
of a name is the last topic entry of that name so far, each writer entry so far
has its DDS topic, and no DDS topic comes from anywhere else. With that, a
collision at an entry names the earlier entry it collides with, and an entry that
passes rules that pair out for good. `_validate`'s check that writers' names
differ is what keeps a later writer from undoing an earlier one.
`OneReaderPerTopic` follows from the same invariant and `Served`: every runtime
left in `_topics` has a loop, waiting or ended on an exception, and no other
entry has. A name given twice makes two readers; the first is never read.

*Page.* The two properties are inductive with the types, of which one does the
work: nothing is sent on a socket before it is open. `ServedIsWatched` says what
the messages on their way amount to by the last one that concerns a tag, which is
what reading them one by one comes to; a message
sent or read is then one use of a lemma on the last element.

*Form.* `SequenceFacts` holds the lemmas the queues need. Where an argument would go by
induction over the indices of a queue, it takes the least or greatest index
instead (`LeastOf`, `GreatestOf`, from the library's `WFMin`), as the provers cannot
instantiate a theorem with an operator parameter. For the same reason `Served`,
`UnreadAnyInstance` and `Push` are written with indices where a fold or a filter
would do; TLC finds the same states either way.

Only model-checked: liveness (`WantedIsSelected`, `Catalogued`, `ReachesBrowser`,
`PollingHeals`, `Reconnects`, `TopicsRead`, `Stops`), as fairness and ENABLED are
beyond the prover; and the violations, which are traces.

## The plan

Done: the modules above, and all their safety properties proved. Next, in this
order:

1. `Options`: precedence and range checks of the selector's options as pure
   operators, with the 64-to-32-bit narrowing.
2. The field publisher's schedule: describe all, publish in turn, dispose on exit.
3. A theorem on the page and `InterestManager` together: that the endpoint's
   interest of a socket, in `Hmi`, is the client's in `InterestManager`.

## Not modelled

- The selector's options: planned. Of the web configuration: host, port and
  document root, on which no behaviour modelled here depends. REST
  status codes, JSON bodies, page rendering and alarm classes: conversions no
  property is about; of `views.py`, only whether a sample can be converted at all.
- The `Name_t` field of ADD, ignored by the selector.
- Creation errors of DDS entities in the selector (fatal at start), resource
  limits, send windows and the statistics the selector prints.
- The memory of a stalled browser's unsent pushes; that they hold nobody else
  up is `ReachesBrowser`.
- The test subscriber and the start scripts: a printer and process launches.
- Samples before a subscription: a new watcher of a tag that is already
  selected sees nothing until its next sample. `PushPath` promises nothing else.
- The values the simulated plant computes. Its publisher is the source of
  `Publish`, `Describe` and the publish period; the field of the models may also
  end and revive a tag, as any DDS writer may.
