# OpsBrief AI in TLA+

A verification project for OpsBrief AI, a FastAPI service that stores
operational events, recomputes risks from them, tracks incidents, and has a
language model phrase a daily brief and incident summaries. The modules are
translated from the Python under `src/src/opsbrief/` (paths below are relative
to it); `PROJECT.json` names the lines each definition stands for.

## 1. The system

Routes are synchronous functions: FastAPI runs them on a thread pool, so several
requests are served at once. Two stores share one SQLite file. Each has one
connection (`check_same_thread=False`) and one `threading.Lock`; every statement
runs under the store's own lock. Nothing else is shared between requests: risks,
briefs, summaries and the dashboard are computed afresh from what the stores hold.

| Component | State | Operations | What is hard | What makes it correct |
|---|---|---|---|---|
| Incident record (`incidents/lifecycle.py`, `schema.py`) | status, evidence, opened/updated/resolved instants, note | declare, transition, link, unlink | long legal sequences; refusals in a fixed order; a validator that must never be what refuses | consistent records; closed is final; time moves forward |
| Incident store, services, routes (`storage/incident_store.py`, `services/incident_reporting.py`, `api/incidents.py`) | `incidents` table, lock | `add`, `mutate`, five write routes | stamp and evidence check happen before the lock; storage errors and restarts between steps | each call atomic; no lost update; evidence always stored |
| Event ingestion (`storage/event_store.py`, `services/ingestion.py`, `api/events.py`, webhook) | `events` table, lock, the open transaction | single, batch and signed submission | at-least-once producers, a batch that repeats a key, failure half way through a batch, no uniqueness constraint in the schema | once per key, all or nothing, acknowledged means committed |
| Work projection and risk rules (`risks/`) | none: a function of the history and an instant | `group_work`, three rules, `prioritize` | late, out-of-order and future reports; ties; re-affirmed and interrupted blocks; boundaries | independence of arrival, one live risk per work, total ranking |
| Brief material, audit, declaration (`brief/context.py`, `brief/schema.py`, `references.py`, `audit.py`, `incidents/declaration.py`, `linking.py`, `timeline.py`) | none: functions of one read | recent view, sources and references, next actions, incidents opened from risks, timelines, audits | evidence older than the bounded recent view, shared by risks, or recent as well; a risk with too much evidence for an incident | every event accounted for once; an incident's timeline is its risk's evidence |
| Generation (`prompt_budget.py`, `brief/`, `incidents/summary.py`, `warnings.py`) | none between requests | render within a budget, ask the provider, state confidence | which room is reserved when; provider failures combined with gaps of the picture | never over the bound, nothing dropped silently, confidence earned |
| Exclusion (`exclusion.py`) | the excluded names | hold back a field, a title, a span, a note | values that reach a text by another way than their own line | an excluded value is never told |
| Startup and demo seed (`main.py`, `config.py`, `samples/seed.py`) | settings, published stores | open, seed, publish, close | a failure or a stop between two commits; restarts under other settings | nothing half published; demo data never mixed with real data |
| Opening a store (`storage/database.py`, `cli.py`) | the schema | run the script, look for the added column, add it | the service and the command-line tool open one old database at once | nobody reads before the schema is whole; a refused start succeeds when tried again |
| Request gate (`api/limits.py`, `readonly.py`, `webhooks.py`) | bytes received, response started | read-only, body size, signature, body checks | a streamed body; order of refusals; a clock that runs on | refused before anything is stored |
| Listings and dashboard (`services/*reporting.py`, `dashboard.py`) | none | pages with totals; one page from several reads; a walk over several pages | a write between two reads, a write or a restart between two pages | later reads of a page know all that earlier ones show; no row falls between two pages |

Interactions: the incident routes read the event store (under *its* lock) before
they touch the incident store; ingestion and incident changes run on separate
connections and only meet in SQLite's file lock, where one may fail with
"database is locked"; generation reads both stores and calls the provider.

## 2. The modules

```
 IncidentLifecycle ──┬── IncidentRegister (abstract: an atomic register of incidents)
                     ├── IncidentStore ── INSTANCE IncidentRegister ── MCIncidentStore
                     ├── IncidentLifecycleProofs
                     └── IncidentStoreProofs (EXTENDS IncidentStore, IncidentLifecycleProofs;
                                              also proves that the register is implemented)
 EventLog (abstract: an append-only log) ── EventStore ─┬─ MCEventStore
                                                        └─ EventStoreProofs
 WorkState ── RiskRules ── RiskPicture ─┬─ BriefContext ─┬─ MCRiskPicture
                                        │                └─ BriefContextProofs
                                        └─ RiskPictureProofs (EXTENDed by BriefContextProofs)
 PromptBudget ─┬─ Generation ─┬─ MCGeneration
 Exclusion ────┘              └─ GenerationProofs
 Migration ── Lifespan ──┬── RequestGate ──┐
                         ├── Views ────────┼── Service ─┬─ MCService
                         └── Paging ───────┘            └─ ServiceProofs
 Numbers (a set of numbers has a least one): EXTENDed by EventStoreProofs,
                         ServiceProofs, GenerationProofs and RiskPictureProofs
```

**IncidentLifecycle** has no variables. `Declare`, `TransitionTo`, `LinkEvents`
and `UnlinkEvents` return an incident and an outcome (`ok`, `bad_move`,
`backwards`, `closed`, `too_many`, ...), with the code's checks in the code's
order, so that *which* error is raised is modelled and not only that one is.
`Consistent` is the record's validator. Title, severity and the order of
citations are left out: no operation depends on them.

**IncidentStore** is the service around it. A worker is a thread of the pool and
its request goes `idle → verify → stamp → wait → locked → apply → answer`:
one `EventStore.get` per cited id, `datetime.now`, waiting for the lock, the
SELECT or INSERT, the mutator with the UPDATE and commit, and the answer, by return or
exception, that leaves the `with` block. `Crash` restarts the process at any
point, `StorageFails` is an exception under the lock, `RecordEvent` is another
route storing an event, and `Tick` moves the wall clock, back as well when
`ClockMayStepBack`. The code's answer leaves after the lock is freed; the model
frees the lock in `Respond`, together with the answer, because nothing shared is
touched in between.

**IncidentRegister** is what a caller is promised: a call is answered by one
atomic read-and-write of a register, judged by the lifecycle at some instant, or
is refused and leaves no trace. `IncidentStore` is shown to implement it by
`ImplementsRegister`: the rows are the register, and a worker at `answer` is a
call already decided.

**EventStore** splits `add_all_or_get` into taking the lock, the loop that
decides what each submission is answered with, one step per inserted row
(`executemany`), and the commit, which empties `open`, the rows of the open transaction
on the shared connection. A single event is a batch of one. Producers deliver a
body again until a delivery of it is acknowledged, also while an earlier
delivery is still served. **EventLog** is the promise: the log only grows; a
delivery is stored whole, at one instant, or not at all; an event with a key
is stored once per key.

**WorkState**, **RiskRules** and **RiskPicture** model the fold of an entity's
reports, the three rules with detection and ranking, and reports arriving in any
order while the reading instant advances. They are operators over sets of reports,
as in the code, where risks are never stored. One `rank` breaks the ties of every order:
the fold breaks them by receipt and id, the rules, the recent view and the timelines by id
alone, and no property compares the two orders among ties. `sorted()` is `SortedBy`: by an order
without ties, the member at place `k` is the one that `k - 1` others precede. TLC
evaluates that and the provers can reason about it, as they cannot about a
permutation picked among all of them. `Kept` is a list comprehension with a condition: the
places that pass, in order.

**BriefContext** is what the service derives from that picture and hands out: the
brief's material (risks, the bounded recent view, the source ids in citation order,
the references they resolve to, the warnings, the next actions), the incidents
`declare_incidents_from_events` opens from the risks, their timelines, and the audits,
which are read off the generated output and never off the store. These are operators
too; the properties relate several of them over the same history. The code collects the
source ids with a loop that skips what it has seen; the model says what that selects: a
*mention* is a list and a place in it, and the first mention of each id is kept, in
reading order.

**PromptBudget** is `render_budgeted`, a step per section opened, item kept,
section trimmed and trailer added, over the *lengths* of the lines, since
lengths are all the budget looks at; `Upto` is the running sum of a sequence of lengths. An
omission note's length depends on the
digits of its three numbers, which is kept. **Generation** adds what surrounds it in
`generate_brief` and `generate_incident_summary`: the gaps known beforehand,
the completion request that refuses an input over its bound, the provider's
three outcomes, the summary's status and the confidence. It also follows what is
told: **Exclusion** abstracts a text to the fields its values come from, a risk's title to
the event's subject it is phrased from, an incident's to the operator or such a
title; `Line` picks the lines the budget kept, and `Told` is what reached the model, or
the narrative composed in its place.

**Service** composes five modules over the contents of both stores, which
outlive the process. **Migration** is one opening of a store (`connect`,
`create_schema`) by either of two processes, the service and the command-line tool, which
reads and closes again: the script, the look for the added column and the `ALTER` are
committed one by one and no lock spans them, so the other process may add the column
in between and the opening is refused. **Lifespan** is `main.lifespan`: a step per store opened, per
seeding transaction, for publishing and for closing, with a failure of the start
(`AbandonStart`) or a kill (`Crash`) between any two, and a new start under
whatever settings; each of its two opens goes through Migration's steps.
**RequestGate** takes one write request through the middleware
(read-only, declared length), its body chunk by chunk, the webhook's signature and
window, the validation and the write. **Views** assembles one page: `Holds` lists,
in the code's order, the holds of a store's lock that each view takes and what it
reads under each, and `Read` performs the next one on the stores as they are then.
**Paging** is a client that walks a listing with `limit` and `offset`, each page a
request of its own: the rows whose rank among the rows that match falls on the page. The
order of a listing and what a filter selects are fixed for every
row, since events do not change and incidents keep their opening instant; so a write
can only insert a row somewhere. A walk goes on after a restart: the server keeps
nothing of it.
A write is one step here: `IncidentStore` and `EventStore` show that it
may be. A signature stands for the body and timestamp it was computed over, one that
does not match for any other header. An answer has a set of statuses where the request
leaves more than one possible: `events` stands for `POST /events` and
`POST /events/batch`, so an event stored already is answered 200 or 201. The
server outside this code is assumed to let requests finish before an orderly
shutdown (`Drained`), to report disconnects, and to supply a clock that goes forward.

Definitions named as variants in a comment (`Unguarded`, `NeverSeen`, ...) are
plausible mistakes. `PROJECT.json` pairs each with the definition it stands in for and
the property that then fails, which is how each property is known to depend on
the code.

## 3. The runs

| Run | Instance | Question, and answer |
|---|---|---|
| `incidents_safety` | 2 threads, 1 incident, 2 events, 2 instants, clock may go back | Is the threaded store an atomic register, with evidence always stored and closed records untouched? Yes. |
| `incidents_history` | 1 thread, 3 events with an evidence limit of 2, 4 instants, a note | Do long histories stay consistent and move forward, and do the operations' own guards always refuse before the validator would? Yes. |
| `incidents_liveness` | 2 threads, weak fairness | Can an error path leave the lock taken? No: calls keep being answered. |
| `incident_resolve` | 2 threads, a clock that only goes forward | Is a resolution that the model refuses answered with a declared status? **No** (finding 1). |
| `event_ingestion` | 2 workers, 2 bodies sharing a key (one repeats it), 2 failures, 8 deliveries | Once per key, atomic, durable once acknowledged, and does a persistent producer get through? Yes. How often can an event without a key be stored? Once per overlapping delivery, and again per failure. |
| `risk_projection` | 1 entity, every status the fold tells apart, 3 reports, 3 instants | Does the fold agree with a reading of the history as a whole? Has a work at most one live risk per rule, none once its latest stated status finishes it, comments after it or not? Do late reports leave newer facts alone, and do risks only escalate while nothing new occurs? Yes. |
| `risk_picture` | 1 entity and untracked reports that block, fail and resolve, 3 reports | Is the ranking total? Does a recovery clear every rule about its work but for failures of its own instant, all of which still stand, whatever arrived first? Does a brief account for every event, and does an incident opened from a risk carry exactly its evidence, or none open? Yes. |
| `reopened_deadline` | as above, two statuses | Does reopened work need a fresh deadline? **No** (finding 2). |
| `generation` | briefs with up to 3 risks and 2 recent events, incidents citing up to 31; 12 sets of excluded names | How far can material pass the budget, is anything dropped without saying so, is "high" confidence earned, is an excluded value told? By the unreserved part only; no; yes; no. |
| `brief_refused` | the same, briefs only | Can the model layer fail the brief? **Yes** (finding 3). |
| `service` | 4 settings, a database that is absent or of an earlier version, 2 demo and 2 live events, the demo incident and one live, 12 requests, 2 stops, the tool, 2 filters | Is nothing half published, nothing taken by a read-only process, no body stored past the bound, no delivery accepted but as signed, no evidence shown missing, no panel ahead of a later one, no row missed by a walk, nothing served from a schema that is not whole? Yes. |
| `half_seeded` | the same | Does a demo that is served have its incident? **No** (finding 4). |

Where `CHECK_DEADLOCK FALSE` is set the system really stops: deliveries, reports
and instants are bounded, and a generation ends.

**Bounds.** Two threads are enough for every race on one lock and one row. The proofs of
section 4 do without this bound and those that follow: only what section 4 lists as
model-checked rests on them. Incidents do not interact, so one suffices;
two instants are enough for a stamp to be overtaken, four for a history to go
forward and be refused backwards. `MaxEvidence` stands for the limit of 500 and
is reached. In `EventStore`, `MaxFailures` counts restarts, storage errors and
lost answers. One failure can void at most the two deliveries being served, and each body
needs one that succeeds, so 8 deliveries outlast 2 failures; `EveryPayloadAcknowledged`
would fail if they did not. Three reports are enough for a fact, its contradiction
and a report in between; reports and instants beyond that are not
explored. `CopiesNeedFailures` allows an event without a key one copy per worker and
failure, plus one per worker: each failure lets every delivery being served be made
again. In `risk_picture`, `MaxRecent` = 1 keeps evidence out of the recent view, and
`MaxEvidence` = 2 is passed by a risk that cites three reports. The excluded sets are none, each name alone, two pairs, all event fields, and everything.
In `Generation` line lengths are small numbers chosen so that the
budget falls within any section, and 9, 10, 11, 25 and 31 items make the counts
in the note change their number of digits. In `Service`, `MaxStops` = 2 lets a start
fail, a second process serve and stop, and a third find what they left. `Limit` is one
unit and a chunk carries up to two, so a body passes the bound at once, by adding up, or
after declaring too little. The clock runs to twice the tolerance, so a delivery can be
in the window, on its edge and past it. One write request is served beside one page:
several writes may fall between two reads of it, one after another; races between writes
are those of the stores' own modules. A page of one row makes every walk of two rows
take two requests or more. The constraint `PagesMeetWrites`, of both runs of the service,
cuts only what the parts cannot tell of each other, for they meet in the database alone:
while a page is assembled or a listing walked, the requests explored are those that can
store something (one per kind of write, its body arriving in one way), at one instant;
a page and a walk are not followed together; and the tool, or a start refused because of
it, is followed beside starts and stops, not beside requests.

**Fairness.** Each thread is weakly fair in its own steps (`Progress`): the
operating system keeps running it, and a step that stays possible is
taken. Nothing is assumed of clients, the clock, failures or which waiting thread gets the
lock: `CallsKeepBeingAnswered` says that *some* call is answered, which is all
that an unfair `threading.Lock` gives. `EveryPayloadAcknowledged` also needs the
producers' part, `SF` on delivering again: an assumption about the
environment (at-least-once producers, as docs/webhook-ingestion.md describes
them), not about this code.

### Findings

1. `incident_resolve`: the resolution route stamps before the lock and handles
   only `InvalidIncidentTransition`. A change committed meanwhile with a later stamp makes
   `_advanced_update_time` raise a plain `ValueError`: a 500 the route does not declare,
   for an incident that can be resolved.
2. `reopened_deadline`: a resolved report that repeats its `due_at` has the deadline
   cleared by its status and set again by its `due_at`, so a later reopening revives it,
   which the module and the README exclude.
3. `brief_refused`: the header of the second section is not reserved while the
   first is filled, so a brief with many risks can exceed `MAX_PROMPT_LENGTH`;
   `CompletionRequest` is built outside the `try`, so the brief fails.
4. `half_seeded`: the demo's events and its incident are two transactions, and both are
   skipped once any event is stored. A start that is cut short in between leaves a demo
   that never gets its incident. The project's backlog knows of it (AI-117).

`OvershootIsUnreserved` is the positive counterpart of 3: it bounds the overshoot by
what is not reserved. Besides the openings of later sections that is the room for the
digits of an omission note: the reserve is measured on `note(total, total)`, which prints
0 for the number omitted and is called a safe upper bound
(`prompt_budget.py:162-164`), so the text may pass the budget by a character or two.

What the positive runs leave room for: the incident listing's total and the dashboard's
later panels may know of *more* than the panels read before them. So the next actions,
which come with the brief, need not be "one per active risk" (`services/dashboard.py:231-232`)
when an event arrives between the two reads; the page lags, and `ShownIsCounted` says
it does no worse.

Some sentences of the documentation say more than the code does, and the runs say what
remains. docs/webhook-ingestion.md:105-106 has it that a replay within the window does
not double-store an event: that holds with an `external_id`; without one each repetition
is stored, and `CopiesNeedFailures` bounds the copies of producers that stop when
acknowledged. And "successive pages … walk the whole result without gaps
or repeats" (`storage/event_store.py:351-353`; `storage/incident_store.py:196-199` calls
paging safe) takes a store at rest. With writes in between rows may repeat, and "without
gaps" is `WalkMissesNothing`, which holds of every row that matched when the walk began; it
does not hold of incidents filtered by status, where a change takes a row out of the pages
before the offset and the next page skips one. The schema's own text
(`events/schema.py:240-245`) promises less: a walk under concurrent writes may repeat or
miss a row.

Two more are about statuses only. "Either way an over-limit request is answered with 413"
(`api/limits.py:12-13`): a body that passes the bound while a route with a parsed body reads
it is an error of that read, which the framework may answer with 400, and `Overflow` admits
both; that nothing of it is parsed or stored is `ReceiptIsBounded`. And "401 on any failure"
of the signature (`api/webhooks.py:125`): `hmac.compare_digest` raises `TypeError` when the
header has characters beyond ASCII (`webhooks.py:108`), which the route does not handle, so
`RejectUnauthentic` admits 500 as well; the delivery is refused either way, which is
`AcceptedAsSigned`.

## 4. The proofs

TLAPS checks them for every value of the constants: any number of threads, incidents,
events, instants, bodies, deliveries, failures, requests, restarts, settings, page sizes,
sections and items, any clock, any lengths and any bound. `PROJECT.json` lists the
theorems; what they rest on are lemmas of the same modules.

### Assumptions

`LifecycleAssumption` and `StoreAssumption`: the evidence limit and the clock's bound are
numbers, the events that exist are finite, placeholders are not values.
`EventStoreAssumption`: a body has at least one event, and the thread pool is finite. `LifespanAssumption`,
`PagingAssumption`, `GateAssumption`, `RowsAssumption`: demo rows are not live ones, the
seed's evidence is one of its events, an `ORDER BY` lists every row that can exist once,
pages and chunks are not empty, and a well-formed declaration cites something (the schema's
`min_length`). `BudgetAssumption`, `LengthsAssumption`, `PictureAssumption`,
`ExclusionAssumption`: lengths are numbers, pictures are briefs or incidents of the
declared form, only excludable names are excluded. `RiskPicture`'s `PictureAssumption`,
`RulesAssumption` and `PlaceholdersAssumption`: statuses and deadlines come from their
types, at least one failure is needed for a risk, and "no report" and "no status" are
neither a report nor a status. `BriefAssumption`: the recent view and an incident may hold
at least one event. TLC evaluates each on the runs. None bounds a run's states or says
that a case does not happen. The constraint that the runs of the service use is not
assumed.

### Incidents

`MutationSound`: a mutating call on a consistent incident returns a typed, consistent one;
when it refuses, it changes nothing; a closed incident stays as it is; nothing is cited but
the old evidence and the link's own. It rests on one lemma per operation
(`TransitionSound`, `LinkSound`, `UnlinkSound`) and on `EvolveSound`.

`SafetyInvariant` of `IncidentStoreProofs` is `Spec => []Inv` with

    Inv == TypeOK /\ CallsInOrder /\ EvidenceTraceable /\ RevalidationNeverRefuses

None of the listed properties is inductive alone. `EvidenceTraceable` needs to know that a
worker past `verify` has seen every cited event stored; `LockProtectsRow` that whoever is
past the lock holds it; the row about to be written must be the one read, and consistent,
for its successor to be. `CallsInOrder` states these per worker (`InOrder`), and
`InOrderKept` says once why a step of one worker preserves another's: only the lock's holder
touches rows, and events only grow. There is one lemma per action; `LocalStep`, `WriteStep`
and `DecideStep` carry what they share. From `Inv` follow `TypeCorrect`, `RowProtected`,
`EvidenceAlwaysTraceable`, `GuardsSuffice`, and the action properties `ClosedStaysFinal` and
`HistoryAlwaysForward`, through `RowChange`: a row that changes was read under the lock and
changes by one mutation.

`StoreRefinesRegister` is the refinement. `RefinementInv` adds to `Inv` what the abstract
register asks of its callers and the store's own properties do not need: an idle worker has
no call, and one that verifies evidence has a call that cites some and no row yet
(`Serving`). `StepMaps` then takes the actions in turn. Receiving and answering
a call are the register's `Ask` and `Reply`; the insert and the update under the lock are its
`Open` and `Change` (`InsertMaps`, `ApplyMaps`), every refusal its `Reject`; the steps before
and between are stutters. `SameMutation` lets the abstract register judge a call by the same
lifecycle as the code.

### Events

`Inv` of `EventStoreProofs` adds to the listed properties `DeliveriesInOrder`, which says of
the worker that serves a delivery what it has already worked out: only the holder of the
lock resolves and inserts; while it resolves the transaction is empty; while it inserts
(`Inserting`), each position of the body is answered with a row that is stored or that it
is about to insert, and the rows visible *together with the ones still to insert*
(`Coming`) have each key once. That last part is what makes `OncePerKey` inductive, and
why the code may look up a whole batch before it inserts any of it. `ResolutionFacts` and
`NothingTwice` show that the loop establishes it, a body that repeats a key included.
`IngestionRefinesLog`: a commit stores a delivery whole (`CommitStores`), everything else
leaves the log as it is.

`CopiesAreCharged` bounds the copies of an event without a key. Its invariant, `CopiesInv`,
counts deliveries of a body rather than rows: those stored or served (`Made`) and those
stored that nobody is left to answer (`Void`). As long as the body is not acknowledged, what
is void is paid for, a worker's worth per failure (`LoseAnswerCopies`, `CrashCopies`); what
is served is never more than the workers are, so a further delivery is within the bound
(`DeliverCopies`); and after the acknowledgement none is made (`RespondCopies`). That a
refused delivery has left no row behind is `Numbered`.

### The service

`Inv` of `ServiceProofs` has five parts, each proved to be kept on its own from the ones
before it: `StartInOrder` (in each phase of the start what is open, published and whole; how
far the two processes are with the schema), `StoresSound` (rows cite stored events),
`GatePassed` (what a request has passed by the time it is past a check), `PageInOrder` (a
page's readings are those of its first `k` holds, and each is covered by every later one and
by the stores as they are now) and `WalkInOrder` (the rows a walk still owes rank past its
offset). `Grown` says once what any write does to the tables, and a page and a walk only
depend on that. From these come all the properties of the run `service`, for any
interleaving of writes, restarts, pages and walks: the run follows a page and a walk apart,
and the proof does not.

### Generation

`IInv` of `GenerationProofs` is `Filling`, about the budget, and `Settled`, about what is
said of it. `Filling` has `Shaped` (phase and sections), `Reckoned` (what is held back is
the worst notes of the sections to come and the trailer: `reserve` never goes below
that), `SpentWhole` (as long as nothing is omitted, what is used is what the whole
document takes so far), `KeptWithin` (a kept item was kept within the budget) and `Overshot`
(what is used and held back passes the budget by the overshoot of the sections so far). `OvershootIsUnreserved` alone speaks of the
finished text only, and says nothing of the room still held back, from which each
section's note is paid; `CompleteMeansWhole` needs to know of every section before that it
was spent whole. The lengths, the number of sections and of items are arbitrary.
`RenderingFills` goes through the steps of the rendering, with a lemma for each
(`FilledOpening`, `FilledKeeping`, ...); `ExclusionHolds` and `ConfidenceIsEarned` follow from
`Settled`.

Sums over sequences are a recursive function, `Upto`. Its equation is not proved by
induction but from the least number at which it would fail (`Numbers!Least`, from the
well-foundedness of the naturals): `SumsAgree`, `SumsExist`, `UptoDefined`, and `SumsGrow`.

### Risks

`PInv` of `RiskPictureProofs`, `TypeOK` with a finite history, is the inductive invariant:
the picture is a function of what is stored, so its properties are theorems about that
function on every history the invariant admits, and not about steps.

The function sorts and folds, and both are reasoned about without induction. Sorting: under
an order without ties a member's place, the number that precede it, is less than the size
of the set and differs from every other's, so by counting every place is taken (`Places`),
and the members at their places are the sorted list (`PlacedIsListed`). The same two lemmas
serve `_order_key` (`OldestFirstOrders`) and `_priority_key` (`PrioritizeOrders`). The fold:
`Known` says what is known after `k` reports, a turn takes it to `k + 1` (`TurnKnows`), and
the least `k` at which it would fail does not exist (`FoldKnows`, by `Numbers!Least`).
`ProjectAgrees` puts the two together: what the projection computes is what the contract
says of the history as a whole (latest status stated, latest deadline that no end came
after, first report of the current block). Everything else uses only that.

`ProjectionIsHistory` and `ArrivalNeverOverrules` follow from it. For the rules,
`OverdueByReport`, `BlockedByReport` and `FailuresByWork` say which report, or which work,
each risk stands for, and `WorkFacts` that the reports the projection points to are that
work's own and that a latest stated status which ends the work ends its block too; `OneRiskPerWork`, `TimeOnlyEscalates` and `RecoveryClears` are read off them.
`RankingIsTotal` needs the keys to tell any two risks apart: a rule raises no two risks that
cite the same report first (`RisksApart`), so rule and first report identify a risk, and
that also bounds how many there are (`RisksFinite`).

### Briefs and declarations

`BriefContextProofs` needs no invariant beyond `PInv`: the two properties are about functions
of the history, on every history `PInv` admits. Three more orders are shown to have no ties and
sorted by the same `Places` and `PlacedIsListed`: places in a list (`NumbersInOrder`, which
gives what `Kept` keeps, `KeptAtPlaces`), mentions (`MentionsInOrder`) and reports by recency
(`NewestFirst`).

`BriefAccounts` rests on `SourcesRead`. No list names a report twice (`EvidenceNamed`,
`RecentView`), so a mention is known by its list and its report, and mentions are finitely many
(`MentionsFinite`); the least mention of a report exists and is its only first one
(`FirstMentionExists`); reading out the first mentions names everything once, list after list
(`ReadOnce`). The first mention of a cited report is in the list of the first risk that cites
it, that of any other in the recent view, which is the last list: hence evidence comes first
and in the risks' order. A report not named is in no list, so it is older than the whole
recent view, which then is shorter than the history and the warning is given.

`DeclarationsCarry` uses that the ranking lists each risk once (`ListedRisks`, from
`PrioritizeOrders`), so that a refusal by one listed risk is a refusal by one of the picture's,
and that cited reports are stored, so that a timeline loses none and sorts what the risk
sorted (`TimelineComplete`).

### Only model-checked

Liveness (`CallsKeepBeingAnswered`, `EveryPayloadAcknowledged`) needs fairness and
`ENABLED`, which the installed provers do not reason about. Every other property of a passing
run is a theorem. The runs that end in a violation show a behaviour and prove nothing general.

## 5. Not modelled

Redaction, HTML rendering, titles and the wording of narratives and suggested actions:
their content is their text. Which fields a text comes from is modelled, and so is the
evidence of an action. The status filter of the incident listing: its walks lose rows (section 3),
and its total may disagree with its page in either direction when a status changes in
between, which `ShownIsCounted` does not speak of. Filters of events and risks select from
one read. `IncidentStore.save` has no caller in the service. A readiness probe runs one
trivial statement per store and has no state. The command line's arguments and renderings.
HMAC itself is arithmetic on bytes. `PROJECT.json` lists every component with its status, and
under "hazards" what can go wrong where, with the properties that watch it.

## 6. Plan

Done, in this order: the incident record, store and register with their proofs;
event ingestion and its log; the projection and the rules; the budget and
generation; the lifespan, the request gate and the views, composed in `Service`; the brief's
sources, the audit and the declaration from events; exclusion; the migration and the tool;
the walks over listings.

Proved since, in this order: ingestion and its log, the incident store against its
register, the service's nine properties, the budget, confidence and exclusion, the
projection, the rules and the ranking, the copies of events without a key, and the brief's
sources and the declarations. Collecting, selecting and joining lists were first written as
functions over places and mentions, so that they could be reasoned about.

What is left is what section 4 lists as only model-checked, and what section 5 leaves out.
