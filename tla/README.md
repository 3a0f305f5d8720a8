# evm-identity-saver-svc in TLA+

The service watches the Iden3 State contract of one EVM chain and reports to
Rarimo core what happens there.  Every oracle of the network runs one.  A
*saver* creates an operation in core for each transition of the contract; a
*voter* votes on the operations that all savers create.  This directory holds
TLA+ modules of the service, TLC configurations that check them on small
instances, and proofs, checked by TLAPS, that hold for every instance.

## The system

| Part | Source | State it keeps | Operations |
| --- | --- | --- | --- |
| State change listener (saver) | `internal/services/evm` | `fromBlock` in memory, the window, the iterator, the log at hand | one call of `subscription` per period: read the height, fetch the logs of a window, and per log craft, check and broadcast a GIST and a state operation |
| Message maker | `internal/rarimo` | none | search the histories of the contract for the transition of a block, or look two entries up by their hashes, and make a message of them |
| Event iterator | `pkg/state/state_lib.go` | log channel, error channel, `done`, `fail` | `FilterStateUpdated`, `Next` |
| Contract bindings | `pkg/state/state_v2.go` | none | lengths, pages and entries of the GIST history and of the histories of issuers |
| Voter | `internal/services/voting` | none of its own | catch up, subscribe to two kinds of operations, verify and vote |
| Revote API | `internal/services/grpc` | the gRPC server | `Revote`: verify one operation again |
| Process | `internal/cli` | wait group, context, signal channel | start the services of a command, wait for them or for a signal |
| Configuration | `internal/config` | per section: not read, read, or broken by a panic | read a section and build its client, when a routine first asks for it |

They interact as follows.  The saver calls the EVM node (height, logs, and
through the message maker the contract), core (does the operation exist?) and
the broadcaster service, which writes to core.  The voter is told of operations
by core, calls the EVM node and core to verify them, and votes through the
broadcaster.  Saver, voter and API are goroutines of one process that share the
context and the clients and nothing else; what they have in common is the chain
and core, both of which change under them.

Hard to get right, and aimed at by the properties:

- the chain is reorganised or grows between any two calls: between the fetch of
  a log and the search for its transition, between the pages of a search,
  between the two reads of a verification;
- `fromBlock` is all that keeps the saver from losing or repeating logs, it is
  unsigned, moved by a `defer`, and lost in a crash;
- a log leads to two broadcasts, each preceded by a check, with another oracle
  or an earlier life of the process doing the same;
- calls fail at every point, and each failure is handled in its own way;
- an iterator fed by a goroutine, selecting between data and its end;
- a catch-up followed by subscriptions, with a gap between them;
- sections of the configuration read late, by several goroutines, where a panic
  ends the process unless it is recovered, and stays with the section if it is;
- a shutdown while sections are read, the voter catches up or calls are under way.

`PROJECT.json` lists these hazards one by one with their lines.

## Modules

`StateContract` is the EVM chain with the contract (external; modelled as the
bindings and their callers rely on it).  `hist` holds one append-only history
per issuer and one of GIST roots, `head` the newest height, `final` the highest
block no reorganisation can replace.  A transition appends to an issuer's
history and to the GIST's; `Reorg` cuts everything above a block that is not
below `final`.  Hashes are abstract: a state is a model value, a GIST root is
the function of states it commits to, so roots are equal when they commit to
the same.  Timestamps are left out, for they come with the block.  `OpAt(t, k)`
is the operation made of two neighbouring entries.

`StateUpdate` is a search by block as a function of a history, `Lookup`.
`HistorySearch` is the same search as the code runs it, the length first and
then one page per step, on a chain that moves on between the steps.

`StateChangeListener` is the saver: one action per call that leaves the process.
`ReadHead`, `Fetch`, `NextEvent`, `EndOfEvents`, `CraftGist`, `CheckGist`,
`SendGist`, `CheckIssuer`, `CraftState`, `CheckState` and `SendState` follow
`subscription` from top to bottom; `Start` begins a life of the process and
`Crash`, a kill from outside, ends it; `Include` is core taking what was broadcast and `PeerCreates` the
saver of another oracle.  `Fault(k)` is the failure of a call; a broadcast that
is reported as failed may have gone through.  Arithmetic on block numbers wraps
at `Modulus`.  The history variables `lifeStart` and `handled` only serve the
properties.

`StateRelay` is the abstract specification: operations are created for final
transitions, by whomever, and never withdrawn.  `StateChangeListener`
instantiates it as `Relay`.  The refinement mapping is the identity on the chain
and takes `ops` to `Reported`, the operations core has with those that are on
their way to it: a broadcast that was accepted cannot be taken back, so the
promise counts from there, and `Include` is a stutter.

`LogIterator` is the iterator with the goroutine that feeds it and the loop that
draws from it.  In `StateChangeListener` a window is a set of logs from which the
oldest is taken, or which is abandoned at one that cannot be decoded.
`LogWindow` is that set by itself, an abstract specification that `LogIterator`
implements (`ImplementsWindow`): the refinement mapping takes `pending` to the
logs not yielded yet, `TakeLog` is a `NextEvent` or, at a log that cannot be
decoded, an `EndOfEvents`, `Exhausted` is an `EndOfEvents`, and what the
goroutine does is a stutter.  `IterationEnds` adds that the window is left.

`Voting` is the voter: `List`, `CaughtUp` and `Subscribe` are `RunVoter`;
`Process`, `ReadLatest`, `ReadReplaced` and `Vote` are one verification, of which
the catch-up, each subscriber and the API run at most one at a time.  Core gets
operations that are right, reorganised away, or wrong in their block or in the
entry they replace (`Claims`).  What `saver-grpc-lib` does is assumed, from how
`Verify` and `RunVoter` rely on it: an error means no vote, the catch-up panics
when it cannot list the operations, and an operation that cannot be processed is
passed over.

`Oracle` composes the two halves over one chain.  Savers appear by what they
promise (`Savers`, an instance of `StateRelay`, whose `Create` is `Save`), which
`StateChangeListener` is shown to implement; the voter appears in full.  `Save` is
external to the voter and translates none of the saver's control: it allows every
report the relay allows and promises none.  What the
voter hears of is then what savers report, and the question is whether the two
ways of reading a transition, as neighbours of a page and by the hashes of its
entries, at different times, come to the same.

`Configuration` is `internal/config`: which section each routine asks for, in
which order, what its reading may come to, and that it keeps what the first
call came to, a panic included.  `Lifecycle` extends it and is `cli.Run` with
`RunVoter` and `serve`: launch, the start of each service section by section
(`Load`), signal, cancellation, the catch-up and its being given up, the
subscribers, graceful stop of the gRPC server and exit.  A panic in a service
ends the process, one in the catch-up is recovered by the runner.

`MCStateChangeListener` and `MCHistorySearch` hold what only TLC needs.  The
operators marked `(mutation: ...)` are variants with a plausible mistake; put in
the place of the definition after them, each makes a property fail.

## Runs

| Run | What it shows |
| --- | --- |
| `Search` | The search ends (`SearchesEnd`) and returns what one look at the history would have (`AsIfAtOnce`), what it finds is there now (`FoundIsThere`), it asks for sensible pages only (`PagesInBounds`), and it misses nothing but transitions among the `states_per_request + 1` oldest entries (`MissesOnlyTheOldest`). |
| `Listener_interleaving` | From the current height, with one of two issuers supported, two transitions per block, reorganisations, two failing calls, a crash and the savers of other oracles between any two steps: what is reported is final (`OperationsAreFinal`) and one story (`NoFork`), only final logs are handled (`HandledAreFinal`), none is fetched twice (`NoRefetch`), one is lost only behind a log of an unsupported issuer and within a window of it (`LostOnlyBehindUnsupported`, the extent of what `Unsupported_issuer` shows), and the abstract relay is implemented. |
| `Listener_relay` | With the issuer filter on and undecodable logs, everything handled to the end was reported, the root before the state (in which order core takes the two is not said).  Lookups and broadcasts do not fail in this run, and it has no crash, no peers and one transition per block. |
| `Listener_liveness` | With the issuer filter off, the saver keeps up and every root deep enough reaches core, next to a peer and in spite of a crash and a failing call; no log is lost (`NoEventSkipped`; the run has no reorganisation, `NoEventLost` allows them) and no block handled is without a root (`BlocksRelayed`). |
| `Iterator` | No log is lost in the channel, the iterator is the window the saver draws from (`ImplementsWindow`), the loop ends, and a goroutine stays behind only when the loop was left with more to come than the channel holds. |
| `Voting` | No YES on what is false and no NO on what is true, where the block is final; what the voter hears of gets its vote. |
| `Oracle` | What savers report the oracle never votes NO on (`SaversAreConfirmed`), and what is reported before the catch-up lists, or once its subscriber listens, gets a YES unless a call of the verification fails (`ReportsAreVoted`). |
| `Lifecycle` | A signal ends the process, at whatever point of the start of its services it comes (`SignalStops`), and cuts off no revote (`RevotesAnswered`); a recovered panic leaves no section broken (`NoSectionBroken`); a gRPC server that dies ends a process that runs nothing but the API (`DeadServerEndsAPI`), and no other (`DiesAlone`). |

Four runs show the code at odds with what the repository says of it.

| Run | What it shows |
| --- | --- |
| `Young_chain` | `lastBlock -= blockWindow` wraps while the chain is shorter than `block_window`: logs of blocks that are not deep enough are handled, and `fromBlock` passes blocks that do not exist yet. |
| `Unsupported_issuer` | A log of an unsupported issuer makes `subscription` return, and the rest of the window is lost. |
| `Crash_between` | After a crash between the two broadcasts of a log its state is never reported, because its GIST operation exists. |
| `Same_block` | Two transitions in one block: the search, which compares block numbers only, returns the same one for both logs, and the root of the other is never reported.  It is the oldest of those that the newest page with one has behind its first entry; here, with pages of two entries, the second, so that the first root is lost. |

Further observations have no run.  What `Crash_between` shows needs no crash: the
GIST operation of another oracle, whose issuer filter may differ, makes this
saver skip the log with its state just as well.  The configuration in the repository's README leaves
out `states_per_request`, which then is 0: every page is asked for with limit 0
from behind the end of the history and nothing is ever found, which `Lookup`
says of 0 outright.  With `states_per_request` 1 a search asks for the same page for ever;
`ListenerAssumption` excludes it.  And a search that says that an entry "does not
exist" may have left it out among the oldest: `MissesOnlyTheOldest` gives the
exact extent.

### Bounds

Pages have two entries, so that histories of up to seven entries span several of
them; `Search` reads up to two pages after the length, from lengths at which the
oldest entries are reached and at which they are not.  (The properties of
`Search` also hold with pages of three, where neighbours share one entry in
three.)
`GenesisLen` entries lie before the first transition, enough for a search to
find it; reorganisations are one block deep and `block_window` is one, the
smallest values that let a log vanish.  `MaxHead` gives three further blocks,
hence two or three windows with `MaxBlocks` 1, of which the second exercises
the move of `fromBlock`.  `Listener_interleaving` allows two faults and one
crash, so that a call may fail, the process crash and a call of its next life
fail too; each issuer has one state to move to, which is enough for two
transitions in one block and for one to be reorganised away and made again in
another.  One of the two issuers is supported: a log that ends the subscription
and one that is lost behind it fit into a window, in one block or in two.  The
other runs of the saver have one fault; `Listener_liveness` has no
reorganisation, for what it checks of final blocks only.  More failures than these
are left to the proofs.  In `Iterator` the channel holds two logs and a window up
to five.  In `Voting` there is one operation at a time, because verifications
share nothing but the chain, and one `Revote` beside the voter; in `Oracle` one
transition, which a reorganisation may move to another block, up to three blocks
after the first.  In `Lifecycle` at most one section is wrong, for the first one
asked for decides, while every one that connects may fail besides.  Symmetry is
used on states, and only in runs without liveness.

### Fairness

`Start`: the deployment restarts the process.  `Subscription`: the runner
(`running.WithBackOff`) calls `subscription` again whether it failed or not, and
calls that fail return.  `Include`: core takes what the broadcaster accepted.
No fairness is assumed of the chain.  `FairSpec` of `HistorySearch` lets a search
under way go on.  In `LogIterator` goroutines that can run do.  In `Voting` each
routine goes on.  In `Lifecycle` services look at their context again and
again, calls of handlers come back, and the reading of a section returns or
panics; the catch-up need never succeed, it is given up when the context is
cancelled (`GiveUp`).  `Oracle` has the fairness of `Voting` only: none
is assumed of `Save`, since savers may leave a transition out for ever, as
`Crash_between`, `Unsupported_issuer` and `Same_block` show.  `ReportsAreVoted`
therefore starts from the report, not from the transition.

## Proofs

`DeepEnough` is the assumption on the configuration under which the saver is
safe: `block_window` is at least the depth of a reorganisation, and the chain is
older than both together when the service starts (without the second part
`Young_chain` shows what happens).  The assumptions on the constants are those
the modules name.

That everything is relayed needs more, and each theorem names what it needs:

- `Reliable`: no lookup and no broadcast fails, for the window is not visited
  again; `states_per_request` is not left out; and the histories are longer than
  a page when the service starts, because no page covers the oldest entries.
  Calls that ask for the height, fetch logs or ask whether an operation exists
  may fail, and logs may be undecodable.
- `TxPerBlock = 1`: no block has two transitions.  `Same_block` shows the root
  that is not reported otherwise; that its block has one all the same is
  `EveryBlockRelayed`, which does without the assumption.
- `Alone`: no crash and no other saver that reports GIST roots, for a root that
  is found in core ends the handling of its log (`Crash_between`).

| Theorem | Says |
| --- | --- |
| `ChainStepOK` | No step of the chain changes an entry of a final block, and entries stay in the order of their blocks. |
| `ValuesStayUnique` | No state occurs twice in a history, and no root. |
| `LookupSound` | What a search returns has a predecessor and was made in the block asked for. |
| `SearchIsALookup` | A search in pages, on a chain that moves, is one look at the history (`AsIfAtOnce`). |
| `FoundStaysThere`, `PagesStayInBounds`, `NothingElseMissed`, `SearchTyped` | The other invariants of `HistorySearch`. |
| `RootsStayPaired`, `BlocksStayUnique` | Every root keeps beside it, in the history of its issuer, the state it was installed for, in the same block; with one transition per block, a block names one entry of a history. |
| `LookupComplete` | With pages of two entries or more, a lookup finds a transition of every block that has one behind the `states_per_request + 1` oldest entries. |
| `SearchFinds` | In histories longer than a page at the start, a search for the block of a final log ends with a transition or a failed call. |
| `StoryStaysTrue` | What the abstract relay created stays true of the contract. |
| `TypeCorrect` | The saver keeps its types. |
| `OperationsStayFinal`, `HandledStayFinal` | What the saver reports and handles is final, under `DeepEnough`. |
| `RelayImplemented` | The saver implements `StateRelay`, under `DeepEnough`. |
| `OneStory` | `NoFork`, under `DeepEnough`. |
| `BlocksFetchedOnce` | `NoRefetch`, under `DeepEnough`. |
| `LossBounded` | `LostOnlyBehindUnsupported`, under `DeepEnough`, when no log is undecodable. |
| `NoEventLost` | `NoEventSkipped`, under `DeepEnough`, when moreover the issuer filter is off and no log is undecodable. |
| `RootsComeFirst` | `StateAfterGist`, when peers report GIST roots only. |
| `EveryBlockRelayed` | `BlocksRelayed`, under `DeepEnough` and `Reliable`. |
| `EveryRootRelayed` | `GistsRelayed`, when moreover `TxPerBlock = 1`. |
| `EveryStateRelayed` | `StatesRelayed`, when moreover `Alone`. |
| `NoLogLost`, `WindowImplemented`, `IteratorTyped` | The iterator ends for a reason (`EndsForAReason`) and implements `LogWindow`, whatever its channel holds. |
| `YesStaysTrue`, `NoStaysTrue`, `VoterTyped` | `YesIsTrue` and `NoIsTrue` of the voter. |
| `SaversStayConfirmed` | What savers report the oracle never votes NO on. |
| `PanicsEndTheProcess`, `NoRevoteCutOff`, `OthersGoOn`, `ProcessTyped` | `NoSectionBroken`, `RevotesAnswered` and `DiesAlone` of the process. |

The argument, per module:

*Chain.*  `ChainInv` says that heights and histories are in order; from it
`ChainStepOK` follows for each kind of block and for a reorganisation.
`Distinct` says that no value occurs twice; a transition keeps it because the
contract accepts only states its issuer does not have, and because a new root
differs from all earlier ones in the state of that issuer.  The latter needs
more than distinct roots: each root commits to states that are in the histories
of their issuers.  `Paired` and `OnePerBlock` say where the two entries of one
transition lie; a reorganisation cuts all histories at the same block, so that it
takes both entries or neither.

*Search.*  None of its invariants is inductive.  `HInv` adds that the history
whose length was read and the history now agree on the blocks up to the one
searched for, which is final (`Agreeing`; the chain keeps it by `ChainStepOK`),
that the next page is one of the pages of the former, and that nothing searched
for lies behind that page (`Progress`).  A page then has what the page of the
former has (`HitsAgree`), so its first hit is what `Lookup` returns
(`LookupHit`), since newer pages have none (`NewerPagesEmpty`, from `PagesApart`:
neighbouring pages share one entry and no more); and after the last page none is
left (`LastPage`, `LookupMiss`).  That pages leave no gap is `PagesCover`: the
position searched for lies in the first page that does not start behind it.
`SearchFinds` adds `Sought`, that the history searched has the transition, which
is so for a log that is on the chain (`Paired`) and final.

*Saver.*  `TInv` adds the types and that a log and an operation are at hand where
the control state says so.  `SInv` adds that the window lies in final blocks
(`WindowFinal`: the arithmetic does not wrap under `DeepEnough`), that the logs at
hand are in it, and that the operation at hand is genuine: then a search in a
history that may have changed since the log was fetched still yields a final
transition (`LookupSound`), and no step of the chain takes it back
(`GenuineForever`).  The refinement follows from `SInv` action by action.  With
`Distinct` two genuine operations that replace one value are one (`OneSuccessor`),
which gives `OneStory`.  `HandledBehind` places the handled logs behind
`fromBlock` or `lastBlock`, which gives `BlocksFetchedOnce`.

`OnChain` says that logs at hand or handled are on the chain, which their being
final keeps true.  `EInv` says that each log of the window is still with the
iterator, in front of none already taken, or handled; that the window is at most
`max_blocks_per_request` longer than one block; and that `fromBlock` is at most
one above `final`, so that a later block brings no log behind it.  When a log of
an unsupported issuer ends the subscription, what is left comes behind it in that
window (`RestIsBehind`): `LossBounded`, and without such a log `NoEventLost`.

`AtHand` says that the operation at hand is of the block and the history of the
log at hand, and that once the root is with the broadcaster, or found in core,
its block is reported; `RootsComeFirst` follows.  `BInv` says that every handled
log but the one at hand has its block reported: the lookup for a log finds
something (`LookupsFind`, from `Paired` and `LookupComplete`), and neither a
found operation nor a crash takes back what is reported.  Blocks are what the
induction can be about, since an operation does not say which log it was made
for.  With one entry per block the operation of a block is the operation of the
log (`BlocksName`: both are at the one position of that block), which turns
`BInv` into `EveryRootRelayed`.  For states, `OInv` says that every root reported
belongs to a log handled before the one at hand, so that `CheckGist` finds
nothing for a log that is handled for the first time, and `StInv` is `BInv` for
the histories of the issuers.

*Iterator.*  `Inv` numbers the logs: those yielded, the one that could not be
decoded, those in the channel and those to come are all of the window, in order,
and `done` is seen only after the goroutine has ended.  The logs not yielded are
then the numbers after those yielded (`PendingIsRest`), of which the next one
received is the oldest, and the refinement follows step by step.

*Voter.*  `VInv` says of each verification what it may rely on: the entry read
first is the one the history has for the operation, as far as blocks go that were
final when the verification began (`LatestOK`), and the message made with the
second read is what the history says there (`MsgOK`).  A value is in one place
only (`Distinct`) and what is final stays where it is, so a reorganisation between
the two reads can mix two chains only above those blocks.  `OInv` adds for
`Oracle` that what core has is genuine and final, hence so when a verification
of it begins: the message made is the operation, and the vote is YES.

*Process.*  `SectionsInv` says that what the catch-up asks for was read before it
began, by the verifiers; `RevotesInv` that a revote under way has a server, and
that the wait group holds the API for as long as that serves or drains; `AloneInv`
that without a signal both subscribers are there to hold the voter back,
GracefulStop was not called, and so no service but an API with a dead server has
ended.

Every safety property and every refinement a run checks is proved.  Only
model-checked is liveness (`CatchesUp`, `EveryRootReachesCore`, `SearchesEnd`,
`IterationEnds`, `LeaksOnlyBeyondBuffer`, `OwedIsVoted`, `ReportsAreVoted`,
`SignalStops`, `DeadServerEndsAPI`), which is out of the prover's reach.

## Not modelled

The methods of the generated bindings that nothing calls, the `Watch` and `Parse`
methods and the iterator's `Close` and `Error` among them: most of
`pkg/state`.  `internal/config/redis.go`, which is not part of the `Config`
interface.  Logging, the profiler, and the entry point, which turns the result of
`cli.Run` into an exit code.  The values of the configuration are constants of
the models; how their text is parsed is left out.  Checks of messages
(`ErrInvalidOperationType`, a message that does not unmarshal) are left out of
`Voting`, since the voter picks a verifier by the type of the operation.  Core,
the broadcaster, the voter library, the EVM node and the contract are external
and appear as the service relies on them.

## Plan

1. Done, models: chain, searches, saver, abstract relay; iterator, voter,
   configuration and process; savers and voter composed.
2. Done, proofs: every safety invariant the runs check, both refinements, and
   `NoRefetch`.
3. Next, models: several savers as full processes instead of `PeerCreates`; the
   catch-up page by page; the back-off of the runner.
4. Next, proofs: the steps on which the liveness of the saver rests, as safety:
   a round of `subscription` that no call fails moves `fromBlock`, and a window
   shrinks with each log.
