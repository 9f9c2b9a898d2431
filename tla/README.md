# A TLA+ model of Rblpapi

Rblpapi is an R package over Bloomberg's C++ library `blpapi`. An R call such as
`bdp()` or `getBars()` sends one request over a `Session` and blocks R while it
reads events from the session's queue, until it sees one it ends on. This
directory holds a model of that program, the instances TLC checks, and proofs
TLAPS checks. Paths are those of the repository below `src/` (`src/src/bdp.cpp`
is its `src/bdp.cpp`).

## Inventory

| component | code | state | operations |
|---|---|---|---|
| session and backend (library, external) | used in `src/src/*.cpp` | event queue, requests under way, up or down | `sendRequest`, `nextEvent`; the backend answers, rejects, drops, ends |
| request/response accessors | `bdp`, `bdh`, `bds` (with `getPortfolio`), `beqs`, `bsrch`, `getBars`, `getTicks`, `lookup`, `fieldsearch`, `getFieldInfo` `.cpp` | locals of the running call: types, accumulated result | one request and one event loop per call |
| field type lookup | `blpapi_utils.cpp:351-417` | list of types read so far | one request and one loop per field, run before the data request of bdp, bdh, fieldInfo |
| authentication | `authenticate.cpp`, `R/blpAuthenticate.R` | the `Identity` under construction, the default identity | by user id; by application (token, timeout) |
| subscription | `subscribe.cpp` | subscription list, correlation ids, iterator | subscribe, deliver to the user's function, unsubscribe on interrupt |
| connection and identity handles | `blpConnect.cpp`, `finalizers.h`, `blpapi_utils.cpp:53-75`, `R/blpConnect.R`, `R/defaults.R`, `R/init.R`, `R/blpDisconnect.R` | external pointers, `.pkgenv$con`, `.pkgenv$blpAuth` | connect, authenticate, look up the default, garbage-collect, attach |
| column types | `blpapi_utils.cpp:222-349`, `bds.cpp:42-216`, `bdh.cpp:117-121` | a column's R type and its cells | type a column, fill a cell |
| grid frames | `beqs.cpp:52-166`, `bsrch.cpp:50-169` | columns, inferred types | infer, fill |
| dates | `blpapi_utils.cpp:77-147`, `R/converters.R` | none | conversions |
| request building | `blpapi_utils.cpp:149-220` | the request | append securities, fields, options, overrides, identity |
| R wrappers, versions, generated bindings | `R/*.R`, `blpVersion.cpp`, `RcppExports.*` | none | argument checks, reshaping |

**Interaction.** R is single-threaded and every call blocks it, so calls never
overlap. What they share is the session and its ONE event queue. No accessor
looks at a correlation id: the next response event is taken for the answer to
the present call, whoever asked. Any call that leaves the loop before the last
event of its answer (an R error in a conversion, the early return of `bds`, the
timeout of an authorization) leaves that answer to later calls. The whole
component is correct because of a protocol nobody wrote down: *every call eats
its whole answer*. The model makes it explicit.

**What is hard.** Answers in several events; leftovers of earlier calls; requests
the backend drops or rejects; a session that ends while a call waits; a loop that
ignores the one event that would tell it so; indices taken from a message
(`bdp.cpp:72-75`) or counted by arrival (`bdh.cpp:170`). The list, at its lines,
is `hazards` in `PROJECT.json`.

**What makes each component correct.**

- accessors: in sync (nothing outstanding at the start) a call returns its own
  answer, whole, in order and once, and fails only because of what its answer
  says; what it returns instead of the whole (nothing for a refused request, the
  beginning when the session ends) is known; a blocked call is owed an event; no index out of range; out of sync
  happens only where an answer was broken off.
- field lookup: the type of the j-th column comes from the j-th request.
- authentication: one outcome per request; after a timeout nothing may use the
  late answer (it does: see below).
- subscription: ticks reach the callback under the topic they belong to; the
  subscription ends when `subscribe()` ends; an interrupt ends it.
- handles: an object is freed once and not used after; no object is lost; the
  default identity belongs to the default connection.
- column types and grids: every value of the response is in the frame as what it is;
  a row does not disturb the rows before it; a missing cell is NA.
- dates: conversion and its inverse agree, parts are not dropped silently.

## Modules

| module | what it is |
|---|---|
| `BlpSession` | external: the queue, the requests, the backend with its faults |
| `EventLoop` | the thirteen accessors on one session: one frame `call`, one action per event loop; the properties |
| `RpcService` | abstract: as long as the connection is in sync a call fails or returns its own answer, and it is named which accessors may return less than the whole, and when |
| `EventLoopRpc` | the refinement mapping from `EventLoop` to `RpcService` |
| `Subscription` | `subscribe()`, the user's function and what it may call, accessors on the same queue |
| `TickFeed` | abstract: messages come in, each is heard once at most, in order, by a call that listens |
| `TickData` | what `recursiveParse()` makes of a message for the user's function |
| `Connection` | C++ objects, external pointers, `.pkgenv`, attach, garbage collection, the end of the process |
| `ObjectLife` | abstract: an object is deleted once at most, and never while a call works with it |
| `Columns` | how an element of a response becomes a cell, for each of the functions |
| `Frames` | the loops over the rows of a response that type and fill the columns; extends `Columns` |
| `DateConv` | dates and instants as the numbers R keeps |
| `MCEventLoop`, `MCSubscription`, `MCTickData`, `MCConnection`, `MCFrames` | values of constants, and statements of the documentation and of comments |
| `EventLoopProofs`, `SyncProofs` | the proofs: the session's order, the event loops, what being in sync buys a call |
| `RpcProofs` | the proof that the event loops implement `RpcService` |
| `SubscriptionProofs` | the proofs: who owns what is open and who hears a message, what an end cancels, topics, what is not lost; that `Subscription` implements `TickFeed` |
| `ConnectionProofs` | the proofs about `Connection`, and that it implements `ObjectLife` |
| `TickDataProofs`, `FramesProofs`, `DateConvProofs` | the proofs about those modules |

`EventLoop` and `Subscription` compose with the session in two ways. `EventLoop`
uses `BlpSession`, with every event loop in full. `Subscription` has a queue of its
own that carries subscription events beside responses, and its accessors are one
generic loop (end on the answer to the request, skip everything else), so that
they can be nested in the user's function. In `EventLoop` a tick is like a
`notice`: an event no loop ends on.

### How the model corresponds to the code

`call` is the C++ frame of the running accessor; after the call it keeps the
result until the next `Begin`. Its `phase` is where the control is:

| phase | code |
|---|---|
| `ask` / `field` | in `getFieldTypes()`, before `sendRequest` / inside the loop of `getFieldType()` |
| `send` / `loop` | before the accessor's own `sendRequest` / in its event loop |
| `returned` | the accessor returned to R |
| `cut` | it returned to R because the session ended, with what it had by then (beqs, bsrch, getBars, getTicks, lookup) |
| `raised` | `Rcpp::stop` or an exception of the library became an R error |
| `undefined` | `securities[row_index]` was read past its end (`bdp.cpp:75`) |

`Begin(fn)` is the call from R to the first request: argument checks of the R
wrapper bound the securities (`bds` and `getPortfolio` take one). `AskField` and
`SendData` are the two `sendRequest`s; `RaiseBeforeSend` stands for everything
that may raise before one (service does not open, option without name, identity
pointer refused, no token, session down). `FieldEvent`, `BdpEvent`, ...,
`AuthAppEvent` are one turn of a `while` loop: take one event and do with it all
the code does. Accessors with the same loop share its definition: `BulkLoop`
(bds, getPortfolio), `GridLoop` (beqs, bsrch), `StreamLoop` (getBars, getTicks,
lookup). How the loops differ is what matters, and is kept:

| | reads of an event | on RESPONSE | on PARTIAL | REQUEST_STATUS | session end |
|---|---|---|---|---|---|
| field lookup | all messages | next field | keep | skip | skip |
| bdp | first message | return | add | skip | skip |
| bdh | first message | return | add | raise | skip |
| bds, getPortfolio | first message | return | **return** | skip | skip |
| beqs, bsrch | first message | return | **replace** | skip | return (cut) |
| getBars, getTicks, lookup | all messages | return | add; skip a responseError | skip | return (cut) |
| fieldSearch | all messages | return | add | skip | skip |
| authenticateWithId | first message | return | keep | skip | skip |
| authenticateWithApp | all messages | return | return | raise | skip; TIMEOUT raises |

**Subscriptions.** `stack` holds the running calls: R is single-threaded, but the
user's function runs inside `fun(ans)` (`subscribe.cpp:227`) and may call an
accessor or `subscribe()` again. A frame's `phase` is `wait` (in `nextEvent()`),
`iter` (in the `MessageIterator`, with messages `next .. last` to come) or `fun`
(the user's function runs). `Hear` is the body of the inner loop up to the call of
the function, `PassHidden` a message the library does not show any more,
`EventDone` the end of the iterator, `FunReturns` the return of the function.
`FunInterrupted` is an interrupt inside the function, which reaches the handler of
`subscribe.cpp:231` with Rcpp before 1.0.10 and is a long jump past it since.
`SubscribeRaises` stands for whatever raises outside the function
(`recursiveParse`). What `recursiveParse` makes of a message is `TickData`: in
`ParseElement` the elements within an element become a list with their names, its values
a vector whose class is chosen by the datatype; a message that ends in `Raised` there is one for which
`SubscribeRaises` happens. External assumptions: the library throws on a correlation id
that is in use in the session, and hides queued messages of subscriptions that
were unsubscribed.

`TickFeed` is what the user sees of it. Under the mapping the messages on their way are
those of the queue and of all iterators (`Pending`), the calls that listen are the
`subscribe()` calls on the stack (`Running`), and an accessor reads the connection when
it is the innermost call (`AccessorReads`). `Subscribe` is `Listen`, `Hear` is `Hear`, an
interrupt or an error is `Stop`, and a hidden message or one an accessor takes is `Skip`.

`Unsubscribe` cancels what is open under the ids of the call's list (`CidsOf`), as
`session->unsubscribe(subscriptions)` does: the list names its subscriptions by
`CorrelationId(i)`, and `i` starts from 0 in every call (`subscribe.cpp:192-194, 232`).
While the library keeps ids apart this is the call's own; once the backend has closed
one, a `subscribe()` in the user's function can be given its id, and if an error ends
that inner call, an interrupt of the outer one cancels the inner call's subscription.
`Stop` of `TickFeed` allows it. It never reaches a call that listens or one that began before.

**Connections.** `objs` are the C++ objects, `handles` the external pointers with
tag, address and whether a finalizer is registered; `held`, `con`, `blpAuth` and
the arguments of running calls are what the garbage collector finds. A `call`
frame keeps the raw pointers `checkExternalPointer()` returned, and any user
action may happen while it is the innermost (in the function of a `subscribe()`).
`.onAttach()` takes three steps, as it runs R code that may fail between them.
`Restore` makes a handle with a NULL address, which is what an external pointer
becomes when it is saved and loaded. The package has no `.onUnload`, so unloading
only drops `.pkgenv`. `Stale` is a default identity that is not of the default connection
(`IdentityOf`), be it another one or none. For `ObjectLife`, an object is owned when it was neither deleted
nor lost, and used when its address is among the raw pointers of a running call.

**Frames.** A value is its datatype (`dt`) and whether it is one the code treats
apart (`is`: null, an INT64 out of the range of an int, a number that is no date).
A cell is what its bits or its text were last written as, so that a number read as
a date is visible: a cell is `Shown` when it was written as the class the column
has at the end. A write is the set of columns it may leave; the empty set means
that it raises. R's `LOGICAL()` and `INTEGER()` accept each other's vectors and
nothing else; `REAL()` takes numeric, Date and POSIXct alike (`Storage`). For the
grids, `View` is what Rcpp makes of a column that is taken as a vector of another
type: numeric and Date share the memory, text is a copy, and text does not go back.
`Converts` is external: what `getValueAs...()` converts. Left out: row and column
names, their order, the suffix " Equity" of a Ticker.

**Messages of a subscription.** An element of `TickData` holds other elements, each
with a name, or values. `Elements[d]` are the elements with at most `d` levels below them;
`Parse[d]` is `recursiveParse()` on those, in terms of `Parse[d - 1]`. `Reached[k]` are the
pairs of an element and an item of the data that the same `k` names lead to, and `Within`
the elements below an element. External: an array
of sequences has values and no elements of its own, and `getValueAsString()` refuses
them, as it does in the grids (`Converts`).

**Dates.** `RDate` is the day number of boost's calendar less the epoch;
`NumberToRDate` is the other path, for a number in yyyymmdd format.

### What is abstracted

- The answer to a request is its messages `1..n`; `acc` holds the ranges read, so
  that "which answer, which part, how often, in which order" is all there is of a
  payload. The contents enter through three facts: the name of the message
  (`KindOf`, compared by the code with `strcmp`), the security and fields of the
  request it answers, and `err`: a message the converter throws on, or one with a
  `responseError`.
- bdp's and bdh's answers have one message per security, in order. (The backend may
  put several securities of a bdp in one message; the row arithmetic is then the
  same for each of them.) A `fields` vector is one name, different vectors have no
  field in common, and a row carries at least one of its fields, so a row of a
  foreign answer is refused by `colnames`/`fields` exactly when the vectors differ.
- A field search's message looks like a field info message to `getFieldType()`, and
  the reverse, as both are `fieldData` arrays; with more than one element the lookup
  raises: both outcomes are possible.
- `undefined`: reading past `securities` either compares unequal and raises, or the
  process is in an undefined state; both are steps of the model.
- The token of `authenticateWithApp()` comes over a queue of its own; a wait there
  without end is not modelled.
- A call's vector of securities is not empty; its fields share one value, which
  keeps the number of lookups apart (`todo`).
- A cell read with a type found for another call's field may or may not fit, so a
  call whose types are not its own (`~OwnTypes`) may also raise.
- The events of subscriptions on the same session are `Subscription`'s matter; in
  `EventLoop` they would be events every loop skips.

## Runs

Deadlock is not checked in any run: the user may never call again, and the bounds
end every behaviour. A frame is done when it is returned.

| run | instance | what it shows |
|---|---|---|
| `refdata` | bdp, bdh, bds, getBars; two- and one-security vectors; two messages in an event, two fields; bad and rejected; 4 requests | the inductive invariant of the proofs; in sync, results are own, whole or empty for a refused request, in range, and failures are owed to the answer; sync is lost only on a PARTIAL_RESPONSE or timeout; among accessors, lag never shrinks |
| `all_faults` | all 13 accessors, all faults, 2 requests | the event loops implement `RpcService`; what an accessor that loses nothing returns is whole, or empty for a refused request, or the beginning of the answer when the session ends; a blocked call is owed an event |
| `calls_end` | bdh, bds, getBars, authApp; all faults but rejection; 3 requests | every call returns, or is `Deaf`: its request was lost in a way its loop ignores |
| `stale_bdh` | bdh, bad messages; 4 requests | violation: `R/bdh.R:56-57` promises a list with one object per security, the retry of a failed bdh returns one with NULL entries |
| `beqs_partial` | beqs | violation: `R/beqs.R:41-42` promises the requested data, a screen in two events keeps only the second |
| `subscription` | two calls of one or two securities, nested or in turn, one request of an accessor, 3 messages, two of them in one event | who owns what is open, who hears a message, how often, in which order, under which topic; what an end cancels; that `TickFeed` is implemented; an interrupt is served while events keep coming; a nested accessor is owed its answer and returns |
| `tick_data` | messages of one or two elements of all 17 datatypes, with up to two values, one of them nested | the user's function finds every value under its name, but for the datatypes that become NULL; which messages stop the call |
| `connection` | 3 objects, 3 handles, 2 nested calls | one owner per object; no use after free; that `ObjectLife` is implemented; which connection the default identity is of after attaching, and that no later connection mends one that is of another; the end of the process deletes everything that was not lost |
| `default_doc` | the same with 2 and 2 | violation: `R/blpConnect.R:38-40`, a default made before `library()` is dropped by `.onAttach()` |
| `frames` | every table of 3 rows of one column, 2 rows of two and no rows, through the five functions; all 17 datatypes and five special values | which values are in the frame, what stands for the others, which tables stop the call; and the calendar of `DateConv` against counting the days of 1898-2102 (`DaysCounted`) |
| `na_doc` | bdp | violation: the comment at `blpapi_utils.cpp:223`, text columns start as "" |
| `fallback_doc` | beqs | violation: the comment at `beqs.cpp:116`, without rows the test is on an uninitialised bool |

`MaxReqs` bounds the requests of a behaviour, `MaxPieces` the messages of an answer
of unknown length, `MaxMsgs` the messages of one event, `MaxFields` the fields
looked up, `MaxMade` the messages of subscriptions, `MaxQueue` the queue length at
which the backend pauses, `MaxDepth` the nested calls of a `Subscription` and the levels
of a message in `TickData`.

**Why the bounds are enough.** The hazards of the event loops need a first call
that breaks off and a second that meets its leftovers. A typed call with one field
sends two requests, so four requests are two typed calls, or four untyped ones.
Two messages give a PARTIAL_RESPONSE and a RESPONSE, or an event of two; two fields
give a type that could go to the wrong column; two securities against one give a
row out of range. `all_faults` has two requests: one leftover and one reader for
each pair of untyped accessors. Two `subscribe()` calls are the outer and the inner
one, or the leaked and the next; three messages let two arrive in one event and one
after it. Two levels below a message make an element that has elements and is one
of several (`TickData`). In `Connection` three objects are two sessions and the identity of one: a
default identity whose connection was replaced, or was dropped by attaching.
In `Subscription` a call that takes over an id the backend closed, fails and is then
cancelled by the call around it fits into two calls and three messages. One request of an
accessor is not enough for one that meets the answer of another: that case of
`AccessorDue` rests on its theorem.
In `Frames` a cell depends on the element that typed its column, on itself and on
one that was written after it: three rows; the second column is there for the types
it leaves open and the call it may stop. The sample of `bsrch` is one row, as every
record has every field. Where a property is proved, the proof carries it to every
bound.

**Fairness.** `EventLoop`'s `FairSpec` assumes weak fairness of the running call (R
runs nothing else while it blocks, and `nextEvent` returns when the queue is not
empty) and of `Deliver(r)` for each request: the backend answers what it has not
dropped. No fault has to happen and the user need never call again. Weak fairness
of `Deliver(r)` is enough, as nothing but the end of the request disables it.
`Subscription`'s assumes the same of the innermost call and of the answers
(`Respond(r)`), and no more: ticks may stop, so `InterruptServed` supposes that
events keep coming, which is what the code needs too (`subscribe.cpp:207-208`).
`Connection`'s only fairness is that R runs the registered finalizers once the
process ends; garbage collection before that may never happen.

**Findings.** Besides the five violations: `Deaf` is a real state of the program. bdp,
bds, getPortfolio, fieldSearch, the field lookup and `authenticateWithId` wait for
ever when the session ends or the request is dropped, and `bdh`, which looks at
REQUEST_STATUS, still does so while it looks up its fields. A tick whose
field is an INT64 is NULL for the user's function, and a message that holds an array
of sequences, or instants beside times of day, stops `subscribe()` and leaves its
subscriptions open. When the session ends, beqs, bsrch, getBars, getTicks and lookup
return what has come so far as if it were all, and getBars, getTicks and lookup return
an empty frame for a refused request, of which only a line on stderr tells. An interrupt
of one `subscribe()` may cancel what another one left open, under an id that was given
out again. Attaching with `blpAutoAuthenticate` and without `blpAutoConnect` leaves the
identity of the connection it drops, which the next `blpConnect()` then uses. A datetime
before 1970 with milliseconds is shown a second late. The exceptions that
`ValuesShown`, `AbsentIsNA`, `AlikeReturns` and `TopicTrue` name are behaviours of
the code too (each was found necessary by removing it): a bds or beqs column that
mixes dates and numbers shows one as the other; a missing date of beqs is
1970-01-01, although `NEWS.Rd:103` says date vectors start with NA; a TIME stops a
bds; a topic may be wrong once the backend has closed a subscription whose id is
given out again.

## Proofs

TLAPS proves the following for every value of the constants (any securities,
fields, accessors, faults, responses and bounds), from the assumption each module
states about its constants and nothing else.

### The event loops

Assuming `SessionAssumption` and `EventLoopAssumption`:

- `TypeCorrect`: `Spec => []TypeOK`.
- `SyncCorrect`: `Spec => [](SessionOrder /\ SyncInv)`, and from it
  `OwnAnswerCorrect`: `Spec => []OwnAnswer`.
- `WaitOwedCorrect`: `Spec => []WaitOwed`.
- `DesyncCorrect`: `Spec => DesyncOnlyFromPartial`.
- `NoOutOfRangeCorrect`: `Spec => []NoOutOfRangeInSync`.
- `WholeAnswerCorrect`: `Spec => []WholeAnswer`.
- `NoSpuriousFailureCorrect`: `Spec => NoSpuriousFailure`.
- `LagCorrect`: `Spec => LagNeverShrinks`.
- `RefinementCorrect`: `Spec => RpcRefinement`, every step of the event loops is a
  step of `RpcService` or a stutter.

*Argument.* `OwnAnswer` is not inductive: that the next chunk is the call's own
depends on what is in the queue. `SyncInv` adds what may be outstanding at each
stage of a call that began in sync: nothing before a request is sent, the request
it waits for afterwards. It is kept because reading a RESPONSE finishes a request,
which is the session's half of the argument, `SessionOrder`: a RESPONSE or
REQUEST_STATUS is the last event of its request, and the end of the session is the
last event of all, after which nothing is owed. The lemmas at the beginning of
`EventLoopProofs` show it of the session alone (`SendOrder`, `TakeOrder`, `BackendOrder`); `LoopStep`
reduces the event loops to the three things an event does to the frame (skip, end,
collect), and `SyncStep` and `WaitOwedCorrect` are by cases on those. `WaitOwed`
is where the loops' ends matter: a call skips only events it does not end on.
`DesyncCorrect` runs the same argument at the last event of a call (`FinalClears`):
a closing event clears the one request that was outstanding, the session's end all
of them. For `NoOutOfRangeCorrect`, `AskedInv` ties the frame to the request it
sent; in sync the event is an answer to that request, and the service numbers the
securities of a request (`Row`: that its numbers are within the request is taken of
the service), of which there is at least one (`SessionAssumption`).

`WholeAnswer` needs the order of the messages inside the queue. `PiecesInv` says that
the events of a request are queued in the order of their messages and that one is a
RESPONSE exactly when it holds the last message; `WholeInv`, that in sync each of them
follows, without a gap, another one or what the call has collected, which starts with
message 1 and falls short of the last one. When the RESPONSE is read, all is collected. A
refusal is the only message of its request, so nothing was collected before it, and a call
remembers the refusal it passes over until it ends (`RefusedInv`). The end of the session
is the last event of the queue (`SessionOrder`): what has been collected then is what the
backend had sent, which is less than the whole. `NoSpuriousFailure` needs,
besides the own answer, that bdh has collected no more entries than there were messages
(`CountInv`), so that `ans[i++]` stays within the securities, and that the lookup read
its own message (`FieldAsked`).
`LagNeverShrinks` counts: a call adds one request to the set of those it owes
(`Owed`), and each event it takes removes at most one.

`RefinementCorrect` puts these together: under the mapping, `Begin` is
`Invoke`, the last step of a call is `Return` or `Fail`, a step after which nothing is
outstanding any more is `Recover`, the end of the session is `SessionEnds` (`Ends`), and any
other step leaves the mapped state. A `Return` hands over the whole answer, or an empty frame
for a refused request, by `WholeAnswer`; those that may hand over a part are `MayPart` at any
time and `MayCut` when they leave at the session's end (`CutOn`, `CutResult`). That the
connection is in sync after a `Return` of the whole is `FinalClears`.

### Subscriptions

- `SubscriptionTypes`, `LiveOwnedCorrect`, `InOrderOnceCorrect`, `CancelsOwnCorrect`,
  `TopicTrueCorrect`, `NothingDroppedCorrect`.
- `FeedRefinementCorrect`: `Spec => FeedRefinement`, every step is a step of `TickFeed`
  or a stutter.
- `AccessorDueCorrect`: `Spec => []AccessorDue`.

*Argument.* That no message is heard twice needs where messages are while they are
not heard. `OrderInv` says that the messages in the iterators of the stack and in
the queue are disjoint, that those of an inner call come after those of the calls
around it, those of the queue after all of them, and that none of them has been
told; each step only takes from the front of a queue or an iterator. `FramesInv`
ties the frames to the calls that were made: ids are distinct, so `Running` loses
exactly the call that returns. `LiveOwned` is inductive with it. For `TopicTrue`,
`CidInv` adds that no two open subscriptions share a correlation id (the library's
rule), that cancelled ones belong to calls that are over, and that a message is
about a subscription that was asked for: a message that is heard by another call
under the same id must then be about one the backend has closed. `CancelsOwn` needs the
order in which calls began: `AgeInv` says that the calls on the stack are numbered from the
outside in, and that no call shares an id with what is open of an earlier one. So what an
interrupt finds under the ids of its call is its own or of a later call. That one is over,
as every call on the stack is older than the innermost, so an error ended it (`LiveOwned`);
and as one id is open only once, the interrupted call's own under it was closed. For `NothingDropped`, `OthersEmpty` says that only subscription events
carry messages, so what an accessor skips without looking are all that leaves the queue
unheard: `PendingThen` writes the messages on their way as those of the innermost
iterator, of the iterators around it and of the queue, and each action is one of a few
changes to the three (`PendingTop`, `PendingPush`, `PendingQueue`, `PendingTaken`).

`FeedRefinementCorrect` needs one invariant more: `BelowInv`, a call that is not the
innermost runs the user's function of a `subscribe()`. So when an accessor is on top, or
has just returned, it is known who reads the queue. That a step leaves or shrinks
`Pending` is by the same few changes (`PendingMoved`, `PendingLess`, `PendingReport`, ...),
that a message is heard in order and for the first time is `InOrderOnce` of the state
after the step (`HeardGone` for its being on its way no longer), that a new call's
ids are not in use is `CidInv`, and what a `Stop` may cancel is `CancelsOwn`'s argument. `AccessorDue` is kept because a call that returns
never uncovers an accessor (`BelowInv` again), so that only the accessor itself could have
taken its answer, and it ends with any answer it takes.

### Connections

- `ConnectionTypes`, `OneOwnerCorrect`, `NoUseAfterFreeCorrect`, `AttachFreshCorrect`,
  `StaleStaysCorrect`.
- `LifeRefinementCorrect`: `Spec => LifeRefinement`, every step is a step of `ObjectLife`
  or a stutter.
- `ExitProgress`: at the end of the process each step runs a finalizer and leaves one less,
  and when none is left everything that was not lost is deleted.

*Argument.* `HandlesInv`: a handle that is not NULL points to a live object of its
tag that was not lost, has its finalizer, and no two of them point to one object.
`FramesInv`: the raw pointers of a call are still the addresses of its arguments.
A finalizer runs only for an unreachable handle, arguments of running calls are
reachable, and so the object of a call is not the one that is deleted. `LoadInv`
follows `.onAttach()` through its steps: no call of the user runs between them, so its
connection is still the default when the identity is made, and the identity it will
assign, a local, is not collected before it is. So the identity that `.onAttach()` leaves is
of the connection that was the default until then, kept or dropped (`AttachFresh`).

`StaleStays` is about all that may happen between two assignments of the default identity.
`OfInv` says that an object is of one that was made before it, so that it is never of one
made later (`NewConnection`); the defaults are reachable and their objects stay while R runs
(`DefaultsKept`), and the default identity is no NULL pointer (`ThereInv`).

`LifeRefinementCorrect`: a start or an authorization allocates one object, owned or lost
(`StartLife`, `AuthorizeLife`); a call takes its pointers from handles, whose objects are
owned by `HandlesInv` (`CallLife`); a finalizer deletes an object whose handle nobody
reaches, so no call uses it (`FinalizeLife`).

### Messages

- `DataCorrect`, `TickStopsCorrect`: the invariants of the run `tick_data`, for messages of
  any elements and any depth.

*Argument.* `Parse`, `Within` and `Reached` are recursive functions. An induction is
stated about the SET of the numbers for which a formula holds, since the induction
theorems of the library cannot be used (`Induction`, from the library's `WFMin`). The
first use of it is that each function satisfies its equation (`ParseEquation`,
`WithinEquation`, `ReachedEquation`); the others go down the levels of a message: what
raises and what does not, and that the item a name leads to was made of the element it
leads to. A name that is used twice leads to the same of its elements on both
sides. `TickDataAssumption` says that an element of level `d` holds elements
of level `d - 1`, and one of level 0 none.

### Frames and dates

- `FramesTypes`, `ValuesShownCorrect`, `AbsentIsNACorrect`, `FallbackTypedCorrect`,
  `AlikeReturnsCorrect`, `EarlierRowsKeptCorrect`: all properties of the run `frames`, for responses
  of any size over any set of elements.
- `DatesAgree`, `NumbersDiffer`, `DaysCountedForAll`, `DatesOrdered`, `SecondsKept`,
  `InstantsOrdered` of `DateConv`.

*Argument.* `FramesInv` says of each column where its class comes from (`ClassOK`:
an element of the column, the field's type, or the fallback where there is no
element), of each filled cell that it is shown or excused (`FilledOK`, with the
fact that a beqs column that is still numeric has been given numbers only: this is
what excuses the numbers when a date turns it into a Date column), and of each other
cell what it was made with or converted to (`EmptyOK`). `PassInv` says what the
first pass has typed when. A step is then by cases on the function: `PutOne` is what
a raw write does, `GridWriteOne` what a write through a view does. `AlikeReturns`
follows at the step that stops: a write that fails meets a column whose class came
from an element of another datatype (`BdsStops`, `GridStops`).

`DaysCountedForAll` is what TLC evaluates as `DaysCounted` for two centuries, for every
year: `DayNumber` is the days of the years, which begin in March (`YearLength`), of
the months in them (`MonthsAre`) and of the month. `DatesOrdered` follows from how those
sums grow (`YearsGrow`, `MonthsGrow`, `DayOfYear`). `SecondsKept` says what
`bbgDatetimeToUTC` makes of a date and a time of day: `total_seconds()` cuts towards zero, so
a time before 1970 with milliseconds gets a second too many (`Carry`). With `DatesOrdered` the
numbers of two datetimes are then in their order, across days, months, years and 1970
(`InstantsOrdered`).

*Model-checked only.* `CallsEnd`, `InterruptServed`, `AccessorEnds` and
`ExitFreesAll`: liveness under fairness is out of this prover's reach. What three of them
need besides fairness is proved: a call that blocks is owed an event or is `Deaf`
(`WaitOwedCorrect`), an accessor is owed its answer (`AccessorDueCorrect`), and the
finalizers run out (`ExitProgress`). The five
violations are counterexamples of TLC. Every other property of a run is proved. The proofs
say nothing of the fairness assumptions; `FairSpec` implies `Spec`, so that they hold of it.

## Not modelled

- `blpVersion.cpp` and the generated bindings: no state, no logic of the program.
- Which options and overrides a request carries (`blpapi_utils.cpp:149-192`): data no
  property tells apart; that building a request may raise is modelled.
- `bbgDateToPOSIX` and `bbgDatetimeToPOSIX` end in `mktime()`, whose result depends on
  the time zone of the process.
- Reshaping into xts, zoo and data.table in `R/*.R`.
- The token generation of `authenticateWithApp()`, on a queue of its own.
- The row and column names of a frame, and the order of columns.

## Plan

What is left is composition: the full event loops of `EventLoop` nested in the
functions of `Subscription`, so that the timeout of `authenticateWithApp()` meets ticks
that keep coming; and identities of an old connection on the session of a new one. Of
the hazards in `PROJECT.json` two have no property, that timeout
(`authenticate.cpp:158`) and the time zone of `mktime()` (`blpapi_utils.cpp:120`).
