# wrtc: a TLA+ verification project

`wrtc` (node-webrtc) binds Google's C++ WebRTC library to Node.js.  libwebrtc runs
its own signaling, worker and network threads; JavaScript runs on one thread, driven by
libuv.  Nearly everything that can go wrong in the C++ code under `src/src/` comes
from that meeting: callbacks on foreign threads, events queued for a loop that may be
stopping, natives that V8 collects, references that are counted by hand.  The modules
here model that part of the program and the conversions at its border, TLC checks them
on small instances, and TLAPS proves its safety, and what the combinators of the
conversions make of their parts, for every size.

All paths are relative to the repository; `rtc_peer_connection.cc` and its like are
under `src/src/interfaces/`, `event_loop.h` and its like under `src/src/node/`.

## 1. Inventory

| component | state it keeps | operations | what must hold |
|---|---|---|---|
| event loop (`node/event_loop.h`, `event_queue.h`, `events.h`) | a mutex-protected queue, `_should_stop`, a lock, one `uv_async_t` | `Dispatch`, `Stop` on any thread; `Run`, the close callback on the JavaScript thread | events in order, none lost while the loop runs; no lost wakeup or stop; the handle is never signalled once it is closing |
| wrapped object (`async_object_wrap.h`, `async_object_wrap_with_loop.h`) | a JavaScript object, a reference count, an async context, the loop inside it | constructor takes a reference, `DidStop` gives it back; `Ref`, `Unref` of other owners; collection by V8 | alive as long as its loop; freed in the end |
| async contexts (`async_context_releaser.cc`, `deferrer.cc`) | a queue of contexts, one `napi_async_work`, a mutex used as a flag | `Release` in destructors, `Execute` in a later turn | each context deleted once, the work never queued twice |
| promises (`node/promise.h`) | a `Promise::Deferred` and an event that settles it | `Resolve`, `Reject` on a foreign thread | settled once, in order |
| data channel (`rtc_data_channel.cc`) | `_jingleDataChannel`, cached attributes, its loop; `DataChannelObserver`, which collects events before the wrapper exists | constructor, `OnStateChange`, `OnMessage`, `send`, `close`, `OnPeerConnectionClosed` | no event lost between the two observers; nothing after the close event; the loop ends |
| peer connection (`rtc_peer_connection.cc` and `rtc_peer_connection/`) | `_jinglePeerConnection`, `_factory`, maps of channels, tracks and members, `_lastSdp`, its loop | offer/answer, descriptions, candidates, stats, tracks, transceivers, channels, close; libwebrtc's callbacks | promises settle in order, after what they announce; closing ends the loop; members follow libwebrtc's |
| members: transceivers, senders, receivers, tracks (`rtc_rtp_*.cc`, `media_stream_track.cc`) | pointers to each other, persistent references, reference counts | create-or-update, `replaceTrack`, `stop`, setters and getters | one wrapper per object, references balance, no dangling pointer |
| DTLS, ICE and SCTP transports (`rtc_*_transport.cc`) | a copy of libwebrtc's state under a mutex (not the SCTP transport), observers, a loop each | constructors, callbacks on the worker thread, `Stop` | the copy is up to date; the end is noticed whenever it comes |
| factory (`peer_connection_factory.cc`) | a counted default instance under a mutex, the count of its JavaScript object | `GetOrCreateDefault`, `Release`, from whatever thread destroys the last pointer to a source; `Ref`, `Unref` | created and released in pairs; nobody keeps the address of one that is gone |
| tracks and streams (`media_stream_track.cc`, `media_stream.cc`) | `_ended`, `_enabled`, an observer at libwebrtc's track, a loop; a stream's `Impl` | `stop`, `clone`, end of a received track; add, remove, clone; getters that wrap | a track is observed exactly as long as its wrapper may be called; its end reaches the wrapper |
| sources and sinks (`rtc_audio_*.cc`, `rtc_video_*.cc`) | lists of sinks, tracks made; `_stopped` and a loop per sink | `createTrack`, `onData`, `onFrame`; constructor, `stop`; frames on libwebrtc's threads | no address of a freed sink is kept; frames in order, from constructor to `stop` |
| `Wrap`, `BidiMap` (`node/wrap.h`, `utilities/bidi_map.h`) | two maps | get or create, compute if absent, reverse remove | they stay each other's inverse |
| pure code (`functional/`, `converters/`, `dictionaries/`, `enums/`, `i420_helpers.cc`) | none | conversion between JavaScript and C++ values, with accumulated errors | every error reported, a number kept or refused, what is read back can be passed on |
| JavaScript layer (`src/lib/nodejs/`) | listeners, wrapped natives | turns native callbacks into DOM events on `process.nextTick` | events in order |

How they interact.  A JavaScript call enters a wrapper's method on the JavaScript thread;
if it goes on into libwebrtc, libwebrtc's proxies run it on the signaling (or worker)
thread *while JavaScript waits*.  libwebrtc calls observers on those threads; an observer
never touches JavaScript but dispatches an event to the event loop of the wrapper, and the
loop runs it on the JavaScript thread.  Objects hold each other by persistent references
(`napi_ref_ptr`, `Ref`), which are roots for V8.

Behaviours that are hard: the grain of locks and `uv_async_send` (EventLoop); collection
of an object with threads inside it (ObjectWrap); a callback between two lines of a
constructor or a method (DataChannel, Transport, Sinks); an event that is handled after
`close` (PeerConnection, Members); long sequences of legal calls over counted references
(Members, Factory); addresses that libwebrtc keeps of objects which V8 may free, and memory
that is used again (Tracks, Sinks, BidiMap); several things wrong in one argument
(Conversion).  `PROJECT.json` lists them as hazards, at the line where each bites.

## 2. Modules and plan

| module | models | built on | status |
|---|---|---|---|
| `EventLoop` | one event loop, step by step | – | modelled, checked, proved |
| `Mailbox` | what an event loop promises: the abstract specification | – | implemented by `EventLoop` (proved for safety, checked for liveness) |
| `Mailboxes` | `Mailbox` as operators on a record, for modules with a loop per object | – | checked against `Mailbox` (`AreMailboxes`) |
| `ObjectWrap` | the life of the native around its loop | extends `EventLoop` | modelled, checked, proved |
| `AsyncContextReleaser` | release of async contexts | – | modelled, checked, proved |
| `DataChannel` | one data channel | one `Mailbox` | modelled, checked, proved |
| `Promises` | what calls that answer with a promise give the program: the abstract specification | – | implemented by `PeerConnection` (proved and checked) |
| `PeerConnection` | promises, events and end of a peer connection | one `Mailbox`; `Promises` | modelled, checked, proved |
| `Members` | transceivers, senders, receivers and tracks of several peer connections | – | modelled, checked (`MCMembers`: symmetry), proved |
| `Transport` | a DTLS and an ICE transport, or an SCTP transport | two `Mailbox`es, `Mailboxes` | modelled, checked, proved |
| `Factory` | the default factory and everybody who takes or keeps it | – | modelled, checked, proved |
| `BidiMap` | the two maps of `Wrap`, as operators | – | proved (in `Tracks_proofs`); used by `Tracks` |
| `Tracks` | tracks, their wrappers in `Wrap`, streams and sources as their users | `BidiMap`, `Mailboxes` | modelled, checked, proved |
| `Sinks` | audio and video sinks on local, received and video tracks | `Mailboxes` | modelled, checked, proved |
| `Validation` | `Validation` and the combinators the program uses | – | checked through `Conversion`, proved |
| `Converters` | the generic conversions of `converters/` and `napi.h` | `Validation` | checked through `Conversion`, proved |
| `Dictionaries` | the dictionaries and enums of `dictionaries/` and their rules | `Converters` | checked through `Conversion` |
| `MediaDictionaries` | samples, frames, statistics, errors | `Dictionaries` | checked through `Conversion` |
| `Conversion` | a program that fills in options, passes them, reads them back and passes them on | the four above | checked (`MCConversion`: widths) |
| `*_proofs` | theorems about the module of that name; `Tracks_proofs` also those of `BidiMap`, `Foundations_proofs` those of `EventLoop`, `ObjectWrap`, `AsyncContextReleaser`, `Validation` and `Converters` | | |

The order was: first the loop, because every other component trusts it; then what it
lives in; then the components in the order of how much happens between their threads; then
what they share (factory, maps, tracks, sinks); last the pure code at the border.

`DataChannel`, `PeerConnection` and `Transport` instantiate `Mailbox`, which the loop is
proved to implement; `Tracks`, `Sinks` and the SCTP part of `Transport` use the record form.
`Tracks` and `Factory` model the same objects from two sides: what libwebrtc and the
maps know of a track, and which factory it keeps.

Next, in this order:

1. JavaScript: `EventTarget`'s deferral and the non-recursive mutex in `MakeCallback`.
2. `setParameters` and `setDirection` of senders and transceivers, which pass a converted
   dictionary to a member that may be gone; `TestAudioDeviceModule`'s thread.
3. Proofs: action properties of `Sinks` and `Tracks`, as `DefaultStays` is one of
   `Factory` and `StateNeverBack` of `DataChannel`.

## 3. How the models correspond to the code

Atomicity follows the code's.  On the JavaScript thread a piece of code that makes no
call into libwebrtc, takes no lock that matters and reads nothing another thread writes is
one action.  A callback or call that touches shared state more than once is one action per
touch; the points between them are values of a program counter (`pc`, `runPc`, `js`, `sig`,
`worker`).  A call into libwebrtc needs the signaling (worker) thread to be idle, since it
executes there.

* **EventLoop.**  A caller's points are the lines of `Dispatch` and `Stop`
  (`event_loop.h:19-26, 74-77`); the run loop's are those of `Run` (`:39-72`): the check of
  `_should_stop`, `Dequeue`, the event, the check after it, the destructor of
  `CallbackScope` (which runs microtasks and `process.nextTick`), the exit, the lock,
  `uv_close`, its callback.  libuv merges signals: `pending` is a flag.  `accepted`,
  `taken` and `late` are history variables.
* **Mailbox.**  `sent` and `received` are EventLoop's `accepted` and `taken`; `noticed`
  says that `Run` is past its last look at `_should_stop`.  A stop between two
  events may be seen one event late, because `Run` looks only after each event.
* **ObjectWrap.**  `WrapRun`, `WrapCall` and `WrapFinishCall` are EventLoop's steps;
  `WrapDidStop` is the close callback with `Unref`.  `Ref` and `Unref` are the peer
  connection's.  JavaScript runs, and V8 collects, only where `JavaScriptPoints` says.
* **AsyncContextReleaser.**  Destructors and `Execute` are atomic (one thread, neither
  inside the other); the request goes through libuv's pool between them.
* **DataChannel.**  The constructor is three steps (register, requeue, zero the cache),
  `CleanupInternals` and the dispatch of the last event three more on the signaling
  thread, `send` two (ask for the state, use the pointer).  Local channels are those of
  `createDataChannel`, remote ones begin with `OnDataChannel`'s observer.
* **PeerConnection.**  `chain` is libwebrtc's chain of operations (external: modelled from
  how the observers are called), `posted` the observers to be called.  The observer of a
  setDescription dispatches twice, and something may come between.  Every event
  is an item of the mailbox: settle, candidate, members, a notice, a track, the end.
* **Members.**  One thread; what is hard is the sequence.  A transceiver of libwebrtc also
  stands for its sender, its receiver and the receiver's track.  `CreateOrUpdate` is the
  three functions of that name and the release of what is gone; every call that uses them
  (`addTrack`, `addTransceiver`, `getSenders`..., `OnTrack`, `OnAddTrack`, the two
  `processStateChanges`) is an action built on it.  `Unref` of a count that is zero throws
  (N-API's rule; the build has C++ exceptions on), so `Close` may be cut short, and
  the same inside a libuv callback is fatal (`crashed`).  `uncovered` is a history of the
  tracks that some peer connection may unreference without having referenced them: those
  given to `addTransceiver`, and the external ones that a `Close` cut short has left behind.
* **Transport.**  The worker thread's callbacks are two to four steps: copy the state,
  dispatch, stop the ICE transport, stop the loop.  While libwebrtc's internal ICE
  transport lives its signals never report "closed", and the network thread is the
  worker thread (`peer_connection_factory.cc` passes the same one).  `kind` says whether
  the peer connection has media or data; the constructor of the `RTCSctpTransport`, unlike
  the other two, registers on the worker thread and looks at the state afterwards.
* **Factory.**  `GetOrCreateDefault` is two steps, the part under the mutex (`Begin`) and
  the second reading of `_default` (`Take`); a source that libwebrtc destroys on its own
  thread may come between them.  `refs` is the count of the JavaScript object,
  `references` the program's own; `lost` and `lostRefs` are histories of what the code
  gives up without giving it back (the two `Init` functions, `getCapabilities`, the member
  that `MediaStream`'s constructor replaces), so that the other counts can be exact.
* **Tracks.**  A step is a whole handler on the JavaScript thread; libwebrtc's changes come
  in between, and their effect waits in the wrapper's loop.  A wrapper's identity is its
  address: it is used again after its finalizer.  Getters are one wrapped track
  per step (`GetOrCreate`).  The value of `enabled` is left out, the event that its change
  raises is not.
* **Sinks.**  A constructor that is refused, `stop`, and a piece of data on each of
  three sources: a local one, which has room for one sink and whose `PushData` reads it and
  calls it in two steps, a received one and a video one, which call their lists.
* **Mailboxes, BidiMap.**  Operators on a record each; a map entry is a function value,
  `Nothing` where there is none.  `BidiMap`'s operations are those of
  `bidi_map.h`, including what they do when both the key and the value are bound elsewhere.
* **Validation, Converters, Dictionaries, MediaDictionaries, Conversion.**  A JavaScript
  value is a record with its type; a dictionary is a list of members (name, type, required
  or default) and a rule, and one `From` goes by that table where C++ goes
  by template.  Strings are members of small sets that tell the accepted from the refused
  ones; integers have the widths of `Bits`, small enough that every boundary is reached, and
  a cast that is undefined in C++ (of NaN or 2^64 to 64 bits, of a large double to `int`) gives
  `cast`, which is any of `Casts` and stays what it is, as in one build.
  `Conversion` is the program: it sets members, passes the object, reads the result and
  passes that on; `Configured` and `Passed` add what the constructor of a peer connection
  does with its configuration before libwebrtc sees it.

Definitions whose comment begins with "Fault:" are not part of any specification: each is
the definition that follows it with one plausible mistake (a dropped guard, a missing
reset, a swapped order).  With it in place of the right one TLC refutes the property that
`PROJECT.json` pairs it with.  An invariant of several parts has one such pair there, and
modules keep faults for its other parts.

## 4. What TLC checks

Deadlock is not checked anywhere: the program may stop calling, and a loop that has closed
does nothing more.  States are distinct states on the instance of the cfg.

| run | instance | what it shows |
|---|---|---|
| `loop` | JavaScript and two threads, 2 events, 2 stops; 109 563 states | order (`FifoInv`), `NoLostWakeup`, `NoLostStop`, `HandleDiscipline`; `RefsBalance`, `OutlivesLoop`; a stopped object becomes collectable (`StopFrees`); the loop implements `Mailbox` with its fairness (`IsMailbox`) |
| `releaser` | 4 contexts; 320 | the work is under way while a context waits, nothing deleted twice, everything deleted |
| `channel` | local and remote, 2 messages; 19 471 | `NoEventLost`; only the hand-over reorders; the close event is last and comes after the channel is cut off, and `readyState` is not behind its events (`ChannelInv`); the loop ends |
| `pc` | an offer and two remote descriptions, or a local one, a candidate, a stats call and a notice; 277 457 | `MembersFirst`; promises are answered once, in order (`IsPromises`); the close event is last (`PeerConnectionInv`); a closed peer connection ends; promises settle while it is open |
| `members` | two peer connections, two transceivers, one track, 3 references, one waiting event; 4 022 256 up to symmetry | `MirrorsBalanced`, `MirrorsSettled`, `TracksOutlive`; pointers stay valid, and a member has one wrapper (`MembersInv`) |
| `transport` | 3 ICE signals; 225 177 | no listener is behind its event or hears one twice, no end unnoticed (`TransportInv`); all loops end |
| `factory` | a peer connection, two streams, a source, a user, two factories, up to 6 references; 58 877 | both counts are exact; one factory at a time, and no thread but JavaScript's frees it (`FactoryInv`) |
| `tracks` | two tracks, two addresses, two streams, one change; 205 469 | `OneWrapper`; observers exist and the source's tracks are held (`TracksInv`); the end of a track reaches its wrapper |
| `sinks` | an audio and a video sink, 3 pieces of data; 196 272 | addresses of sinks are good, a sink hears everything (`SinksInv`), nothing after `stop`; loops are mailboxes and end |
| `conversion` | 18 dictionaries, legacy statistics and errors; two members beside the required ones, two outcomes of an undefined cast, two reports; 200 508 | every error is reported, in order; a number is kept or refused (`TakenIn`); what is read back means the same (`GivenBack`) |

An invariant named `...Inv` (and `TakenIn`, `GivenBack`) joins the type invariant with the
parts named in the comment above it, one of which each hazard is about.  `TakenIn` and
`GivenBack` say what holds and name the exceptions of the code one by one, in `Slips` (numbers
accepted though they do not fit), `Seen` (what getters never give), `Refused` and `Mistaken`
(what setters refuse, or read as something else); nothing outside these lists is lost, for any
of the twelve dictionaries that have both directions.  The type invariants of the loop, of its
wrapper and of the releaser, and `AtMostOneLate`, are proved and no longer run.

Bounds.  The queue needs two events for order and for one event behind a stop; two stops
reach "stopped again while stopping".  Two threads contend for the lock besides the
run loop; the proofs cover any number.  Two messages and three changes
of state fill both queues of a data channel at once.  Three calls reach "one operation runs,
one waits, one is refused".  Two transceivers let one come while the other goes; two peer
connections share one track, which is what external references are about.  `MaxRefs`
cuts `addTrack` where each peer connection has already taken one reference.  One track does
not reach the case that two tracks of one peer connection depend on each other
(section 5, `Members_proofs`); the proof covers any number.
Three signals put a change before, during and after the end of a transport.  Two streams let
one take another's factory, and a second factory lets the first be forgotten and made anew.
Two tracks and two addresses reach "address freed, used again for the other track"; two
changes instead of one also pass (793 490 states).  Three pieces of data come before,
between and after a sink's constructor and its `stop`.  Two members beside the required
ones reach every rule of the code that relates two members, and two errors at once.  The
two outcomes of an undefined cast are the smallest and the largest number of 64 bits.

Fairness.  A callback or call that has begun ends (weak fairness on the steps inside it).
libuv comes back to an event loop again and again, but a program's call may come
in between each time, so `LoopReceive`, `LoopClose`, the `LoopTurn` of a sink and their
like are strongly fair where other JavaScript can disable them; in `Tracks` a call is one step
and disables nothing, so weak fairness is enough.  libwebrtc carries out what it has been
asked for: calls the observers that it owes, closes what is being closed.  The program, the
remote peer and V8 owe nothing: no fairness on calls, messages, frames, notices or
collection.

### Where the code departs from what the repository says

Two runs expect a violation, each of one property that quotes the repository.

| run | property | what happens |
|---|---|---|
| `members_foreign_loops` | `ForeignLoopsRun` | `Close` stops the loop of a track that was given to `addTransceiver`, against its own comment about tracks it does not own. |
| `audio_sinks` | `LocalSinksHear` | A second sink on a track of the same `RTCAudioSource` takes the place of the first, which hears no more, against `docs/nonstandard-apis.md`. |

Further configurations are kept beside the runs; TLC refutes every property they list.
Where there are several it stops at the first one: leave one in to see its trace.

| cfg | property | what happens |
|---|---|---|
| `DataChannelRefuted` | `InOrder` | a message that arrives between the registration of the new observer and the requeueing of the early ones (`rtc_data_channel.cc:80-83`) overtakes them |
| | `OpenNotDuringClosing` | open is heard when the channel is closing already |
| | `NoNullUse` | `send` uses the pointer after the signaling thread has cleared it |
| | `CacheFaithful` | the constructor zeroes attributes cached for good |
| | `ChannelReleased` | `Close` forgets the channels of `_peerChannels` |
| `PeerConnectionRefuted` | `QuietWhenClosed` | an event that waited when `close` was called is delivered after it |
| | `CandidateQueued` | a candidate is rejected although the setRemoteDescription before it succeeds |
| | `NothingCrashes` | in plan B, `OnAddTrack`'s event uses the factory after `Close` |
| `PeerConnectionCandidates` | `CandidatesSettled` | `addIceCandidate` on a closed peer connection may never settle |
| `MembersRefuted` | `TracksReleased` | `addTrack` twice takes two references, `Close` gives back one |
| | `ReceiverTracksReleased` | the peer connection's reference on a receiver's track is never given back |
| | `TrackKnown` | after `replaceTrack` an assertion fails |
| | `ClosedMembersUsable` | methods of members use the null peer connection after `close` |
| | `ClosedCollected` | members keep each other and a closed peer connection for ever |
| `MembersCovered` | `DereferencesCovered` | a track of two `addTransceiver`s is dereferenced more often than referenced |
| `ObjectWrapCalls` | `OutlivesCalls` | CHANGELOG 0.0.67 says objects are no longer freed under their loop; the loop's reference does not cover a thread still inside `Dispatch` (`event_loop.h:21-25`) after its event has been handled and the loop stopped |
| `TransportDtlsEnd` | `DtlsEndAnnounced` | the statechange event of the closed state waits in a loop that is stopped right after it, and may be dropped |
| `TransportIceClosed` | `IceStaysClosed` | a late signal overwrites the closed state |
| `TransportIceEnd` | `IceEndAnnounced` | the ICE transport becomes closed without an event |
| `FactoryReleases` | `EverybodyReleases` | `Init` of the sender and of the receiver, `getCapabilities` and a stream's replaced member never release |
| `SinksCrash` | `NeverCrashes` | `PushData` calls a sender's listener that has been removed after it was read |
| `TracksStale` | `NeverStale` | `Wrap` finds a collected wrapper until its finalizer has run |
| `TracksLate` | `EndReachesAll` | a wrapper made after its track has ended learns nothing |
| `ConversionRefuted` | `CandidateUnchanged` | the JavaScript class `RTCIceCandidate` turns missing members into null, which the native conversion treats otherwise |
| | `SurvivesReading` | read and passed on, an encoding loses `ssrc` and `maxFramerate` (`rtp_encoding_parameters.cc:75-91`), parameters their `degradationPreference` and a codec the names of its parameters; a `maxBitrate` or `clockRate` that became negative and a candidate's negative line are refused; an empty `sdpMid` becomes "null" and an empty `transactionId` "undefined".  True of none of `IceCandidate`, `RtpCodecCapability`, `RtpCodecParameters`, `RtpEncodingParameters`, `RtpParameters` |
| | `IdBelowLimit` | a channel id of 65535 is accepted, against the error's own text (`data_channel_init.cc:34`) |
| | `NumbersKept` | unsigned 32-bit limits become negative, wide numbers lose their upper half |
| | `WideRefused` | 2^64 and NaN are accepted as 64-bit unsigned integers, against the error's own text (`napi.cc:104`): line 103 compares a double with `UINT64_MAX`, which as a double is 2^64; what line 106 makes of them is undefined |

## 5. What TLAPS proves

Every theorem holds for all constants that meet the named assumptions of the modules;
each item says what they are.

* `Foundations_proofs`, four components.

  The event loop, for any sets of callers and events and any natural number of stops, if
  JavaScript is one of the callers, `NoOp` no event and `NoOne` no caller: `TypeCorrect`,
  `Fifo`, `HandleSafe`, `LateSafe`, `WakeupSafe`, `StopSafe`, and `Refinement`: the safety
  part of `Mailbox` is implemented, so that what the other modules assume of a loop holds
  for any number of threads.
  None of the properties is inductive alone.  `HandleDiscipline` needs to know who holds
  the lock where (`LockInv`), that JavaScript is never inside `Dispatch` while `Run` is
  between two lines (`JSInv`: it is one thread), and that the handle closes only after a
  stop (`StopInv`); together with `LateInv`, which bounds what is taken after a stop, they are
  `ControlInv`.  Given that, the two wakeup properties, which say that a signal is pending
  *or somebody is about to send one or to look again*, are inductive as a pair (`WakeInv`).

  The object around it: `WrapIsLoop` (every step of the wrapped loop is a step of the loop,
  so all of the above carries over), `WrapTypeCorrect`, `ReferencesBalance`,
  `LoopOutlived`.  `WrapInv` is the two properties together: the count is exactly
  what the other owner and the open handle account for, so an object with an open
  handle is not collected; who is inside it on the JavaScript thread came in
  while it lived.

  The releaser, for any set of contexts: `ReleaserTypeCorrect`, `ReleaseNotLost`,
  `ReleaseQueued`, `ReleaserWellUsed`.  `ReleaserInv` adds that the flag is taken
  exactly while the work is under way (`FlagInv`): only then may a `Release` that finds it taken
  rely on that work.

  The conversions, for outcomes of any values and errors and with the widths that the C++
  types have.  `CurriedCorrect`: any number of arguments end in an exception if one of them
  throws, else in all values in order, or in all errors of all arguments in order;
  so `ErrorsNotEmpty`: there is an `errors[0]` to report, if each refused argument has one.
  From it `DictionaryCorrect`, for any list of required, optional and defaulted members,
  and `VectorCorrect`, for arrays.  `NumbersFit`: a whole number that an integer
  type holds is kept and any other one is refused, except that the code at 64 bits accepts 2^64,
  whose cast may give any number of 64 bits, and as a signed integer 2^63, which becomes
  2^63 - 1; `CastsToInt`: the `static_cast<int>` behind it changes exactly what an `int`
  cannot hold.
  Induction is out of reach, so the argument about the recursive function
  of `Curried` takes the least number of arguments at which the claim would fail (`Least`) and
  shows that one argument more keeps it (`BoundOneMore`).  "All errors in order" is
  `Joins`: offsets at which the list of each argument begins in the whole one.
* `DataChannel_proofs`, for any natural number of messages: `CloseSafe` (`ChannelInv`),
  `HandoverOrder` (`OnlyHandoverReorders`), `NothingLost` (`NoEventLost`), and the action
  property `StateNeverBack` (`ReadyStateGrows`).  To the queues
  every step is one of five shapes (`Shapes`: an event is stored, queued, requeued or taken,
  or none is).  The close event is last because its handler leaves only a stopped loop
  behind (`LastInv`), and follows the cleanup because nobody observes afterwards
  (`RegisteredInv`, `CutOffInv`).  Order is an invariant of all three queues together: what
  the early observer still holds is newer than what it has passed on (`OrderInv`); and since
  numbers only grow, a new event is counted once (`CountStep`).  `readyState` is not behind
  the events and never goes back, because libwebrtc's state only goes on (`StateGoesOn`), no
  event tells of more than has happened (`RankInv`), and the pointer is only taken from a
  channel that is closed (`NullInv`).
* `Transport_proofs`, for any natural number of signals: `TransportCorrect`
  (`TransportInv`), of both kinds of connection.  `DtlsInv` and `SctpInv` say for every point
  of the two threads what has been done by then; for the SCTP transport, whose constructor
  and callback may both find the closed state, that each finishes what the other has left.
  A listener is not behind because the copy only grows older (`AgeGrows`) and nothing is
  sent that is newer than the copy (`AgeInv`).  It hears each change once, because what has
  been announced is older than what the callback is about to announce (`HeardInv`).
* `PeerConnection_proofs`, for any calls, if `"none"` is not one of them: `EndSafe`
  (`PeerConnectionInv`), `ResolvedIsShown` (`MembersFirst`), `OrderKept` (`SettledInOrder`),
  `SettledOnce` (`IsPromises`).
  The loop sees four shapes of steps (`Shapes`).  A resolved description shows because its
  promise's event is sent after the members' one (`SentInv`), is taken after it
  (`PrefixInv`), and that one has done its work by then (`ShownInv`).  For the order, a
  call that is not settled is in one of four places: the chain, the posted observers,
  between the two steps of a success, or the loop (`Staged`).  Every place is in the order of
  the calls and before the places behind it (`PlacesInv`), a step moves the first of one
  place to the end of the next (`OrderShapes`), and what is pending is what is in the places
  (`IssuedInv`); so nothing that is pending was called before what is settled.  That a
  promise is answered once, `SettledOnce` adds for every call: an answer on its way in the
  loop belongs to a promise that is pending, and no other answer on its way does
  (`AsideInv` for the calls outside the chain: candidates and statistics).
* `Sinks_proofs`, for any sets of sinks and any natural number of pieces of data, if no
  sink is called `"idle"`: `SinksCorrect` (`SinksInv`), `StoppedIsQuiet`
  (`QuietOnceStopped`), `SinksAreMailboxes` (`AreMailboxes`).  The lists of the sources and
  the `_track` of the sinks say the same (`LinkInv`); a sink that has its track exists
  and its loop goes on (`LifeInv`).  So whoever is delivered to exists, and who has stopped is
  on no list.  What a sink was sent grows by one with each delivery
  (`HearsOneMore`), and each step on a record of `Mailboxes` is the step of a `Mailbox`.
* `Tracks_proofs`, for any sets of tracks, addresses and streams and any natural number of
  changes, if tracks and addresses are different things and `None` is neither.

  `BidiMap` first, where a track stands for any key and an address for any value: every
  operation leaves maps that mirror each other so (`EmptyMirrored`, `RemoveMirrored`,
  `ReverseRemoveMirrored`, `ComputeIfAbsentMirrored`, `ReverseComputeIfAbsentMirrored`,
  `ReverseMirrored`), except that `set` does so exactly if the key had no value, or that
  one (`SetMirrored`).

  Then `TracksCorrect` (`TracksInv`) and `WrapperIsOne` (`OneWrapper`).  A new track
  has no wrapper yet (`BornInv`), so `Wrap` sets only keys that have none, and the maps stay
  mirrored through every reuse of an address.  An address belongs to its track until the
  finalizer (`LifeInv`), V8 collects only an object whose loop has closed, a loop
  closes only after a stop (`LoopInv`), and a stop comes with the end of observing: so
  libwebrtc observes through live wrappers only.
* `Factory_proofs`, for any finite sets of peer connections, streams, sources and users, the
  first three without common elements, any factories and any natural number of references: `FactoryCorrect`
  (`FactoryInv`), `ReleasesAreCovered`, `AddressesAreHeld`, and the action property
  `DefaultStays`: once the module is loaded there is a default factory and it is never
  another one.  Both counts are cardinalities of sets of holders; a step changes one holder, and
  the counts with it (`Counted`).  `CallInv` says what a call under way is about, so that
  the part after the mutex meets the object it left.  `CountInv` holds the reason why the
  second reading of `_default` is safe: the two `Init` functions have forgotten a
  reference each before anything else runs, so no `Release` is the last.  That leak
  (`FactoryReleases`) is what the safety rests on.
* `Members_proofs`, for any finite set of peer connections, none of them a member, any
  transceivers and tracks and any bounds: `MembersCorrect` (`MembersInv`, with `SameMember`),
  `MirrorsAreBalanced`, `MirrorsSettle`, `TracksAreOutlived` (`TracksOutlive`).
  A wrapper has one reference exactly while it is in a map (`WrappersOK`).  Nothing gets
  into a map of a closed peer connection whose loop has ended (`LoopsOK`, `ClosedEmpty`):
  its events are gone.  A member of an open peer connection has no second wrapper
  (`SameMemberStep`): a wrapper leaves the maps only when libwebrtc has let go of its member,
  which never comes back.  If events wait, the last of them compares the maps
  with libwebrtc's (`EventsOK`), so with none waiting they agree (`AllSettled`).  A track's
  count covers its creator, its open loop and everybody who has it among the external tracks,
  because the tracks that `Close` dereferences without that are `uncovered` (`MapsOK`); a
  step changes the takers by one peer connection (`TakersChange`).

  This proof has corrected the property.  `TracksOutlive` used to leave out only the
  tracks given to `addTransceiver`, and passed with the one track of the run.  With two it is
  false: `addTrack(u)` and `addTrack(t)` on p, `addTransceiver(u)` on p and q, `q.close()`,
  the end of u, `p.close()`: u's count runs out half-way through `Close`, whose exception
  leaves t among p's external tracks without its reference, and each further `close` takes
  another.  So one track of `addTransceiver` spoils the count of another that was never given to
  it; `TracksOutlive` now leaves out such tracks too, from that moment on.

Only model-checked:

* every liveness property, and the liveness half of the refinement: fairness and
  `ENABLED` are beyond the prover;
* the conversions as a whole (`TakenIn`, `AllErrorsReported`, `GivenBack`), over the samples
  of `Conversion`: they go by induction over the structure of a type, which the
  prover cannot do, and are written with recursive operators.  What one level of a
  type makes of the level below is proved;
* what the further configurations refute, which is false.

## 6. What is not modelled

* libwebrtc itself, libuv and N-API: only as the code uses them.  Definitions for them are
  marked external in `PROJECT.json`.
* Contents of descriptions, candidates, messages and statistics, beyond what the
  conversions tell apart.  So also the race on `_lastSdp`, whose effect is the text of
  a description; data races inside `std::map` (hazards) have no defined effect to
  model.
* `PeerConnectionFactory`'s constructor: its threads and their failures; the exceptions
  of arguments that `_default` is constructed with.
* The factory pointer that `OnDataChannel`'s observer keeps from the signaling thread.
* Receivers' and senders' `setParameters`, `setDirection` and the getters of parameters, DTMF,
  `setConfiguration` beyond its conversion, `restartIce`, the attribute getters; certificates,
  `OnError` and roles of transports.
* Tracks of receivers are not handed back to `addTrack` (Members).
* The second wrapper of a member that is closed or gone: an event that comes after that
  may make one while the program holds the first.  Members counts one of each.
* `BidiMap::FromMap`, which is never instantiated; the value of `MediaStreamTrack.enabled`;
  constraints and ids of `getUserMedia`; `getDisplayMedia` only rejects.
* Pixels of frames, and frames of odd width or height; `ZeroCapturer`;
  `TestAudioDeviceModule`, a copy of a test device of libwebrtc, whose thread touches
  nothing of this program.
* A release of a context from within the deletion of another: `Execute` holds the mutex that
  it would wait for.  Nothing in `src/` does that.
* That doubles near 2^63 and 2^64 have no fraction and skip whole numbers: the model passes
  more numbers to the 64-bit conversions than JavaScript has.
* Deferral of listeners in the JavaScript layer (`process.nextTick`): handlers run right
  after the event that causes them, inside the loop's turn (`ticks` in EventLoop).
* `MakeCallback`'s mutex: no listener runs synchronously inside it.
* Pure I/O and build: `binding.cc`, `src/test/`, CI, the browser shim.
