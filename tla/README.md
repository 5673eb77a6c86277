# fdreadoutlibs in TLA+

TLA+ models of fdreadoutlibs, the detector-specific part of the DUNE readout:
the raw-data processors that check frames, find hits in them by software or
unpack hits found by firmware, and send trigger primitives (TPs) and TPSets
downstream. The modules are checked with TLC on small instances and the main
results are proved with TLAPS for every value of the constants.
`PROJECT.json` maps each definition to the source lines it stands for, and lists
components, runs, mutants, hazards, findings and theorems.

Source paths below are relative to `src/include/fdreadoutlibs/` unless they
start with `src/`.

## 1. Inventory

The library is a set of processor classes, one per front end, that plug into the
base class `TaskRawDataProcessorModel` of another package (`readoutlibs`). Run
control calls `conf`, `start`, `stop` and `scrap` in this order (start and stop
any number of times in between). Data arrive as *superchunks*; for each one the
base class runs the registered preprocess tasks in one thread, then hands it to
one thread per registered post-process task.

| Component | State | Operations | Hard behaviours | What makes it correct |
|---|---|---|---|---|
| TP handlers: `WIB2TPHandler`, `WIBTPHandler` | heap of TPs, run number, TPSet counter, start of the last delivered TPSet, sent counters | `add_tp`, `try_sending_tpsets`, `reset`, `set_run_number`, counters | timestamps that go back because two halves share a handler; three strict comparisons that must fit together; sends that time out one by one | no TP lost or sent twice; windows complete, in order, once; nothing overdue stays |
| WIB2 software TPG: `wib2/WIB2FrameProcessor.hpp` | two `WIB2FrameHandler`s (pedestals, `first_hit`), queue of free destinations, queue of results, consumer thread, handler | `conf`, `start`, `stop`, `scrap`, `find_hits` (two threads), `add_hits_to_tphandler`, `get_info` | a consumer that outlives runs; a full result queue; a spin for a destination; a throwing push; buffers deleted at scrap | a destination has one owner; bounded leak; commands end; pedestals and hits belong to the run |
| ProtoWIB software TPG: `wib/WIBFrameProcessor.hpp` | two `ProcessingInfo`s, hit buffers, one flag and one pointer between two threads | `conf`, `start`, `stop`, `scrap`, `find_collection_hits`, `find_induction_hits_thread` | a handshake of two spinning threads over one flag and a stack object; buffers deleted at stop under a thread that runs on | hits are those of the superchunk they are sent with; nobody waits for ever; no dead object is touched |
| Firmware TPs: `wib2/RAWWIBTriggerPrimitiveProcessor.hpp` | hits waiting for their continuation (`m_A`, `m_T`), handler | `tp_unpack`, `tp_stitch` | hits cut at frame ends, 64-bit times compared as `int`, state that `start` does not clear | every hit leaves in exactly one TP; parts of a TP are neighbours |
| Timestamp checks of all front ends, `frame_error_check` of WIB | previous timestamp per link or channel, error counters, registered intervals | the preprocess tasks, `start`, `stop` | lost superchunks; the first superchunk of a run; what `start` forgets and what it does not; emulator mode; counters that saturate and decay | what is registered as missing is what is missing; emulated time runs evenly; the sink of errored frames is not flooded |
| Hit finders: `wib*/tpg/Process*.hpp` | per channel pedestal, quartiles, accumulators, filter history, hit in progress | `process_window_avx2` (two), `process_window_rs_avx2`, `process_window_naive` | 16-bit wrap and saturation, a 64-bit product over four lanes, state carried over window ends | every stretch over threshold is one TP; AVX2 and scalar form agree |
| Frame expansion and channel maps: `wib*/tpg/FrameExpand.hpp`, `src/wib/tpg/FrameExpand.cpp`, `RegisterToChannelNumber.hpp` | none | `expand_message_adcs_inplace`, `expand_wib2_adcs`, `get_register_to_offline_channel_map*`, index tables | a permutation of bits by hand-written masks, tables written down independently of it | a slot holds the bits of its channel, in order, at its time; the map names that channel |
| DAPHNE list request handler | skip list | `daphne_cleanup_request` | inserts between its accesses, late ones too; an untested null | only old superchunks go, the head exists |
| TP emulators | thread, emulated packets | `conf`, `start`, `stop`, `scrap` | moved-from payload after a timeout | packets counted are packets sent |
| Type adapters | none | comparison, fake timestamps | overlaps | - |
| Legacy stubs, test programs | none | - | - | - |

Interactions: `find_hits` threads -> result queue -> `add_hits_to_tphandler`
thread -> TP handler -> two sinks, in WIB2; collection thread <-> induction
thread, and collection thread -> TP handler, in ProtoWIB; unpack task -> stitcher
-> TP handler, for firmware TPs. `get_info` reads and resets counters from a
third thread.

## 2. Modules

### TPWindowing, TPHandler, TPHandlerProofs

`TPHandler` is the class of that name of WIB2 (`DropLate = TRUE`) and of ProtoWIB
(`FALSE`); the two differ by the late check. The heap is a set, its top any
element of least `time_start`; a TP is its order of arrival and its time. One
action per operation: `AddTP`, `TrySendingTPSets`, `Start` (`set_run_number` and
`reset`, which the processors' `start` calls together), `GetSentTPs`,
`GetSentTPSets`; and `NextItem`, the caller turning to data of another timestamp.
Each send of a TP or a TPSet may time out, alone. The history variables
`accepted` and `tpsets` record the TPs of the run and every TPSet built, whether
it was sent, timed out or was dropped as late; `behind` records how far the
callers' timestamps ever fell behind the newest one.

`LateExactly` ties the outcomes together: a TPSet is thrown away as late exactly
when one that starts later has gone out, so those that go out are in time order,
and one that timed out makes no other late.

`TPWindowing` is the promise without clocks: TPs come out in whole windows, in
order, each window once. `TPHandler!ImplementsWindowing` instantiates it with
the heap as `pending`, the end of the last TPSet as `closed` and the TPSets as
`emitted`. The windows of the abstract specification are those built, the ones
whose send timed out included: a sink that does not keep up loses TPSets, and no
specification of the handler can promise otherwise.

The interesting number is the skew between callers. Both age tests are strict,
so callers up to 2 ticks apart still get whole windows; up to `Window + 2` apart
windows may be sent twice but never out of order; beyond that WIB2TPHandler's
late check throws TPSets, with their TPs, away, and WIBTPHandler (which has one
caller) would send them out of order.

### BufferPool, SWTPGPipeline, MCSWTPGPipeline, SWTPGPipelineProofs

The pipeline of `WIB2FrameProcessor`: run control, one producer per half, the
consumer. Program counters follow the code between its shared accesses:
`TakeSuperchunk` (expansion, first superchunk), `GetPrimfindDest` (the spin),
`PushHits` / `DropHits` / `UnknownAlgorithm`; `OuterLoop`, `PopHits`,
`NoMoreHits`, `ProcessHits`, `SendTPSet`, `FreePrimfindDest`. `start`, `stop` and
`scrap` are two actions each, with the threads running in between. A destination
is an identity; `m_dest_queue` is a set because the order and the number of equal
elements play no part (an element is in it once: `ExclusiveBuffers`). What
happens to a buffer is kept in `allocated`, `deleted`, `leaked`. Of the TP
handler the module keeps the run number it stamps on TPSets and the runs its TPs
come from: `origins` for those in its heap before the result now being processed,
`recent` for those of this result. A TPSet takes any of the first and none of the
second, since the age test keeps a TP for `m_tp_timeout` after it came in: it
takes a later result to send it. How much later is left open (`TPHandler` has the
times).

`BufferPool` is the promise about the destinations without threads and queues:
the life of a buffer from free to written, waiting, read and free again, lost only
where there is no room to wait, deleted only while free. `Stages` says where in
its life each buffer is in a state of the pipeline, and `ImplementsBufferPool` is
the specification of the pool under that mapping: `Capacity` is the room,
`DestCapacity` the size, and the number of halves that of writers. A step of the
pipeline that moves no buffer, such as `SendTPSet`, is a stutter; `Conf`,
`ConfThrows` and `ScrapDone` fill, overfill and empty the pool.

External and modelled from its use: the base class joins its threads at `stop`,
and forgets the tasks at `scrap`; superchunks it had queued are not taken after
`stop`; a `FollyMPMCQueue` is a bounded queue whose `push` throws after its
timeout, and scrap is commanded only after stop. A command that throws leaves
run control in `failed`; an exception that leaves a thread, or a null handler in
`start`, ends the process (`aborted`).

### InductionHandshake, InductionHandshakeProofs

The two threads of `WIBFrameProcessor`, one action per access to the shared
pointer, flags and buffer, each of the exits of the induction thread's loops an
action of its own. A superchunk is a number; the hit buffer holds the number of
the superchunk its hits were found in, or is deleted.

### TPStitcher, TPStitcherProofs

`tp_stitch` of `RAWWIBTriggerPrimitiveProcessor`. An iteration of its loop is one
action, `Stitch`, with a case for each path through the body: `CompletesTP`,
`EndsBadly`, `ExtendsTP` (the hit continues the kept TP), `SingleTP`, `StartsTP`
(it does not, and the kept TP leaves first). The second test of the bad end (that
the hit is within `m_stitch_constant` of `m_T`) is always true, as `m_T` was set
to that hit's time just before. `NextFrame` brings a header, `Start` a new run.
`m_A` and `m_T` are functions of the wire (channel and fiber number; crate and
slot do not index them). A TP is the set of hits it is made of, in place of the
sums of lengths and charges, with the start time and the peak.

Two conversions are modelled by what they do. `trigprim.time_start` is computed
in double (`m_time_tick` is one) and so rounded, half to even, to a multiple of
`Ulp`; times are compared as differences of `int`, which wrap around at
`IntHalf` (the overflow of the subtraction is undefined behaviour, compiled to a
subtraction that wraps).

External is the firmware: the hits of a frame come in order and do not overlap, a
hit goes on only at the end of its frame, frames of a channel do not overlap
within a run. A frame of another channel or of the next run may come at any
time. `add_tp` and `try_sending_tpsets` are `TPHandler`'s; here `handed` records
what they are called with. Without firmware TPs enabled the handler is null and
TPs go nowhere; this is not modelled.

### Preprocess, Timestamps, FrameErrors, TPUnpack, PreprocessProofs, TPUnpackProofs

What a processor does with a superchunk before it is stored. `Preprocess`
composes three components and is the module that is run; its `Next` is their
order in the pipeline.

`Timestamps` is `timestamp_check` of all seven processors. They differ in the
number of frames of a superchunk, in whether they check at all (`Checked`: DAPHNE,
DAPHNEStream and SSP do not), in whether they tell channels apart (`Links`: TDE
does), in what `start` resets (`ForgetsAtStart`: WIB and WIB2) and in the
timestamps they write in emulator mode (`EmulatedFirst`). Times are in frames:
every processor has its own tick difference, which is one. The front end numbers
its superchunks; `Lose` is one that does not arrive, in a run or between runs.
`stored` is the history of what is passed on, `m_error_registry` what is
registered as missing.

`FrameErrors` is `frame_error_check` of WIB: a counter per error bit that admits
frames to the sink up to a threshold and goes down every `Period` frames, a frame
with several bits that is offered once for each until a send succeeds. `conf` has
the task commented out at present (`wib/WIBFrameProcessor.hpp:276`), the code is
there.

`TPUnpack` is `tp_unpack` of the firmware TP processor, which stands where the
others check timestamps. A chunk is a sequence of subframes; the firmware
(external) packs frames of any number of hits into it, and the chunk may end
anywhere. `UnpackFrame` is one iteration of the outer loop with the search inside
it.

### HitFinder, HitFinderProofs

The three vector finders that `find_hits` calls (`FIR`, `SWTPG`, `AbsRS`) on the
lanes that share a 64-bit element, and the scalar `process_window_naive` on the
same samples. One action, `Sample`, is the body of the loop over `itime` for all
lanes, the end of the window included. Intrinsics are modelled by what they do to
numbers of `2 * Half` values: wrap-around, saturation, signed comparison, the
division by a rounded product (`DivEpi16`) and the multiplication of `__m256i` by
a scalar, which the compiler makes one of 64-bit elements, so that what overflows
a lane is carried into the next (`Times64`). The order of the loop over registers and the
one over times does not matter, as registers share nothing.
`process_swtpg_hits` turns the stored registers into TPs at the end of a window;
`tps` keeps them by window, register and lane, so that one hit sent twice would
show. `tame` is the history of what the agreement of the scalar finder depends on.
`trace` is the history the reference definition, `Runs`, is computed from.

### AVX2, FrameExpand, WIB2FrameExpand, ChannelMap, MCFindHits

`AVX2` gives registers as functions from bits to *names of bits*: the expansion
moves bits and clears them but computes nothing with them, so one symbolic frame
stands for all frames, and what is checked of it holds for every ADC value.
`FrameExpand` and `WIB2FrameExpand` are the expansions, instruction by
instruction; `ChannelMap` the maps to offline channels, which expand a test frame
that holds channel numbers. Memory before and after the ADCs is `Unknown`: no
`Unknown` bit may reach a slot. The tables of `src/wib/tpg/FrameExpand.cpp` are
the independent reference for ProtoWIB.

`MCFindHits` puts expansion and finders in the order of `find_hits`: it walks over
all slots of the expanded registers, then lets `HitFinder` take its samples. The
two share no state: the finder's samples are any, not those of the symbolic frame,
so what is checked of one does not depend on the other.

### DAPHNECleanup, DAPHNECleanupProofs

`daphne_cleanup_request`, one action per access to the concurrent skip list, and
`Insert` at any moment with any timestamp. Differences are unsigned, modulo
`Modulus`.

### How atomic the actions are

Each action makes at most one access to what other threads write. Two things
are taken as atomic that the code leaves to luck: `reset` of the handler at
`start` against `add_tp` in the consumer (a data race on a
`std::priority_queue`), and the map of TP rates shared by three threads. The
model shows what such calls do when they do not overlap; what the race itself
does has no useful set of outcomes. Both are in the list of hazards.

## 3. Runs

| Run | Instance | Shows |
|---|---|---|
| TPHandlerWindows | WIBTPHandler, timeout 1, window 2, times 0..8, skew 2, 2 TPs | `CompleteWindows`, `ImplementsWindowing`, `OverdueTPsLeave` |
| TPHandlerSkewed | WIB2TPHandler, timeout 1, window 2, times 0..7, any skew, 3 TPs | `Partition`, `LateExactly`, `NeverLate` |
| PipelineSafety | capacity 1, 2 destinations per configuration, 2 halves, 2 configurations, 3 runs, software TPG on or off, known and unknown algorithm | `NoStarvation`, `LeakBound`, `NeverAborts`, `SeededThisRun`, `ExclusiveBuffers`, `NoDanglingBuffers`, `ImplementsBufferPool` |
| PipelineLiveness | capacity 1, 3 destinations, 2 halves, 2 runs | `StopEnds`, `ScrapEnds` |
| PipelineStaleHits | the same | violation of `RunIsolation` |
| Handshake | 3 configurations, on or off, 3 runs, 4 superchunks | `HitsOfThisItem`, `ItemAlive`, `CollectionSeeded`, `NoLostSignal`, `CollectionReturns`, `ScrapEnds` |
| HandshakePedestals | 1 configuration, 2 runs | violation of `InductionSeeded` |
| Stitcher | 2 channels, frames of 2 ticks of 2, times 1, 5, 9, 26, doubles 2 apart, int from -16 to 15, 3 hits, 2 runs | `EveryHitOnce`, `HandedInOrder`, `StitchedNeighbours`, `HitsRejoined`, `FieldsOfParts`, `StaleOncePerRun` |
| StitcherBadEnd | 1 channel, 3 hits at times 1, 5, 9, 1 run | violation of `BadHitLeftOut` |
| FindHits | both kinds of ProtoWIB wires and both halves of a WIB2 link, every slot, every time; then 3 finders, 2 lanes, numbers of 10 bits, ADCs 0 or 50 on one lane and 0 or 12 on the other, taps 4, 12, 0, windows of 3 samples, 6 samples: 164 525 states | `SlotHoldsItsChannel`, `PathsAgree`, `OfflineMapRight`, `TPsMatchHits`, `ScalarAgrees` |
| Preprocess | 8 processors, superchunks of 2 frames, 2 channels, 5 superchunks each, 2 runs, problem limit 1; 2 error bits, threshold 1, period 3, 10 frames; chunks of 4 TP frames of 0 to 3 hits: 1.9 million states | `GapsRegistered`, `EmulatedContiguous`, `ProblemAfterLimit`, `ErrorSinkBounded`, `UnpackedAsSent`, `EveryHitStitched` |
| DAPHNECleanup | difference 2, times modulo 7, 7 inserts: 65 173 states | `HeadExists`, `OnlyOldRemoved` |

Why the bounds are enough to meet the interesting cases:

* *TPHandler*: times reach beyond two windows plus timeout plus skew, so a window
  can be sent, a second one pend behind it, and a TP of the first still arrive;
  two TPs are what it takes to break a window, three to have one in each of two
  windows and one late. With skew 7 the late outcome is reached.
* *Pipeline*: with capacity 1 the result queue is full as soon as one result is
  in it, so drops, leaks and the spin for a destination all happen; two
  configurations are what it takes to meet what the first one left behind; three
  runs let a run follow another in either configuration. One destination leaks in
  the first configuration and more in the second, where results left behind bring
  back destinations of the first: what `NoStarvation` counts. Buffers and halves
  are interchangeable in this run, so both are symmetric; nothing temporal but
  `ImplementsBufferPool`, which names no buffer and no half, is checked under it.
* *Handshake*: four superchunks over three runs: two in one run (a stale buffer
  of the last superchunk) and a first one in each of the others. Three
  configurations let software TPG come on late or stay on, with the threads and
  flags of one configuration left to the next: off-off-on, off-on-on, on-on-on.
  On-off is met and goes no further: as `m_sw_tpg_enabled` stays set, `start`
  then uses a handler that is gone, and `scrap` joins a thread that is gone, so
  nothing is configured after it.
* *Stitcher*: three hits make a TP of three parts, whose last part is further
  than a frame from its start, or a kept TP followed by two others. Frame times
  are odd, so that rounding moves all of them, up or down; 26 is more than `IntHalf`
  after 1, 5 and 9, so a comparison wraps around. Two runs let a kept TP
  meet hits of the next one, at earlier or later times.
* *FindHits*: the expansion has no bounds: every slot of the real sizes at every
  time. For the maps, offline numbers are those of the tables and numbers as far
  apart as an ADC can hold, in either order. In the finders, with accumulator
  limit 1, pedestals move within a window; 50 is over the threshold of every
  finder and 12 over the fixed one of `SWTPG` with a charge that is shifted to zero; the interquartile range passes `sigmaMax` and stays
  below it; six samples give hits inside a window, over its end, and two in one.
  `Half`, multiplier and ADCs are the 2^15, 64 and 12 bits of the code scaled down.
  The charge sum does not saturate within six samples, and quartiles do not cross,
  so the carry from lane to lane is in the model but not met.
* *Preprocess*: five superchunks allow two gaps with data between them, in either
  run or across the two, which is what passes the limit of 1; period 3 lets a
  counter go down and up again several times in ten frames; four TP frames hold
  one without hits with a good frame before and after it, and a cut in another.
* *DAPHNECleanup*: seven inserts fill the list over the whole range of times, so
  the cleanup removes several superchunks while older and newer ones come.

Deadlock checking is on in the TP handler runs. In the others it is off: the system
stops when the bounded commands, hits, samples, superchunks or inserts are used
up, and the pipeline and the handshake when the process has ended.

Fairness. `TPHandler`: weak fairness of `TrySending` (the consumer calls
`try_sending_tpsets` after every result it takes; as long as data arrive the call
comes again). `OverdueTPsLeave` speaks of TPs that are overdue for every caller,
since a send condition that comes and goes with the caller's timestamp need not
be met. The other two: weak fairness of each thread and of the second half of a
command, none of the commands or of the arrival of data. Weak fairness of the
producer as a whole is what the spinning `get_primfind_dest` gets from the
scheduler and the queue: it takes a destination if one stays available.

## 4. Findings

Runs marked *violation* check what a comment of the code says and show that the
code does something else.

1. **Hits of one run sent in the next** (`PipelineStaleHits`). The result queue
   and the consumer outlive `stop`; `start` sets the run number and resets the
   handler under them.
2. **Pedestals of the induction group** (`HandshakePedestals`). `start` makes
   fresh pedestals for both groups and flags only the collection group to be
   seeded.
3. **Hits that end badly** (`StitcherBadEnd`). A hit that continues a TP, ends
   with its frame and does not go on is "bad"; the comment
   (`wib2/RAWWIBTriggerPrimitiveProcessor.hpp:288`) sends the TP of the previous
   hits "except the current hit". The code has added the current hit to that TP
   before it gets there (236-241) and sends both. `EveryHitOnce` holds because it
   does: left out as the comment says, the hit would leave in no TP.

Met on the way, where no line of the repository says otherwise or the models
show it without a run of its own:

* *Pipeline.* A result that finds the queue full is dropped with the only pointer
  to its destination; `LeakBound` shows that in the first configuration at most
  `m_capacity_dest_queue - m_capacity_mpmc_queue` (4) are lost this way, after
  which the queue cannot fill up, so no producer starves (`StopEnds`). `conf`
  always fills the queue of destinations and `scrap` empties it with software TPG
  only, so the next `conf` throws (`ConfThrows`). `m_sw_tpg_enabled` is never
  cleared: after a configuration with and one without software TPG, `start` uses a
  null handler. Results left in the queue by one configuration bring their
  destinations into the full queue of the next (`NeverAborts` is restricted to
  the first one).
* *Stitcher.* A kept TP and the first hit of a frame more than 2^31 ticks later
  (34 s at 62.5 MHz) compare as neighbours (`StitchedNeighbours` asks for less
  than `IntHalf`); hits of two runs can be stitched (`StaleOncePerRun` bounds it).
* *Unpacking.* The block `tp_unpack` copies as pedestals is the last hit
  (`wib2/RAWWIBTriggerPrimitiveProcessor.hpp:353`); nothing reads it. A frame
  without hits swallows the one behind it, whose hits get its header.
* *Timestamps.* The first superchunk of a WIB or WIB2 run is a gap that reaches
  back to 0; WIBEth does not start afresh and registers the pause between two
  runs; DAPHNEStream steps by one frame, not by a superchunk, in emulator mode, so
  its superchunks overlap. `m_error_occurrence_counters` are not reset by `start`,
  and the configured reset frequency is not used. SSP registers its task twice,
  which does no harm.
* *Hit finders.* The two ProtoWIB finders agree only while the interquartile range
  stays between 0 and `sigmaMax` and no time over threshold reaches 2^15 - 1, which
  the vector form saturates and the scalar one wraps (`tame`). `setState` of ProtoWIB seeds all but the
  first 16 channels with a later sample of another channel; from the second run on
  the induction group is not seeded at all.
* *Expansion.* A WIB2 register has the last of its 16 channels in slot 8; the
  channel map knows. The map needs the offline numbers of a link to lie within
  2^12 (2^14 for WIB2) of each other. `get16` takes every message to have the size
  of one of collection channels, whatever the registers are; a window of one
  message, which is what is used, does not depend on it.
  `expand_segment_collection` was abandoned half way: the two registers it blends
  hold the collection channels (`PathsAgree`), but it prints them and returns an
  array it has put nothing into. Nothing calls it.

## 5. Proofs

Proved with TLAPS, for all values of the constants that satisfy the named
assumptions (`ConstantsAssumption`, `PipelineAssumption`,
`HandshakeAssumption`, `StitcherAssumption`, `FrameAssumption`,
`TimestampsAssumption`, `FrameErrorsAssumption`, `HitFinderAssumption`,
`CleanupAssumption`):

* **TPHandlerProofs**: `TypeOK`, `Partition`, `LateExactly` (with `DropLate`; its
  invariant, `CounterInv`, is that `m_timestamp_counter` is 0 or the start of the
  TPSet that went out last, and that none that went out starts later), `NeverLate`, `CompleteWindows`, and the refinement of
  `TPWindowing` (with `Skew <= 2`). Inductive invariant `IInv`: the windows lie
  on the grid of multiples of `Window` and ended more than `Timeout` before the
  newest time (`GridWindows`); hence a TP that passes the age test starts after
  each of them, but for the skew (`ClosedWindows`). Integer division enters by
  one lemma, `WindowStartMonotone`: a time at or after a grid point has its
  window at or after that point. With at most 2 ticks of skew this gives
  disjoint windows in order (`SeparateWindows`), with `Window + 2` at least the
  order of their starts.
* **SWTPGPipelineProofs**: `TypeOK`, `ExclusiveBuffers`, `NoDanglingBuffers`,
  `SeededThisRun`, `LeakBound`, `NeverAborts`, `NoStarvation` and the refinement
  of `BufferPool`, for any number of halves, runs, configurations and any
  capacities. `PInv` adds to the properties which thread holds a buffer at which
  program counter (`PlaceInv`), which threads exist in which state of run control
  (`CommandInv`) and that buffers in use are allocated. The leak bound is a
  counting argument: leaked, queued and held buffers are disjoint subsets of the
  `Capacity + Extra` allocated ones, and a drop happens when `Capacity` are queued
  and one is held.

  The refinement has one step per action: the buffers an action takes from one
  place and puts in another make its step of the pool, and `ExclusiveBuffers`
  makes the mapping say so, since a buffer is in no other place that would mask
  the move (`GetMoves`, `PushMoves`, `PopMoves`). For `Conf` and `ConfThrows` it
  takes the equality that the buffers conf ever created are those in circulation,
  leaked and deleted (`KnownBuffers`), so that new ones are new to the pool as
  well; the guards on the numbers of buffers are cardinalities of images of the
  queue and of the producers.

  `NoStarvation` cannot be had from `LeakBound`, which is about the first
  configuration: later ones have lost buffers before. Its strengthening
  (`CirculationInv`) is that `Capacity` buffers circulate from the end of conf to
  scrap, and stay: the only step that takes one away is a drop, when `Capacity`
  wait in the queue and are left. `ConsumerInv` says that the consumer is there
  while there are tasks; scrap is only reached when no half waits.
* **InductionHandshakeProofs**: `TypeOK`, `HitsOfThisItem`, `ItemAlive`,
  `CollectionSeeded` and the action property `NoLostSignal`. `HInv` says where
  the two threads can be while the flag is up and while it is down.
  `CollectionReturns`, that the collection thread is always answered, is
  liveness; the part of it that is safety is proved as two theorems. `Answerable`:
  while the flag is up the induction thread exists, is in its loops and has not
  been told to leave. `Nearer`: `StepsToAnswer` counts the steps it has left to
  taking the flag down; each step it takes lowers the count, and no step of
  anybody else raises it. So five of its own steps answer every wait, and all that
  remains to fairness is that it takes them. In the same way `Leaving` and
  `LeavesSooner` are the safety half of `ScrapEnds`, here and in the pipeline:
  while `scrap` waits there is a thread to join, only it takes steps, and each
  lowers the number of those it has left (`StepsToLeave`; in the pipeline
  `StepsToExit`, which also counts what is in the hit queue).

* **TPStitcherProofs**: `TypeOK`, `EveryHitOnce`, `HandedInOrder`,
  `StaleOncePerRun`. Each of the five cases of the loop body is shown to be a
  *deal*: the hits of the kept TP and the current hit go, in order, to the TPs
  handed over and the one kept from now on (`StitchDeal`). One lemma, `DealStep`,
  shows that a deal keeps `SInv`: every hit is somewhere, only with its own
  channel (`PlaceInv`), in order. That no hit leaves twice follows from the
  order: two TPs with a hit in common would be of one channel, and the hit would
  precede itself. `StaleOncePerRun` needs that once a TP has left with hits of an
  earlier run, its channel keeps hits of the current one only (`RunInv`).
  `StitchedNeighbours`, `HitsRejoined` and `FieldsOfParts` are what the arithmetic
  decides, and take a second invariant: `TimeInv`, that hits of a channel and run
  come one behind the other, and `LastInv`, that `m_T` is the time of the last
  hit of its channel, which is a part of the kept TP if it goes on. The lemmas
  under it are on `Round` (monotone, exact on multiples of `Ulp`) and on the `int`
  difference: it is the true one of times less than `IntHalf` apart.
  `FrameAssumption` is what the numbers must satisfy for it: a frame fits into the
  stitch constant, that into the `int`, and rounding does not move it.

* **TPUnpackProofs**: `UnpackedAsSent` and `EveryHitStitched`, for any number of
  frames and hits. `UInv`: there are places where the frames sent begin, `offset`
  is one of them, and the calls of `tp_stitch` so far cover the frames before it
  one after the other. The search for the end of a frame is a choice of the first
  subframe with a property; `FrameEnd` and `EndFound` show that it ends at the
  pedestals of this frame or, if this one has no hits, of the next.

* **HitFinderProofs**: `TPsMatchHits` and `ScalarAgrees`, for any number of lanes,
  samples, filter and window. `HInv`: each channel keeps the length and charge of
  the stretch it is in (`OpenSince`), the registers of the window are stored in
  the order of time, primitives come from windows before this one, no two of them
  are of the same lane and time, and the primitives with those still in registers
  are the stretches that ended with a charge. The saturating sum of charges is a
  recursive function; its value for one more sample is found by an induction on
  sets of natural numbers (`SetInduction`, `BeginsExists`), which needs no theorem
  with an operator as a parameter. `ScalarAgreesTheorem` has the hypothesis
  `ScalarBounds`: the threshold is the 5 written into the scalar finder, 2^15 is no
  multiple of 5 times the multiplier (else dividing by it is exact and the clamped
  threshold overflows by one), and `AccLimit + 1 < Half`. All three are true of the
  code's values and of the instance checked. `Agree`, its invariant: while `tame`,
  the channels kept by both finders are equal and the hits of the scalar one with
  a charge are those handed on or still in registers. `ProductExact` shows that
  no product overflows its lane then, `FilterLast` that the tap left out is the
  zero one. `RunningSumExact` is on the arithmetic of `AbsRS`, where the run has
  no samples large enough: two products and a sum of 16 bits, each of which may
  overflow, give the right running sum exactly if the true one fits into 16 bits.

* **PreprocessProofs**: type correctness, `GapsRegistered`, `EmulatedContiguous`,
  `ProblemAfterLimit` and `ErrorSinkBounded`, for any processors, superchunk
  length, channels, limit, threshold and period. `GapInv`: without the emulator
  `m_previous_ts` of a channel is the time of the last superchunk that arrived,
  or 0, everything known of is at or before it, and nothing after it is
  registered; so the interval a new superchunk registers lies between the two and
  changes nothing of what was said about older ones (`CheckGaps`). What start
  forgets, `Known` forgets, and the invariant holds with last = 0; where start
  forgets nothing, nothing changes. `EmuInv`: in emulator mode `m_previous_ts` is
  where the last superchunk of the run began. `ErrInv`: a bit is never counted
  beyond the threshold, and what it sent is accounted for by its counter and its
  decays. `ProblemAfterLimit` is inductive as it stands, with the fact that
  nothing belongs to a run to come (`RunsInv`).
* **DAPHNECleanupProofs**: `TypeOK`, `HeadExists`, `OnlyOldRemoved`, for any
  difference, modulus and number of inserts. `LooksRight`: inserts take nothing
  out, and the cleanup takes out only heads that are older than the tail; so the
  tail stays in the list, the oldest one exists and is not newer than it, and the
  unsigned difference is the true one. That a non-empty set of timestamps has a
  least element is proved from the well-foundedness of < (`LeastExists`), for the
  definitions of first and last by CHOOSE.

Only model-checked: the expansion (`SlotHoldsItsChannel`, `PathsAgree`,
`OfflineMapRight`), where checking all slots of one symbolic frame is complete and
there are no constants to prove it for; the liveness properties
(`OverdueTPsLeave`, `StopEnds`, `CollectionReturns`, `ScrapEnds`), which need
fairness and ENABLED, beyond the safety they rest on (`NoStarvation` for
`StopEnds`, `Answerable` and `Nearer` for `CollectionReturns`, `Leaving` and
`LeavesSooner` for `ScrapEnds`); and of course the
violations. `TypeOK` of every module with proofs is proved and has no run of its
own.

## 6. Not modelled

* 64-bit overflow of tick counters (centuries away) in `TPHandler`.
* `get_info` and the counters it publishes, the rates per channel, channel masks,
  logging; the timestamps `tp_stitch` makes up when configured to.
* `firwin_int`, which designs the taps in floating point: the taps are a constant
  of `HitFinder`. `ProcessAVX2FIR.hpp` and `ProcessNaive.hpp` of `wib2` are
  included by nothing.
* The TP emulators: one producer thread behind a rate limiter of another package.
* The type adapters beyond what `Timestamps` and `TPUnpack` use of them: memory
  layout with accessors.
* The legacy stubs, which have no body, and the test programs.

## 7. Plan

Done: TPHandler, SWTPGPipeline with BufferPool, InductionHandshake, TPStitcher,
Preprocess with Timestamps, FrameErrors and TPUnpack, HitFinder, FrameExpand with
ChannelMap, DAPHNECleanup; all invariants and action properties of the runs but
those of the expansion are theorems. Next, in this order:

1. `TPStitcher` with `TPHandler`: how old a stitched TP can be when it is handed
   over, and what the handler does with it.
2. The timestamps of two producers with `TPHandler`: how large the skew can get.
3. `TPEmulator`.
