# A verification of moq-dev/vaapi

`vaapi` decodes H.264 and H.265, encodes both, and scales and converts
pictures, on the video hardware of Linux through VA-API.  The driver does the
arithmetic on pixels.  What is left to the crate is bookkeeping: which decoded
pictures are references for the next ones, which wait for output and in which
order they leave, which surfaces can be written over, and what becomes of all
that when the stream is lossy, changes format, or a call to the driver fails.
These modules state that bookkeeping in TLA+, check it with TLC on small
instances and prove part of it with TLAPS for all.

Paths below are relative to the root of the repository's tree (`src/` here):
`decode.rs` is `src/src/decode.rs`.

## 1. The system

| Component | State | Operations | Talks to |
|---|---|---|---|
| **H.264 decoder**, `struct H264` and `Decoder` in `decode.rs` | active sequence (format, VA context, surface pool), DPB, order count state of the previous picture and previous reference, largest long-term index, ready queue, parser | `decode`, `decode_exported`, `flush`, `flush_exported`; inside: `apply_sps`, `begin_picture`, `handle_frame_num_gap`, `init_current_pic`, `decode_slice`, `finish_picture`, `reset` | parser, DPB, pool, VA picture |
| **H.264 DPB**, `codec/h264/dpb.rs`, `picture.rs` | vector of (picture, optional handle), two limits | limits, store, bump, drain, clear, sliding window, operations 1 to 6, reference lists | the decoder only |
| **H.265 decoder**, `decode/h265.rs` | as H.264, with reference picture sets, the last independent slice header, IRAP and end-of-sequence flags | same public calls; `begin_picture`, `derive_ref_pic_set`, bumping, `finish_picture` | parser, DPB, pool, VA picture |
| **H.265 DPB**, `codec/h265/dpb.rs` | vector of (picture, handle) | marking, bump, drain, store | the H.265 decoder only |
| **Parsers**, `codec/h264/parser.rs`, `codec/h265/parser.rs`, `bitstream_utils.rs` | tables of active parameter sets | parse a NAL unit; a picture parameter set keeps the `Rc` of its sequence parameter set | the decoders |
| **Surface pool**, `pool.rs` | free list behind a mutex and an `Arc`; each surface holds it weakly | `alloc`, `unpooled`, `Drop` of the last clone | decoders, video processor, consumers' threads |
| **Encoder**, `encode.rs`, `encode/h265.rs` | picture counter, two reconstruction surfaces, reference, input surface, processor, rate control reset flag | `encode_nv12`, DMA-BUF and surface input, `set_bitrate` | VA picture, processor |
| **Video processor**, `vpp.rs` | a context and an output pool for each size | `resize`, `convert`, blits | pool, VA picture |
| **Bitstream writer**, `synthesizer.rs`, `nalu_writer.rs` | bit position, zeroes seen | write syntax elements, emulation prevention | encoder |
| **VA objects**, `picture.rs`, `surface.rs`, `context.rs`, `config.rs`, `image.rs`, `buffer.rs`, `display.rs` | handles of the driver | create, begin, render, end, sync, map, destroy | all |
| **DMA-BUF**, `dmabuf.rs` | none | import and export descriptors | decoder, encoder, processor |
| **Parameter buffers, bindings** | none | copies into C structs | all |

How they interact.  A caller hands an access unit to `Decoder::decode`.  The
parser splits it into NAL units; for each coded picture `submit` runs
`begin_picture`, which may rebuild the whole VA state and fill a gap, then
`decode_slice` for each slice, then `finish_picture`, which waits for the
driver, marks the references, bumps and stores.  Every method takes
`&mut self`: inside a decoder nothing is concurrent.  What is concurrent is the
life of a picture after it left: an `ExportedFrame` is `Send`, is cloned and
dropped on any thread, and each last drop races the decoder's allocations and
the end of its pool.

What is hard in it:

* *Long protocols.*  A DPB reaches its interesting states after several
  pictures with the right mix of references, reordering, long-term marks and
  losses.  The tests of `dpb.rs` and `decode.rs` build a few such states by hand.
* *Partial failure.*  Every driver call can fail, and most come after the state
  was changed: limits are set before a profile is refused, the DPB is drained
  before the new context exists, operations 1 to 6 stay done when the next one
  fails.  The decoder stays usable and the caller may go on.
* *Loss.*  `handle_frame_num_gap` invents pictures for what did not arrive.
* *Races* between the drops of pictures, `alloc` and the replacement of a pool.
* *Limits and wrap-around*: `frame_num`, order counts, the DPB's two limits, the
  pool's capacity, the parameter set tables.

What makes each component correct:

* decoders and DPBs: output is in order, each picture at most once, and only an
  IRAP picture that asks for it drops any; the references kept are the
  encoder's, and so are the order counts and the lists that name them; a
  conforming stream is never refused for lack of a buffer; what the DPB holds
  belongs to the active sequence and fits its limit; indices and numbers by
  which marking finds pictures are unique; loops end.
* pool: a surface is reused only when nobody reads it and destroyed only when
  nobody holds it; lists stay within their capacity; no more surfaces exist
  than were in use at once; surfaces of a replaced pool are destroyed in the end.
* parsers: a slice is read with the sets its encoder meant, and a predicted
  reference picture set is the set the encoder described.
* encoder: the reference a picture names was encoded and has not been
  overwritten; a failed key frame leads to another key frame; the numbers a
  receiver derives are those the encoder gave the driver; a bitrate change
  reaches the driver whatever fails on the way.
* processor: a context left in the middle of a picture is never used again, and
  a frame that is held keeps its content.
* writer: a unit is read back as it was written.

## 2. Modules

| Module | Models |
|---|---|
| `H264Dpb` | `codec/h264/dpb.rs` as operators: limits, marking, bumping, operations 1 to 6 |
| `H264DpbLoops` | its three loops, one round a step |
| `H264Decoder` | `H264` and the public `Decoder` calls, over `H264Dpb` |
| `H264Submit` | the loop of `H264::submit` over the slices of an access unit, around `H264Decoder` |
| `H264PicOrderCnt` | `compute_pic_order_count` and what it keeps of the picture before, all three types |
| `H264RefLists` | the initial reference lists of `dpb.rs` and their modification in `decode.rs` |
| `MCH264Decoder` | an encoder that feeds `H264Submit`, with loss and faults |
| `H265Dpb` | `codec/h265/dpb.rs` as operators |
| `H265Decoder` | `decode/h265.rs` with `codec/h265/picture.rs`, over `H265Dpb` |
| `H265RefPicSets` | the prediction of reference picture sets, and the lists of a slice |
| `MCH265Decoder` | an encoder that feeds `H265Decoder`, with loss and faults |
| `OutputReorder` | what any decoder of the crate promises of its output: the abstract specification |
| `ParameterSets` | the tables of both parsers |
| `NaluEscape` | emulation prevention, written and read, and the splitting of a stream |
| `MCCodec` | the algorithms above, each against what the other end means |
| `SurfacePool`, `MCSurfacePool` | `pool.rs`, with the threads that hold pictures; an instance with the history of use |
| `VideoProcessor` | `vpp.rs` |
| `Encoder` | `encode.rs` and `encode/h265.rs`, over `VideoProcessor` |
| `MCEncoder` | an instance of both, with a receiver of the encoder's stream |
| `SurfacePoolProofs`, `H264DecoderProofs`, `H265DecoderProofs`, `OutputReorderProofs` | theorems about the modules they are named for |
| `H264DpbProofs` | lemmas about the operators of `H264Dpb`, for the two below and `CodecProofs` |
| `H264OutputProofs` | the refinement of `OutputReorder` by `H264Decoder`, and of `H264Decoder` by `H264Submit`; theorems about `MCH264Decoder` |
| `CodecProofs` | theorems about `ParameterSets`, `H264DpbLoops`, `NaluEscape`, the sets and lists of `H265RefPicSets` and the counts of `H264PicOrderCnt` |
| `EncoderProofs` | theorems about `Encoder`, `MCEncoder` and `VideoProcessor` |

### H264Dpb

A DPB is a record of its entries and its two limits.  The entries are a
function from picture numbers to entries.  Pictures are pushed at the end of
the vector in the order of their numbers and `retain` keeps that order, so the
vector position of the code *is* the order of the numbers: "the first that
matches" is the lowest number, and `min_by_key`, which returns the first
minimum, compares numbers last.

The loops of the code are written as what they come to: `BumpedAsNeeded` is the
set of pictures `bump_as_needed` lets out, `SlidingWindowMarking` unmarks the
oldest references at once.  That they do come to this is not assumed:
`H264DpbLoops` runs the loops a round at a time and compares.

Frames only.  `SequenceInfo::new` refuses streams that can hold fields
(`frame_mbs_only_flag` 0), so `PicInfo`'s field branches cannot be reached.

### H264Decoder

One call of `submit` is a sequence of steps, and `phase` says where it stands.

| Code | Action |
|---|---|
| `apply_sps` and the start of `begin_picture` | `BeginPicture`, by `RefuseSps`, `KeepSequence` or `RebuildSequence` |
| `handle_frame_num_gap`, a refusal, or a round of its loop | `RefuseGap`, `FillGap` |
| `init_current_pic`, the new surface and buffers | `StartPicture` |
| an error of `decode_slice`, or of the driver in `run` | `AbandonPicture` |
| `reference_pic_marking` | `MarkReference` |
| a round of `handle_memory_management_ops` | `Mmco` |
| the rest of `finish_picture` | `StorePicture` |
| an access unit without slices | `SubmitParameterSets` |
| `reset` (from `flush`) | `Reset` |
| `take_frames`, `take_exported` | `TakeFrames` |

Only the two loops that can return an error after some of their rounds are
split into rounds; nothing can run between two steps of a call, and the phases
allow nothing.  `Fail(why)` is the `?` of `submit`: what was in flight is
dropped, what was already done to the DPB and to the ready queue stays.

What is abstracted: a picture is the fields of its slice header that the
bookkeeping reads; its order count is given (`H264PicOrderCnt` derives it, in
`MCCodec`); a format is a number, `shape`; whether the driver
supports a parameter set is a field of it, `support`, since `apply_sps` refuses
some sets before it sets the limits of the DPB and some after.  `gen` numbers
the sequences, and each DPB entry carries that of its surface.

### H264Submit

`H264Decoder` is told which picture comes next; `H264Submit` finds it out.  A
slice carries no name of its picture: `first_mb_in_slice` is 0 or not, and it
begins a picture, ends one and begins the next, or joins the one in flight.

| Code | Action |
|---|---|
| a call of `submit` with an access unit | `Submit` |
| the match on a slice unit: `begin_picture`, or `finish_picture` before it | `ReadSlice`, `NextPicture` |
| `decode_slice` | `DecodeSlice` |
| `finish_picture` after the loop | `EndUnit` |
| the steps of these calls | `Proceed`, with those of `H264Decoder` |
| an error of the parser, of `decode_slice` or of the driver | `Abandon` |

`RestOfUnit` is the `?` of the loop: the slices behind an error are not read.
Each slice has, for the properties only, the number of the coded picture it is
a slice of, and `begun` remembers the one `begin_picture` was last called for.

### H264PicOrderCnt, H264RefLists

`PicOrderCounts` is `compute_pic_order_count` with its three types, and
`Remember` and `Forget` are what a picture and a `reset` leave behind for the
next.  `ListP`, `ListB0` and `ListB1` sort the DPB as `build_ref_pic_lists`
does; `ListOfSlice` takes a list through `modify_ref_pic_list`, with the shift
to the right, the removal of the duplicate and the cut to its length.

### H265Dpb and H265Decoder

`submit` reads the units of an access unit in order, so `phase` is finer here:
between two units, at an end unit, in `finish_picture`, in `begin_picture`.

| Code | Action |
|---|---|
| a slice segment in `submit`, its header replaced if it is dependent | `SubmitSlice` |
| end of sequence, of bitstream, of the access unit | `SubmitEnd`, `EndUnit` |
| a unit the parser refuses | `RefuseUnit` |
| `apply_sps` | `RefuseSps`, `ApplySps` |
| `begin_picture` up to the new DPB state: `new_from_slice`, the RASL skip, `derive_rps`, the discard or drain at an IRAP | `BeginPicture` |
| a round of `update_dpb_before_decoding` | `MakeRoom` |
| the new surface and picture | `StartPicture` |
| `decode_slice` | `DecodeSlice` |
| `finish_picture` up to `store_picture`, a round of its bumping loop, its end | `RunPicture`, `OutputPicture`, `FinishPicture` |
| `reset`, `take_frames` | `Reset`, `TakeFrames` |

The rounds of both bumping loops are steps because whether they end depends on
the data: `find_lowest_poc_for_bumping` looks its picture up a second time, by
order count alone.  `LowestForBumping` keeps this: it may be a picture that does
not wait.  `drain` has no such trouble, as its bumping removes what it hands
over, and is written as what it comes to (`DrainTakes`, `Drained`): at each order
count that waits every entry up to the last that does, waiting or not.
`DrainAssumption` in `MCH265Decoder` has TLC compare this with the loop
(`DrainedByRounds`) over every DPB of up to four pictures.

### ParameterSets, H265RefPicSets, NaluEscape

A table maps identifiers to sets, and a set keeps the one above it as it was
when it was parsed, which is what the `Rc` of the code does.  A full table
refuses also the repetition of a set it has, as `MAX_SPS_COUNT` is compared
before the insertion.  `PredictedSet` is `parse_short_term_ref_pic_set` with
prediction, `RefPicList` is `RefPicSet::ref_pic_lists`.  `WriteByte` is the
H.264 writer's two bytes of memory, `Push` the H.265 writer's count of zeros and
`ReadByte` the reader's two bytes; `Along` takes each over the bytes, from the
first to the last.  `Units` splits a stream at all its start codes at once, as
`Nalu::next` does one call after another.

### VideoProcessor and Encoder

A call is one step, as the methods take `&mut self` or keep no state between
two steps anybody else sees; an argument `failed` names the call within it that
fails.  `recon` holds, for each reconstructed surface, the number of the picture
it shows, which may be that of a failed picture when the driver ended it.
`returned` lists what a receiver gets.  A call that is refused before it changes
anything is no step.

### OutputReorder

The abstract specification: pictures are accepted with an order count and wait;
any number of them may leave together if none overtakes one that stays; a
picture may pass directly when its count is not above any that stays; everything
may be discarded.  `number` and `count` are inputs, the picture being decoded:
the specification says nothing of how they change, only that a picture that is
accepted or passes was never seen before.  The mapping (`Reorder`, at the end of
`H264Decoder` and of `H265Decoder`): `number` and `count` are those of the
picture in `finish_picture`, `waiting` is the entries marked as needed for
output, `out` is what the caller took followed by the ready queue, `discarded` a
history variable.

### SurfacePool

An `Arc<PooledSurface>` is the set of threads that hold a clone.  The drop of
the last clone is three steps, the places where another thread can see a
difference: `Upgrade` (`Weak::upgrade`), `Return` (the push under the lock),
`End` (the locals go, the `Arc<FreeList>` among them).  `alloc` is `Recycle`, or
`Miss` followed by `Create` or `CreateFails`: the lock is let go of between the
pop and the creation.  `ReplacePool` is the assignment of a new `Sequence` (or
the drop of the decoder), which drops the old pool.  A free list is a set: the
code pops the surface pushed last, the model any.

## 3. What is checked

Every bound is a named CONSTANT of the configuration.

| Run | Question | Instance |
|---|---|---|
| `h264_streams` | Are the references the encoder's, is there always room, is the output in order, over losses, operations, changes of format and failures? Do slices stay with their picture? | five scenarios, below |
| `h265_streams` | The same of the H.265 decoder; and do its loops end, and do segments stay with their picture? | four scenarios, below |
| `encoder` | Does every returned picture continue the stream, whatever failed in between? Does the processor keep its contexts and frames? | 5 pictures, 2 failures, 3 blits, groups of 3, `frame_num` and H.265 order counts modulo 2, three bitrates of which one is refused |
| `codec` | Do the algorithms compute what the other end means? | every small input, below |
| `surface_pool` | Sharing, dropping, allocating and replacing pools at the same time | 2 surfaces, 3 threads, 2 pools, capacity 1 |

A scenario is a record in the MC module that says which pictures an encoder may
send and how many of them are lost, refused or flushed; a behaviour begins with
the choice of one.

* `h264_streams`.  `Sliding`: 5 pictures, any mix of IDR, reference and
  non-reference, any order counts from 1 to 4, one flush; 3 buffers, 2
  references.  `Losing`: 6 reference pictures, 2 lost, one flush, order counts
  of which a picture skips at most one, 2 or 3 buffers.  `Reconfiguring`: 4
  pictures, six parameter sets of which two are refused, one before and one
  after the limits of the DPB were set; one driver failure, one flush.
  `Marking`: 5 pictures, six lists of operations, failing ones included.
  `Slicing`: 4 pictures of one or two slices, up to all of them in one call; one
  slice or picture lost, one failure, one flush.
  `frame_num` counts modulo 4 throughout, so that it wraps inside a run.
* `h265_streams`.  `RandomAccess`: CRA pictures with leading pictures of both
  kinds, one end of sequence or bitstream, one flush, a parameter set that is
  refused.  `Spliced`: IDR and BLA pictures with RASL pictures.  `Wrapping`: 5
  pictures whose order counts cross the 16 of their low bits, long-term
  references with and without high bits.  `Faulty`: pictures of two segments,
  one failure, one loss, a change of format, pictures not for output, a latency
  limit.
* `codec` runs seven parts side by side.  Loops: every DPB of up to 3 pictures,
  all marks, limits up to 3.  Counts: an encoder of each type of order count,
  `MaxPoc` 10 with low bits modulo 16 and `frame_num` modulo 4; in all three types
  up to two references in a row go missing, and the decoder is flushed.  Lists: every
  list an encoder can ask for, of up to 3 references around the wrap of picture
  numbers.  Sets: prediction from every set of up to 2 and 2 pictures.
  Reference lists of up to 6 from up to 5 candidates.  Bytes: every payload of
  up to 6 bytes out of 0, 1, 3 and 103, one unit or two.  Parameter sets: 6
  units, in calls of one or two, tables of 2.

The encoders number and order their pictures as the standard has it (clauses
7.4.3 of H.264 and 7.4.3.2.1, C.5.2 of H.265) and keep their own references,
with which the decoder's are compared.  The H.265 encoder keeps its pictures
within the buffer, the reorder limit and the latency limit it declared.

Why these bounds are enough to mean something.  Two or three frame buffers are
the smallest DPBs in which reordering, a full buffer, and the sliding window
meet; four or five pictures fill such a DPB, overflow it and start the next
group; the moduli are the smallest at which a wrap differs from a restart; two
losses make a gap of two.  A picture on its way to the free list takes three
steps, so three threads are needed for one to allocate while two return
surfaces at the limit of a list of capacity 1.  Five encoded pictures in groups
of three hold a whole group, the next key frame and two failures.

Where a property carries a condition, it says what the model cannot know.
`NeverRefusedSliding`, `FrameNumUniqueSliding` and the H.264 `RefsAreEncoders`
speak of streams without adaptive marking: the encoder keeps a window, and a
list of operations chosen at random is not one a conforming encoder would send.
`MaxZeros` 3 keeps the payloads of the H.264 writer in the run `codec` to three
zeros in a row; what more do is the run `nalu_emulation`.  The H.265 latency
limit and drifted order counts beyond these scenarios are the runs `h265_late`
and `h265_drifted`.  `MaxReady` bounds the pictures that one H.265 call comes up
with, above the number there are, so that a loop which does not end shows as a
violation of `BumpFindsWaiting` or `BumpingEnds` and not as an endless run.

The properties:

* `OutputInOrder` is the refinement of `OutputReorder`, over every path by which
  a picture leaves either DPB.  For H.264 it is also proved, for any stream; for
  H.265 proved wherever `BumpFindsWaiting` holds, which `h265_streams` checks of
  conforming streams and `h265_drifted` refutes after losses.
  `OutputIncreasing` (H.265) is stronger: a stream within its limits comes out in
  order over a whole coded video sequence, not just in the order of what waits.
* `RefsAreEncoders`: the references kept, and for H.265 those the current
  picture predicts from, are the encoder's, less the ones that never arrived.
* `NeverRefused`: no picture of a conforming stream ends in a full DPB.
* `DpbWithinSequence`: each surface in the DPB comes from the active sequence's
  pool, and there are no more than the sequence was built for.
* `LongTermFrameIdxUnique`, `FrameNumUniqueSliding`: the keys by which
  operations and list modification find a picture.
* `BumpFindsWaiting`, `BumpingEnds`: no other H.265 entry has the order count of
  one that waits, so that each round of the loops hands over a picture that
  waits; and the loops end.
* `SlicesOfOnePicture` (H.264), `SegmentsOfOnePicture` (H.265): a slice is
  decoded into the picture it was coded for, whatever failed before it.
* `CountsAreEncoders`, `ListsAreEncoders`, `SetsAreEncoders`,
  `ListsAreStandards`, `BytesArrive`, `SlicesReadAsWritten`: what the other end
  meant is what the code computes.  `LoopsAgree`, `LoopsEnd`: the loops of the
  H.264 DPB come to what `H264Dpb` says, and end: a round of `drain` or
  `bump_as_needed` takes a picture or leaves, one of the sliding window lowers its
  own count `num_ref_pics`, made once, or leaves.
* `StreamContinues`, `OrderCountsArrive`, `KeyFrameOwed`, `KeyFrameInterval`,
  `RateFollows` for the encoder's stream as a receiver sees it;
  `ContextsWhole` and `HeldFramesKept` for the processor.
* `FreeUnheld`, `HeldNotGone`, `FreeWithinCapacity`, `NoFreeLeftBehind`,
  `NoMoreThanNeeded`, `OrphansDestroyed` for the pool.

`CHECK_DEADLOCK FALSE` is given where the system may stop: the stream of a
decoder's run is finite and a caller need not call again; the loops return and
the inputs of an algorithm are given once; the encoder's pictures are bounded; a
decoder that was dropped and whose pictures were all let go of does nothing more.

Fairness.  `BumpingEnds` and `LoopsEnd` assume weak fairness of the rounds of the
loops: inside one call that holds `&mut self`, a loop that runs goes on.  The
callers, the encoder and the driver are assumed nothing of.
`OrphansDestroyed` assumes weak fairness of the steps of a drop that has begun
(`Drop(t)`): the function has no wait but a mutex that is held for a push or a
pop.  It assumes nothing of consumers, who may hold a picture forever.

### Where the code and its documentation disagree

Each is a run that ends in a counterexample to what a comment says.

* `h264_full_dpb`: a picture freed by an operation 1 after its output keeps its
  frame buffer, because `bump_as_needed` returns before `remove_unused` when
  nothing is left to bump; a reference picture is then refused as if the DPB
  were full, where `finish_picture` says that it "is bumped until a frame buffer
  is free, then stored".
* `h264_mid_stream`: a stream taken up at a non-reference picture ends in an
  error at its next picture, where `flush` says "distorted pictures until its
  next IDR rather than an error".
* `h264_repeated_gap`: a gap followed by a non-reference picture is filled a
  second time, which pushes references out of the window.
* `h265_late`: every picture stored counts towards the latency of those that
  wait, also one that follows in output order, where the limit as the parser
  documents it counts those that precede: a stream that keeps to its limit comes
  out of order.
* `h265_drifted`: after a loss a picture can get the order count of a long-term
  reference that is out already.  The bumping then finds the reference, hands it
  over again and makes no progress: in the code the loop does not return.
* `encoder_idrs`: `idr_pic_id` is 0 in every H.264 key frame, also in two in a
  row, which the field's documentation forbids.
* `nalu_emulation`: the H.264 writer forgets the byte after an escape; with four
  zeros and a one in a row it writes a start code into the unit.  The H.265 writer
  next to it counts that byte, and its test says so.

A comment of `apply_sps` says that handles in the ready queue keep "the old
pool" alive.  They keep their surfaces; the pool's list is held weakly and goes
with the sequence (`SurfacePool`, `NoFreeLeftBehind`).

## 4. What is proved

Every theorem is for all values of the constants that meet the named assumptions
of the modules, and TLC evaluates those assumptions in the runs.  `IInv` is in
each module the inductive invariant.  It holds also on the instance of the run,
where TLC checked it together with what the other theorems add to it (`LongInv`,
`OutputInv`, `Chained`, `Joined`, `RoomInv`, `WindowInv`, `NumberInv`, `SentInv`,
`EnoughInv`, `LowBits`), and `SetsInv`, `LoopInv` and `CountsInv` on that of
`codec`, less their types, which are infinite sets.

### The pool

`SurfacePoolProofs`, for any finite set of surfaces, any sets of threads and
pools, and any capacity above 0 (the three named assumptions of `SurfacePool`):
`TypeCorrect`, `RecycledUnheld`, `HeldLive`, `CapacityKept`,
`NothingLeftBehind`, and, for finitely many threads (`ThreadsAssumption`),
`NoneInVain`: all six invariants of the run `surface_pool`.

`FreeUnheld` is not inductive: it says nothing of the surface a thread is about
to push.  The invariant `IInv` adds

* `Dropped`: a surface on its way back is held by nobody, lives, is on one
  thread only, and goes to the list it came from;
* `Stages`: a thread between two steps of a drop has one surface and one list,
  where the code has them;
* `OnePool`: the sequence has one pool, which is never one that was there
  before, and a surface comes from one pool.

The proof that `Next` keeps `IInv` has one lemma per action.
`CapacityKept` rests on the lemma that only a push lengthens a list, made where
there is room; `NothingLeftBehind` on the two steps by which a list loses its
last holder.

`NoneInVain` is `NoMoreThanNeeded`: a pool never has more surfaces than were
held or on their way back at once.  It counts, so it needs `EnoughInv`:
`Accounted` (a live surface is held, on its way, or free), `OneAtATime`,
`Homeless` (no surface has a pool before it is created) and `Enough`, which adds
to the property the case in which `alloc` has let go of the lock: while a
surface is being created, the pool has fewer than the peak.  The crux is `Miss`:
the list was empty under the lock, so by `Accounted` every live surface was in
use at that time, and with the one to be created they make the new peak.  What
comes back between `Miss` and `Create` does not lower a peak.

### The H.264 decoder

`H264DecoderProofs`, for any stream of coded pictures (the encoder of
`MCH264Decoder` plays no part) and any parameter sets: `TypeCorrect`, and
`SequenceKept`, which is `DpbWithinSequence`.  The one assumption is that a
parameter set has the fields the parser gives it, with a `MaxFrameNum` above 0.
`DpbWithinSequence` is not inductive either: between `apply_sps` and
`store_picture` it depends on the DPB's limit being the sequence's.  `IInv` adds
`InTheMaking`: while a picture is in the making the two are equal, and the
picture has a surface and a number.  Outside that time they may differ, since
`apply_sps` sets the limit before it refuses a set; the proof shows that this is
harmless.  Each operator of `H264Dpb` has a lemma that says which pictures it
leaves (`From`): of those that were there, each with its surface.

`LongTermApart`, in the same module, is `LongTermFrameIdxUnique` under a
condition on the stream, `IndexKept`: no operation 3 takes the index that an
operation 6 of the same list gave the current picture.  Without it the theorem is
false: for a picture whose list is an operation 6 and then an operation 3 with
index 0, TLC finds two entries with that index, because the current picture is
not in the DPB yet when `mmco_op_3` looks for whom to take the index from.  The
lists of `h264_streams` meet it.  The invariant `LongInv` says of a picture in
the making that is long-term already that no entry has its index; the lemmas say
of each operation which entries it makes long-term (`LongFrom`) and that the
index it gives was taken from whoever had it.

`H264OutputProofs`: `DecoderImplements`, that `H264Decoder` implements
`OutputReorder`, for any stream, conforming or not, any parameter sets and any
failures.  `EachPictureOnce` follows by `OutputOnce`.  Step by step: a drain is a
release of all that waits, bumping a release of a set no picture of which comes
after one that stays, and `StorePicture` an acceptance or, for a picture that is
not kept, a pass; every other step leaves the output as it is.  The invariant
`OutputInv` has the three facts without which a step would fit none of these:

* the pictures invented for a gap never wait (`Real`);
* `maxReorder <= maxNumPics`, so that a DPB which is full and holds a picture
  that waits may bump it: what is let out is always the front of the queue;
* `NewNumber`: the number of the picture in the making is above all that wait,
  came due or were discarded.

That the loop of `bump_as_needed`, whose set of pictures `BumpedAsNeeded` gives
in one piece, lets out a front of the queue is proved by the least counterexample
(`FirstInOrder`), over the well-foundedness of inclusion between finite sets.

The same module carries all this to any access units.  `SubmitImplements`:
every step of the loop of `submit` is a step of `H264Decoder` or leaves its state
as it is, so the loop never calls the decoder in a way its own module does not
have; `SubmitKeepsSequence` and `SubmitKeepsOrder` follow.  The one invariant it
needs is that what is left to be read are slices.

`SlicesApart` is `SlicesOfOnePicture` for any access units
that meet `UnitsWhole`: each call brings pictures that were not begun before, and
each picture behind another in its call has its first slice.  Any other slices
may be missing and any call may fail, anywhere.  The condition is necessary:
section 5 says what happens when that slice is lost.  The invariant `Chained`
follows the slices from the access unit to the driver: what was read and not
decoded yet, and what is still to be read, continue the picture that was begun
last, and outside of a call nothing is left of one that failed.

`WindowLeavesRoom`, in the same module: of a stream without adaptive or long-term
marking, whose windows fit the buffers it asks for (`SlidingOnly`), no picture is
refused for lack of room, however the pictures are numbered and ordered, whatever
is lost and whatever fails.  `WindowInv` says that every picture of the DPB is a
reference or waits (`AllUsed`), that an IDR picture finds the DPB empty, and that
there are fewer references than the window holds once `reference_pic_marking` has
run: the window unmarks the oldest by their rank, and no two have the same rank,
so what it leaves can be counted (`WindowMakesRoom`).  A DPB still full after
bumping would then be one of references only, of which there are too few
(`BumpingMakesRoom`).  The argument also covers each round of
`handle_frame_num_gap`.

`RoomForEachPicture` discharges the condition for the encoder of
`MCH264Decoder`, and is `NeverRefusedSliding` for any scenarios with the fields
`ScenarioAssumption` gives them.  `SenderInv` says that the slices under way and
the picture in flight are of the scenario that was chosen; on the way
`SenderImplements` shows that the module adds an encoder to the decoder and
nothing else (`MCSpec => Spec`), so all theorems about `H264Decoder` hold there.

`NumbersStayApart` is `ShortTermFrameNumUnique` for streams without adaptive
marking under two conditions.  `FramesFollow` has two rules of 7.4.3, that a
reference picture does not have the number of the one before and that frames are
counted modulo more than the window holds, and one the standard does not make:
only references follow a gap.  `GapClosed` is on the driver, which has to decode
the picture after a gap.  The last two are there because
`handle_frame_num_gap` leaves `prev_ref_frame_num` where it was, so unless the
next reference moves it, what was invented is invented again; that is the cause
of the finding of `h264_repeated_gap`, where TLC finds this property violated as
well, and the theorem says that nothing else brings two numbers together.  Uniqueness alone is not
inductive, as nothing would keep an old reference out of the way when frame_num
comes round.  `NumberInv` says why none is there: the references are in line
(`Lined`), their numbers go back from the last without a hole, and there are fewer
of them than numbers.  The window has to take them from the far end of that line,
which is what `update_pic_nums` is for: a number above the current one is from
before the wrap, so the order by `pic_num` is the order by age (`WindowLined`).
Each phase of a call has the line end elsewhere: at `prev_ref_frame_num` between
pictures, at the picture invented last in a gap, one before its own number while
a reference picture is decoded.

`FramesToldApart` discharges both conditions for the encoder of `MCH264Decoder` in
scenarios that are `Steady`: no failing driver, pictures of one slice, fewer losses
than frame_num can tell, and those only where the parameter sets allow gaps and
only references are coded.  It is `FrameNumUniqueSliding` there, for any number of
pictures, counts, flushes and parameter sets.  `SentInv` compares the two ends:
the number of the decoder's last reference is behind the encoder's by no more than
what was lost (`InStep`), or the decoder has no reference, or it refused the
parameter set and waits for the next IDR picture.  The scenarios `Sliding` and
`Losing` of the run are steady.  `Reconfiguring` is not, but its windows hold one
reference, so there are no two to tell apart.  `Slicing` is not either, and there
the property holds within the bounds of the run only: with one loss, one failure
and twice the pictures TLC finds two references of the same number, as a picture
can be dropped behind the gap that was filled for it.

`ReferencesAgree`, in the same module, is `RefsAreEncoders` in scenarios that are
`Steady` and `Wide`: the references the DPB keeps are those of the encoder's window,
less the ones that never arrived, across losses, flushes, IDR pictures and the wrap
of `frame_num`, for any number of pictures.  `Wide` says that every window has room
for a reference: the decoder keeps one even where none are allowed.  The references
of both ends are compared by `Age`, how far back in the modulus a number is.
`MatchInv` has two halves.  `Slides`: the encoder's window is the last references it
coded, one behind the other, and what the decoder was given is in it or older than
all of it.  `Matched`: what the decoder keeps it was given, unless it is so old that
its number has come round; and what it was given is no newer than `Newest`, where
its own line of references begins, and kept unless as many others are as the window
holds.  That `Lined` leaves no hole is why it can be counted: references invented for
a gap stand where the lost ones would, so they push out of the window what those
would have.  `Newest` moves with the phases of a call, through each round of
`handle_frame_num_gap`, and once the picture is marked it is the encoder's last
reference: then the two windows are over the same numbers, and the claim follows.

### The H.265 decoder

`H265DecoderProofs`, for any units of any stream and any parameter sets with the
fields the parser gives them (`SpsAssumption`): `TypeCorrect`, `SequenceKept`,
and two theorems under a condition, `OrderByCounts` and `OnceByCounts`.  `IInv`
is `TypeOK` and `Within` (the DPB's surfaces are the active sequence's, within
its limit) with

* `HasHeader`: a segment that begins a picture, or is decoded into one, has a
  header of its own or that of an independent segment before it, also after an
  error;
* `InTheMaking`: from `apply_sps` to the end of the picture the limit that
  `finish_picture` goes by is the one the sequence was built for, and the picture
  has a number once it has a surface.

`OrderByCounts`: as long as no other picture of the DPB has the order count of
one that waits (`BumpFindsWaiting`), the decoder implements `OutputReorder`;
`OnceByCounts` adds that no picture is handed over twice.  The condition is a
property of its own, checked of conforming streams in `h265_streams`; it is not
provable of any stream, and `h265_drifted` shows what happens without it.  So the
second lookup, by order count alone, of `find_lowest_poc_for_bumping` is the only
thing in the decoder that can bring the output out of order.  What needs no
condition, that the number of a picture is new (`NewNumber`), is proved without.
`CountsStayApart` takes the condition back to one moment: if each picture, when
it is stored, has an order count of its own among those that matter to it
(`StoredApart`), then no marking, bumping, failure or change of format ever
brings two counts together.

`RoomForEachPicture` is `NeverRefused` for streams that meet `RpsFits`: when the
reference picture set of a picture was read, it has fewer pictures than the
buffer the stream declares, which is no larger than the one the decoder built.
The DPB also holds what waits and what nobody uses, so the count does not follow
from the premise alone.  `RoomInv` says that from the first round of
`update_dpb_before_decoding` on every picture of the DPB is used (`OnlyUsed`), that
there are fewer references than the buffer holds, and that once the rounds end
so there are pictures: a full DPB in which nothing waits would be one of
references only.

`SegmentsApart` is `SegmentsOfOnePicture` for streams that meet `SegmentsWhole`:
the independent segment read before a dependent one is of its picture, and a
segment that is not the first of its picture does not come while another picture
is in flight.  Its invariant `Joined` follows a segment through the picture that
has to be finished and the one that has to be begun before it is decoded.

### What any decoder promises

`OutputReorderProofs`, with no assumption: `OutputOnce`, that no picture comes
due twice and none that waits or was discarded ever did.  It is about the
abstract specification, so it holds of every decoder that implements it.  The
steps append a sequence, not an element, which has as many pictures as leave: the
invariant adds that finitely many wait, and `OrdersDistinct` that a sequence in
output order repeats none, because `Before` is irreflexive.

### The encoder and the processor

`EncoderProofs`, for any group length and frame number limit above 0, any
modulus of the H.265 order counts above 1 and any bitrates (the assumption of
`Encoder`): `TypeCorrect`, `StreamIsWhole`, `FailedKeyFrameRepeated`,
`KeyFramesInTime` and `RateReachesDriver`, all five invariants of `Encoder` that
the run `encoder` checks.  What they leave open, `IInv` adds:

* `Referenced`: without a reference the counter is 0, where the next picture is
  a key frame; with one, the reference is the picture returned last, its surface
  still shows it, and the counter is one past its count;
* `Headed`: the count of a returned picture is its distance to a key frame, is
  below `Gop` and determines its `frame_num`; `KeyFramesInTime` follows at once;
* `Owing`: a failed key frame left the counter at 0;
* `Telling`: with no reset asked for, the last picture has the current bitrate.

The crux is a failure that may have spoiled a surface: two counts in a row are
of different parity, so the surface written is never the reference's.

`CountsReachReceiver` is `OrderCountsArrive`, about the receiver of `MCEncoder`:
what it derives from the low bits of the slice headers is what the encoder gave
the driver, for a stream of any length.  It needs a limit of `frame_num` above 1
(`ReceiverAssumption`): H.264 counts go up by 2, which has to be at most half of
their modulus.  `LowBits` adds to `IInv` that each picture has the low bits of its count,
which is 0 for an IDR picture.  The receiver's definition is recursive, so the
rest is in two parts.  The encoder's counts satisfy the recursive equation, since two in a row
are at most half a turn apart (`NextArrives`, over the arithmetic of
`NearestNext`), so what `CHOOSE` takes satisfies it too (`DerivedUnfolds`); and
two functions that satisfy it are equal, by the first picture at which they
differ (`FirstOf`).

Of the processor, for any sizes and any number of surfaces: `ContextsStayWhole`
and `FramesStayWhole`.  Both invariants are inductive; the
second because a surface that is taken is free or new, and two held frames show
different blits.

### The algorithms of the codecs

`CodecProofs`, for any number of identifiers and sets: `SlicesGetTheirSets`, which
is `SlicesReadAsWritten`.  The property compares what a slice is given with the
last sets that were parsed, the tables hold what was put in them, and a set that
is refused or dropped leaves no trace in either.  `SetsInv` connects the two:

* `StreamRead`: the call in progress is the end of what was sent, what was parsed
  is from before it, and the version of a set is its place in the stream;
* `TablesHold`: a table has of each identifier the last set that was parsed, with
  the sets above it as they were at that place, not as they are now.

What was the last set before a place stays so when more is parsed behind it
(`TablesLater`), so only the table that takes the new set needs an argument, and
only at its identifier.

`LoopsComeToTheSame` is `LoopsAgree`, for a DPB of any size: `drain`,
`bump_as_needed` and `sliding_window_marking`, run a round at a time, come to what
`H264Dpb` states in one expression.  So the decoder's theorems, which are about
the expressions, hold of the loops.  `LoopInv` says where a loop stands:

* `DrainSoFar`, `BumpSoFar`: the pictures that left are a front of the queue, in
  order, and `BumpSoFar` adds that the expression lets all of them out;
* `WindowSoFar`: the pictures unmarked so far are the oldest references, no more
  than the excess, and `num_ref_pics`, which is counted down and never counted
  again, is the number that is left.

At its end a loop has taken a front that is as long as it can be.  That two such
fronts are the same set, and that a reference is among the `n` oldest exactly if
fewer than `n` come before it (`OldestCounted`), are lemmas over the order of the
pictures, which is total up to the numbers that break its ties.  A loop that
starts over its limit is no special case.

`StreamsComeApart`, `UnitsArrive` and, from them, `WrittenIsRead`, which is
`BytesArrive`, are about the bytes of NAL units: any number of them, of any
length.  What a writer has put out and where it takes the *reader* are related
after each byte by `Carries`:

* the reader has read the bytes of the payload so far, no more and no fewer;
* there is no start code in them, nor three zeros (`Clean`), and when they end in
  two zeros the reader remembers two;
* they end in the payload's last byte, which therefore must not be zero at the
  end of a unit, or `Nalu::next` cuts it off.

The writers reach it differently, so each has its own agreement with the reader.
The H.265 writer counts the zeros the reader remembers, and starts over behind an
escape as the reader does (`PushAgrees`): no condition on the payload.  The H.264
writer holds back two bytes and forgets the byte behind an escape, which the
reader does not (`WriteAgrees`): the two part when the fourth zero in a row is
written.  `NoFourZeros` is the hypothesis that rules it out, `MaxZeros \in 0 .. 3`
in the runs, and the run `nalu_emulation` shows that it is needed.  A unit that is
`Clean`, and does not begin or end in a zero, adds one start code to a stream and
no others (`StreamStep`), so the n-th start code from the front is the n-th that
was written.

`ListsOfSlices` is `ListsAreStandards`.  The standard repeats the candidates until
they fill the list and picks from that; the code picks modulo their number.
`GoesRound` says what the repetition is, by as many rounds as there are
(`ListIsStandards`, for any references in any number).

`CountsOfEncoder` is `CountsAreEncoders`, for streams of any length, with the
moduli, cycles and offsets of the run: `MaxPoc`, which keeps the run finite, plays
no part.  In all three types references go missing and the decoder is flushed.
`Tellable` is what is asked of the losses: in type 0 the next picture to arrive is
-7 to 8 from the last reference that did (`arrived`), as far as the low bits tell;
in types 1 and 2 fewer references are missing than `frame_num` counts.  An IDR
picture or an operation 5 is not lost.

After a flush the decoder is off by a number b, fixed by the next reference (any
picture, in type 2), until an IDR picture or operation 5 makes it 0.  In type 1
there is such a number only if the frames the decoder does not know of are whole
cycles (`InCycles`): `frame_num_offset` starts over at 0, and from the middle of a
cycle the offsets added differ from place to place.  In the other case counts
behind a flush are wrong by different amounts, until the next IDR picture or
operation 5, and nothing is claimed of them; TLC finds the property violated when
`InCycles` is left out of `BaseAfter`.  `CountsInv` says what the decoder remembers:

* `RefsInv` (type 0): nothing after a flush, then the last reference that arrived
  with the encoder's count plus b (`RefCounted`).  b is a multiple of the modulus,
  so the low bits that arrive next are those of the count plus b too.  A jump of
  -7 to 8 is told by them (`JumpTold`), which is where the two comparisons with
  half the modulus must differ, one strict and one not;
* `FramesInv` (types 1 and 2): the last picture that arrived with the encoder's
  number of the frame less `m`, the frames the decoder does not know of (`missed`),
  at least for one of the frames since (`FrameCounted`): `gap` says how many are
  missing, and fewer than `frame_num` counts are told (`FramesTold`).  What `m`
  frames come to is b (`Less`): in type 2 at any place, in type 1 if they are whole
  cycles, by which every count shifts alike (`CycledOn`), and if the next picture is
  not the first the decoder knows of (`PlaceKnown`), as that one counts as the first
  of all.

The decoder adds up whole rounds of a cycle and a part, the encoder goes round one
offset at a time: `WholeCycles`.

`SetsOfEncoder` is `SetsAreEncoders`, from `PredictedSetIsMeant`: for a set of any
size, any difference and any flags, what is predicted from it are the pictures
7.4.8 means.  The code fills each half from three loops; one after the other they
go along the moved entries from the far end of the other half to the far end of
this one (`Half`), and along that the differences only ever grow or only ever fall
(`HalfRuns`), because the halves of the other set run outwards and the difference
moves all alike.  That is the whole hypothesis, `OrderedSet`.  A set coded on its
own meets it, as its steps are never 0 (`SummedIs`), and a predicted one does
again, so it holds of any chain of predictions.

The steps above go by an induction the provers can do: of the numbers up to a
length, if any were to fail one would be the first (`FirstOf`, `Onwards`), and a
recursive function over them is what its equation says (`RunExists`).

### Only model-checked, and why

* `OrphansDestroyed`, `LoopsEnd` and `BumpingEnds` are liveness under fairness,
  which is out of the prover's reach.
* `FrameNumUniqueSliding` of H.264 in the scenarios that are not steady, and
  `RefsAreEncoders` in those that are not steady and wide: the first is explained
  above, and the proof of the second rests on the invariant of the first.
* `RefsAreEncoders` and `OutputIncreasing` of H.265, and the premises of the other
  conditional theorems (`BumpFindsWaiting` or `StoredApart`, `RpsFits`, `IndexKept`,
  `UnitsWhole`, `SegmentsWhole`) hold of what a conforming encoder sends, and are
  false of an arbitrary stream: a proof would be one about the encoder of the MC
  module as much as about the decoder.  On the instances of the runs the premises
  hold.
* `ListsAreEncoders` of `MCCodec` is about a fold over the commands of a slice and
  about sorting by `CHOOSE`, for every list an encoder may want.

## 5. What is not modelled

* Units other than slices in the loop of `H264Submit`: their tables are
  `ParameterSets`; a unit that is refused is `Abandon`.
* The two H.264 algorithms of `MCCodec` inside `H264Decoder`: order counts are
  given there, and slices read no list; the parts share the fields of a picture.
* Corruption inside an access unit, beyond the loss of the first slice of the
  first H.264 picture of a call.  When the first slice of a later picture of the
  call is lost, the others join the picture before: nothing in the code tells
  them apart.  A first H.265 slice segment that is lost while a dependent one of
  its picture arrives begins a picture with the index of a set it never read.
* What opens the encoder, and the parameter sets it writes, which never change.
* Reading and writing bits: translations of the standard's tables, of which a
  model would only be a second copy.
* Parameter buffers and bindings: copies, without control.
* DMA-BUF descriptors: translations without state.
* VA objects: phases and order of destruction are fixed by types and owners.
* A download that fails, which takes the rest of the queue with it.
* Loss of an IRAP picture: no decoder can tell the old references from the ones
  it never saw; fields, which the decoder refuses.

## 6. Plan

The modules above are built.  What they leave to be proved: `RefsAreEncoders` and
`OutputIncreasing` for H.265 streams within their limits, and `ListsAreEncoders`
for any list, by what is at the front after each command.
