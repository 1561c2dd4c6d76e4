# ECM in TLA+

ECM is the reference codec of the enhanced compression model, built on VTM: an
encoder, a decoder and a handful of bitstream tools, single-threaded C++ in
`src/source`. Most of it is sample arithmetic, which bit-exact test streams
check better than any state model. What those streams check badly is the
*control* around it, and this project models four parts of that:

* **The decoder's main loop.** Which buffer holds which picture, which picture a
  reference list entry finds, when a picture is written and in which order, and
  what happens at the seams of a stream (an EOS NAL unit, a random access point,
  a lost picture, the end of the file). A dozen flags in three classes (`DecApp`,
  `DecLib`, `Slice`) are read and reset in different iterations, and a wrong
  combination shows only on streams of a particular shape.
* **The way of a stream into the decoder.** Bytes, start codes, look-aheads that
  seek back, parameter sets that are replaced while pictures point to them, picture
  order counts of which only the low bits are sent.
* **What encoder and decoder must do alike in slice data.** The arithmetic coder,
  the context states kept across CTUs and pictures, the partitioning of a CTU, and
  the levels of a transform block, where the decoder has to derive from what it has
  read so far what the encoder derives from all it knows.

* **The reference lists an encoder sends.** A GOP structure is verified once, against
  an unbroken chain of GOPs; the lists of a picture are then chosen, checked and
  rebuilt, and the decoder's buffer must hold all they name.

All of it is checked on small instances; what holds for all values of the
constants is proved where the prover reaches.

## 1. Inventory

| Part | State it keeps | Operations | What makes it correct |
|---|---|---|---|
| Decoded picture buffer (`DecLib`, `Slice`, `Picture`) | `m_cListPic`: per picture POC, decoding order number, associated IRAP, `neededForOutput`, `referenced`, `reconstructed` | `xGetNewPicBuffer`, `applyReferencePictureListBasedMarking`, `finishPicture`, `sortPicList`, `xGetRefPic`, `checkNoOutputPriorPics` | a buffer is reused only when nobody needs it; a POC finds the right picture; the list stays bounded |
| Picture output (`DecApp`) | `m_iPOCLastDisplay`, the output file | `xWriteOutput` (bumping), `xFlushOutput` | every picture to be shown is written once, in output order, and in the end |
| Main loop and picture level (`DecApp::decode`, `DecLib::decode`, `xDecodeSlice`) | first-slice flags, slice address record, associated IRAP, prior-output and recovery flags, random access POC, the application's flags | one iteration per NAL unit or per detected new picture | conforming streams are decoded to their end; a skipped, lost or last picture does not disturb its neighbours |
| Byte stream and look-ahead (`AnnexBread`, `NALread`, `isNewPicture`, `isNewAccessUnit`) | file position, buffered bytes | read a NAL unit, look ahead and seek back | the look-ahead re-reads the same NAL units; emulation prevention is inverted |
| Picture order count (`VLCReader`, `m_prevTid0POC`) | POC of the last picture of temporal layer 0 | MSB derivation, reset at a CRA that starts a sequence | the POC is the one the encoder meant, across wrap-around |
| Parameter sets (`ParameterSetManager`) | maps of VPS/SPS/PPS/APS, change flags, active set | store, activate, clear | an activation uses what was last stored; an active set is not changed within a sequence |
| Slice data (`EncSlice`, `DecSlice`, `CABACWriter`, `CABACReader`, `BinEncoder`, `BinDecoder`) | arithmetic coder, contexts and their copies for wavefronts, previous QP, motion table | code a CTU, a coding tree, the levels of a block, a bin | the decoder reads what the encoder wrote, with the same contexts, predictions and ends of substreams |
| Headers and SEI (`VLCReader`, `SEIread`) | none of their own | field-by-field parsing | - |
| Partitioning (`UnitPartitioner`) | stack of split levels, depths, quantisation group | split, next part, exit | every split is legal, the parts tile the CTU, the depths are those of the path |
| Candidate lists (`UnitTools`, `MotionInfo`) | history table | insert, look up | bounded, no duplicates, encoder and decoder agree |
| Prediction, transform, loop filters | sample buffers | arithmetic | bit exactness |
| Context states across pictures (`CtxStateStore`, `EncGOP`, `DecLib`) | states of the last inter pictures by slice type and QP | store, load, drop at random access points | the decoder starts a picture from the states the encoder started it from |
| Encoder GOP and lists (`EncAppCfg`, `EncLib`, `EncGOP`, `Slice`) | the entries of the GOP and the extra ones; referenced pictures, `m_pocCRA`, `m_bRefreshPending`, `m_iLastIDR` | verification, choice, check and rebuilding of lists, marking | the decoder holds every picture a list names, and the stream obeys its SPS limits |
| Encoder decisions, rate control, HRD, headers | numeric | search, writing | any outcome is a legal stream |
| Tools (extractor, merge, SEI removal, parcat) | copy state per stream | filter or interleave NAL units | the output is a stream in legal order |
| Memory bandwidth model, utilities | cache lines; none | | |

`PROJECT.json` names the sources of each part and its status.

**How the parts interact.** One thread runs `DecApp::decode`. An iteration reads
a NAL unit and gives it to `DecLib::decode`, or, if `isNewPicture` has looked
ahead and found the first slice of another picture, reads nothing and finishes
the current picture (`executeLoopFilters`, `finishPicture`). Then it calls
`xWriteOutput` or `xFlushOutput` on the list, which application and library
share through a pointer: the library sets `neededForOutput`, the application
clears it and also clears `reconstructed`, and the library reads both when it
looks for a free buffer. All pictures share *one* picture header object,
`m_picHeader`, which is overwritten when the next slice is parsed.

The encoder and the decoder meet in the stream only. Where both derive the same
thing - the number of substreams, the contexts of a level, which splits are
possible - they do so in code of their own (`EncSlice` and `DecSlice`, `CABACWriter` and
`CABACReader`), and nothing but the stream would show a difference.

**Which behaviours are hard.** There is no concurrency that matters here and nothing
is persisted. What is hard is the order of steps over many NAL units:
flags that outlive the picture they were set for, buffers taken before the new
marking is applied, prior-output requests carried out one IRAP picture late, POCs
of two sequences in one list, and the end of the file, which is noticed in the
same iteration that reads the last NAL unit; a stream that does not arrive whole
(lost pictures, a start in the middle, skipped frames), of which the decoder has less
state than the encoder assumes; objects that are replaced while others point to
them; and derivations that two programs make from different knowledge. `hazards` in
`PROJECT.json` lists each at the line where it bites.

## 2. Modules

| Module | Models | State |
|---|---|---|
| `PictureBuffer` | the functions on the picture list and the output file, as operators | none |
| `Bitstream` | the stream, the environment of the decoder | 3 variables |
| `Decoder` | `DecApp::decode` and `DecLib` at picture level, one action per iteration | 16 |
| `PictureOutput` | the abstract contract of the output file | 2 |
| `NalBytes` | the bytes of a NAL unit: emulation prevention and its removal | 10 |
| `ByteStream` | NAL units in a file, look-aheads with their seek back, the loop around them | 13 |
| `PictureOrder` | the POC a slice carries and the POC the decoder derives | 11 |
| `ParameterSets` | storing, replacing, activating and pointing to SPS and PPS | 11 |
| `EncoderLists` | GOP verification, reference lists of the encoder, acceptance by the decoder | 9 |
| `ArithmeticCoder` | `BinEncoder` and `BinDecoder`, symbol by symbol | 6 |
| `ContextStore` | context states that pass from picture to picture | 10 |
| `SliceData` | the CTUs of a slice: contexts, substreams, QPs, motion table | 18 |
| `CodingTree` | the partitioner and `coding_tree` of a CTU | 10 |
| `ResidualCoding` | the levels of a transform block in writer and reader | 9 |
| `MCDecoder`, `MCTransport`, `MCSliceData`, `MCLists` | instances for model checking, claims of comments | |
| `Decoder_proofs`, `Conforming_proofs`, `Output_proofs` | the decoder: typing and buffers; conforming streams are decoded; the output file | |
| `Stream_proofs`, `Headers_proofs` | theorems on the way of a stream into the decoder: `NalBytes`, `ByteStream`; `ParameterSets`, `PictureOrder` | |
| `SliceData_proofs`, `CodingTree_proofs` | theorems on the CTUs of a slice, the states they start from (`ContextStore`), and the walk over a CTU | |
| `ArithmeticCoder_proofs` | theorem on the registers of both arithmetic coders | |

`EncoderLists` instantiates `PictureBuffer` with the limits it derives; `Decoder` is
composed of `Bitstream` and `PictureBuffer` and refines `PictureOutput`. The others
share no state, since in the code they meet only in values the model has abstracted
(a NAL unit is bytes in `NalBytes` and a kind in `ByteStream`). `MCTransport` and
`MCSliceData` therefore run several modules side by side: a behaviour belongs to one
of them, chosen by `part`, and the others stay at their start.

**`PictureBuffer`.** A picture is a record `[id, poc, assoc, needed, ref, recon]`;
`id` is its decoding order number. A *view* is the list, `m_iPOCLastDisplay` and the
written file. `SortPicList` is the insertion sort of `Slice::sortPicList`, with
its unusual treatment of equal POCs (the later one goes first). `NewPicBuffer` takes
the first free picture, or a new buffer. `WriteOutput` is one pass of
`xWriteOutput`. The loop of the code decrements two counters as it writes;
`Candidates` are the positions it can write at all (each has a higher POC than
all before it), and `Bumped` those at which one of the two limits is still
exceeded after the earlier candidates have been written. `NoPoc` (-1) stands for
`-MAX_INT`, below every POC.

**`Bitstream`** produces any single-layer stream within the bounds that keeps the
rules on picture types, POC order and reference lists which the decoder itself
CHECKs (`checkLeadingPictureRestrictions`, `checkRPL`, `checkCRA`,
`checkPicTypeAfterEos`), and that fits the buffer its SPS announces. The last
point needs `enc`, the author's own decoder: it runs the bumping process of the
VVC specification (C.5.2.2) and allows a picture only if that process outputs in
order. This is the environment's obligation and not taken from the decoder's code,
so that `NoFault`, `ShowsAll` and `KeepsPromise` compare the two. Five switches make
streams less well-behaved: `AfterEos` (which types may follow an EOS), `LeadingSkip`
(RASL pictures at a CRA that starts a sequence, as after a cut), `CraKeepsRefs`,
`Losses` (a whole picture never arrives) and the `-s` option `SkipFrames`.

**`Decoder`.** State and code:

| Variable | Code |
|---|---|
| `view` | `m_cListPic`, `m_iPOCLastDisplay`, the file |
| `cur` | `m_pcPic`; 0 while `m_firstSliceInBitstream` |
| `hdrOut` | `PicOutputFlag` of `m_picHeader` |
| `firstInPic`, `firstInSeq` | `m_bFirstSliceInPicture`, `m_firstSliceInSequence` |
| `sliceAddr` | `m_maxDecSliceAddrInSubPic` |
| `prior` | `m_isNoOutputPriorPics`, `m_lastPOCNoOutputPriorPics` |
| `recov` | `m_lastNoOutputBeforeRecoveryFlag` |
| `pocRA`, `skip` | `m_pocRandomAccess`, `m_iSkipFrame` |
| `irap` | `m_associatedIRAPType`, `m_pocCRA`, `m_associatedIRAPDecodingOrderNumber` |
| `loopFiltered`, `newCLVS`, `eosInPu` | `loopFiltered`, `m_newCLVS`, `isEosPresentInPu` of `DecApp` |
| `fault` | the CHECK that failed, or the invalid dereference, that ended the program |

`NewPicture` is the iteration in which `bNewPicture` is set; `ConsumeSlice` reads a
slice, which is rejected for its address, skipped (`isRandomAccessSkipPicture`) or
decoded; `ConsumeEos` reads an EOS; `Exit` is the flush behind the loop.
Each action contains everything its iteration does: the finish at the end of the
file and the output pass are part of `AfterSlice` and `ConsumeEos`, not actions of
their own. `Reason` names the first check of `xDecodeSlice` that fails, in the
order of the code. `Slice::checkSubpicTypeConstraints` looks at the pictures of one subpicture
at a time; with one subpicture it repeats the checks of the picture, and the one rule that only it has
(a RADL picture refers to no RASL picture) is in `BreaksListRules`. Abstractions: one layer, one subpicture, no GDR picture (the
macro `JVET_Z0118_GDR` is 0), no mixed NAL unit types, frame output, no long-term
references, POCs as given by the stream.

**`PictureOutput`** says what the file promises whatever the buffers look like:
pictures arrive, wait, and leave in batches of the lowest ones. `Decoder` implements
it (`KeepsPromise`): `waiting` is the set of places (sequence, POC) of the pictures
in the list with `needed`, `written` the places of the pictures in the file. An
iteration of the loop maps to one `Output` step or a stutter. TLC checks it, and for conforming
streams of any length it is proved (`DecoderKeepsPromise`).

**`NalBytes`.** One action is one iteration of the loop of `writeNaluContent` or of
`convertPayloadToRBSP`. `rbsp` grows byte by byte in front of the writer, which is the
same as a payload chosen at the start. `coded` is `outputBuffer`, `wzero` and `rzero` are
the two `zeroCount`s, `got` is what the reader has written back in place. `at` is a
history variable for the proof: where each byte of the payload has gone.

**`ByteStream`.** `file` is a sequence of bytes of which only start codes matter; `get`,
`buffered` and `eof` are the `ifstream` and `m_NumFutureBytes`. `NalRead` is an iteration of
`DecApp::decode` that reads a NAL unit, `NewPictureFound` one in which `isNewPicture` has
seen the next picture. Either ends the picture that has begun by `EndPicture`, with the exception the code
makes: `loopFiltered`, set where an EOS NAL unit has ended a picture, keeps the end of the file from ending the
next one. `FirstSliceNext` is `m_bFirstSliceInPicture` behind a NAL unit, which the finish sets and an EOS NAL unit
clears again; `eosInPu` is `isEosPresentInPu`. Both look-aheads are modelled as the code does them: read
NAL units until one decides, then `seekg` back by what `InputByteStream` has consumed,
corrected by three bytes. The author of the stream writes NAL units while the decoder
reads.

**`PictureOrder`.** The author's pictures have full POCs; a slice carries the low bits
and, for `MsbTypes`, the whole. `prevTid0` is `m_prevTid0POC`. `offset` is a history
variable, the difference between the decoder's POCs and the author's in the current
sequence: a decoder that starts in the middle cannot know the MSB, and `PocFollows` says
that it is wrong by one multiple of the cycle for the whole sequence and never between
two slices of it.

**`ParameterSets`.** An object is its content and a number, so that a pointer to a
deleted object is told apart from one to its successor. `pics` is the picture list with
the parameter set pointers of each `CodingStructure`; it is extended where no buffer is free,
up to `ListBound` (a bound of the model); `Release` frees any buffer at any
time, which stands for all behaviours of `PictureBuffer`.

**`EncoderLists`.** `VerifyEntry` is an iteration of the verification loop of
`EncAppCfg::xCheckParameter`; a picture whose list 0 reaches before POC 0 gets an extra
entry (`ExtraEntry`), as in the code with the first entries of `refList` whether they are
current or not (`avail`). `EncodePicture` is `compressGOP` for one picture up to the
marking: type, `decodingRefreshMarking`, the choice of the entry, the check, the
rebuilding, and then the decoder, which accepts the lists (`checkRPL`, `checkCRA`)
and runs its buffer, or refuses them (`stage` "refused"). A list entry is a POC distance;
active entries are the first `n0` and `n1`.

**`ArithmeticCoder`.** The registers of `BinEncoderBase` (`low`, `range`, bits left, buffered
byte, outstanding bytes) and of `BinDecoderBase` (`value`, `range`, bits needed), and one
context with its two estimators. Escape values follow `encodeRemAbsEP` with its prefix
limit. The loops over groups of eight bins are unrolled (a call has 32 bins at most), each
bin loop of `decodeBinsEP` is the division it amounts to. A terminating bin that is read as
one ends the substream (`terminating_bit`). The context has the default windows, weights and rate
offsets; in the code each context has its own, from tables and the slice type (`Contexts.h:160-221`),
the same in encoder and decoder.

**`ContextStore`.** States are named by the author's POC of the picture that left them.
A picture is coded by the encoder and, unless it is skipped or the decoder has not
started, decoded. The two sides drop their states by POCs of their own, which differ by
`shift`.

**`SliceData`.** Context states are named by the set of CTUs they have been adapted to.
`EncEnds` and `DecEnds` are the two tests for the end of a substream, `NumEntryPoints` and
`NumSubstream` the two counts. Three previous QPs are kept: that of the encoder's search, of its
writing pass, and of the decoder.

**`CodingTree`.** `stack` is `m_partStack` with a cursor per level; `depth` and `qgPos` are
the counters beside it. One action is a split, a CU, a part of its transform tree, or the way on
to the next area. Which split is taken is any the partitioner allows (`CanSplit`); what
the reader would make of its bins is `SplitComesBack`. `TreeAssumption` is what the parsing of the
SPS and the slice headers checks: powers of two, extents of the picture that are multiples of eight
and of the least CU, limits that are in order.

**`ResidualCoding`.** `writer` and `reader` have a quantiser state, a budget of context coded bins and
the groups they have seen; `coeff` is the block, `reader.coeff` what the reader has of it,
in the middle of a pass parts of levels. A bin in `bins` carries the context or Rice
parameter it was coded with, and `agree` records whether the reader came to the same. The prediction of a sign is an input
(`Predictions`), the same on both sides; what differs is the order of parsing and of use.

## 3. Runs

| Run | Instance | Distinct states | Shows |
|---|---|---|---|
| `conforming` | 4 pictures of all types, 2 slices, no EOS | 342 273 | `NoFault`, `ReferencesAreRight`, `ShowsAll`, and refinement of `PictureOutput` |
| `progress` | 3 pictures of all types | 4 969 | `ShownIsWritten` under fairness |
| `sequences` | 5 pictures, IDR and trailing, IDR after EOS, `MaxDec` 3, `NumReorder` 2 | 1 570 275 | `NoFault`, `OutputInOrder` across sequences, `ReorderBound`, `BufferBound` |
| `any_stream` | 3 pictures, 2 slices, losses, skips, foreign references, EOS | 181 243 | `TypeOK`, `OneBufferEach`, `KeepsWaiting` |
| `transport` | `NalBytes`, `ByteStream`, `PictureOrder`, `ParameterSets`, `EncoderLists` side by side | 433 659 | the way of a stream from the encoder's lists into the decoder |
| `slice_data` | `ArithmeticCoder`, `ContextStore`, `SliceData`, `CodingTree`, `ResidualCoding` side by side | 446 908 | what encoder and decoder do alike |

**Decoder** (the first four). All bounds are on the stream: `PicBound` pictures with POCs
`0 .. PocBound` and at most `SliceBound` slices. The decoder itself is not bounded.
With `MaxDec` 2 a third picture already needs a used
buffer, and a fourth is decoded after it was taken. With `NumReorder` 1 a
second waiting picture is bumped. Four pictures give every combination of a CRA,
its leading pictures and a trailing picture, with an IDR before or after. Five
pictures at `MaxDec` 3 are the smallest streams in which the single pass of
`xWriteOutput` may write two pictures and in which both limits, reordering and
fullness, can be the one that is exceeded. Two slices show what a second slice of a
picture changes.

**`transport`.**

* *Bytes.* Values 0 to 4 stand for all bytes: emulation prevention compares with 3 and
  nothing above. Seven bytes hold two inserted bytes, a run of zeros
  across one of them, and an end in zeros. `NoStartCode`, `RoundTrip`.
* *NAL units.* Six in the file, with EOS: a picture, what may come between two, another
  picture, and one NAL unit more, so that a look-ahead meets the end of the file in every
  position. `ReadInOrder` (each NAL unit once, pictures finished where they end; the exception is a last
  picture alone behind an EOS, which the code does not finish, see the run `last_sequence`),
  `AccessUnitIsOne`, `EosEndsUnit` (an EOS that is remembered in `isEosPresentInPu` is forgotten before
  anything else is read, so that no legal stream fails the CHECK at `DecApp.cpp:281`), and `ReachesEnd`
  under fairness.
* *POCs.* A cycle of 4 and POCs up to 9 wrap twice; one skipped slice. Only IDR pictures send the
  MSB (`MsbTypes`; see the observations for CRA). `PocFollows`.
* *Parameter sets.* Two SPSs with two contents each, one PPS, five of them sent, two
  pictures held at a time, three where the list is extended: each can be replaced while it is active, while a picture of the
  old sequence is held, and before the picture after. `DecodedAsSent`, `HeldSpsAlive`; CRA
  pictures that start a sequence are left to the run `reused_sps`.
* *Lists.* 154 GOP structures of two and four pictures (low delay with lists that look back as far as two
  GOPs; random access with three temporal layers) with four intra periods each, for
  ten or thirteen pictures: the first GOPs, which use extra entries, a random access point
  with its leading pictures, and the GOPs after it. Some fail the verification. `OnlyPocZeroIsRefused`: the decoder refuses nothing the
  encoder sends, but for the defect of the run `unreported_loss`; `ShownInOrder`: the limits the encoder puts into the SPS suffice.

**`slice_data`.**

* *Coder.* 15 symbols (bins of one context at three clips of its adaptation, bypass bins, groups of them up to 16 bits,
  escape values around the prefix limit and far above, terminating bins), three per substream:
  enough for a carry through bytes held back, which long runs of ones reach.
  `SymbolsComeBack`, also that the substream ends where the decoder stands; `RegistersFit`.
* *Store.* Five pictures of three kinds, two buffers, CRA starts; POCs wrap with a cycle of 4.
  `ContextsAgree`, `StoreIsRecent`. Starts at IDR pictures are left to `radl_contexts`, IDR pictures
  behind the first cycle to the observations.
* *Slices.* 2 x 3 CTUs with every grid of tiles, every slice of whole tiles or rows, with and
  without wavefronts; QPs at both ends of a range of six, so that differences wrap.
  `SubstreamsAgree`, `ContextsAreLocal`, `MotionIsLocal`, `QpFollows`.
* *Tree.* A CTU of 64 samples, CUs down to 4, transform blocks up to 32, pictures that end
  inside the CTU at 8 or 24 samples, four sets of limits, both trees. `CtuIsTiled`, `SplitsAreLegal`,
  `CountersFollowPath`, `GroupsStartOnce`, `SplitComesBack`.
* *Levels.* 4x4 with a hidden sign and up to three levels; 4x2 in two groups with a budget of
  14 context coded bins, which runs out inside a group, with the quantisers of four and of eight states; 8x4 with
  two predicted signs. Levels 1, -2 and 25 (a flag, a parity and a remainder with an escape prefix).
  `LevelsComeBack`, `SignsComeBack`, `RegBinsBound`.

*Fairness.* `Spec` of `Decoder` has `WF_vars(Next)` only: one thread that goes on as long as the
loop condition holds, on a file that ends. `EndOfFile` is not forced by a condition
of its own; the stream must end because it has at most `PicBound` pictures of at
most `SliceBound` slices, and no two EOS NAL units follow one another.
`ShownIsWritten` fails if the flush at an IDR picture or at the end is
left out, because bumping alone leaves up to `NumReorder` pictures behind. In `transport`
the decoder's thread is fair, `WF(NewPictureFound \/ NalRead)`, and the author of the stream is not; `ReachesEnd`
would fail if a seek back made the decoder read the same bytes for ever.

*Deadlock* is checked in the runs of `Decoder`; `Terminated` stands for the ended program.
It is not checked where a component simply stops with its input: at the end of a file, a
substream, a slice, a CTU, a block, or of the pictures to code (`transport`, `slice_data`, `reused_sps`,
`radl_contexts`, `unreported_loss`).

### Where code and documentation disagree

Six runs end in a violation. Each checks one sentence of a comment or of the manual.

* `random_access`: a skipped RASL picture leaves its slice address in
  `m_maxDecSliceAddrInSubPic`, which only `finishPicture` resets. Trace: CRA, RASL
  (skipped), then any picture: its first slice has an address that is not above the
  record and the CHECK on the slice order ends the program. The reset that
  `isRandomAccessSkipPicture` contains is compiled for GDR only.
* `last_sequence`: `loopFiltered` is still set from the finish at an EOS when a
  sequence of one picture follows and ends the file. The picture is not finished, and
  not written.
* `lost_picture`: the concealment of a lost reference asks the slice pilot for the
  layer of its picture before the pilot has one.
* `reused_sps`: `Picture::finalInit` sets the SPS pointer only of a new
  `CodingStructure`. After an EOS, a CRA picture with another SPS of the same size gets a
  buffer of the old sequence, and with it the old SPS.
* `radl_contexts`: the encoder starts the leading pictures of an IDR picture from context states of
  pictures before it (it drops them at the first picture that follows in output order). A
  decoder that starts at the IDR picture has none of them, although it decodes the leading pictures.
* `unreported_loss`: `checkThatAllRefPicsAreAvailable` returns the POC of the lost picture, and
  `compressGOP` compares with 0. When the first missing picture is POC 0 the lists are sent
  as configured and the decoder ends with an error. Trace: GOP of two pictures, POC 2 with
  L0 2 and L1 2 4, POC 1 with L0 1 and L1 -1, a CRA every two pictures; the
  CRA picture 4 names POC 0, two random access points back.

### Observations without a run

* *Stale reference after an EOS.* With `AfterEos = {"CRA"}` in the `sequences` run, `NoFault`
  fails: IDR (POC 0), CRA (POC 1, waits), EOS, CRA (POC 1), CRA (POC 2, its lists name
  POC 1). The list holds two pictures of POC 1 and `xGetRefPic` takes the one
  of the old sequence, whose decoding order number is below that of the associated IRAP
  picture: `checkRPL` rejects the stream. The run therefore keeps to IDR pictures.
* *Inactive entries.* `checkRPL` looks up all entries of a list, also the inactive ones;
  `xGetRefPic` dereferences `end()` when the picture has gone (`NoSuchPicture`,
  reached by `any_stream`).
* *Growing list.* `xGetNewPicBuffer` comments the extension of the list as something that
  should not be needed; it happens on conforming streams, because the buffer is taken
  before the marking. `BufferBound` shows that it happens once at most.
* *`-s` counts slices.* The counter is decremented for each slice NAL unit, while the
  manual speaks of pictures (`DecAppCfg.h:64`).
* *End after a skipped picture.* If the file ends with a skipped RASL picture, the loop sees an
  unfinished sequence and finishes `m_pcPic`, the CRA picture, a second time; the
  shared picture header now belongs to the RASL picture, with `PicOutputFlag` false,
  and the CRA picture is not written (`DecLib.cpp:920`).
* *Output order after an EOS.* An EOS does not flush. A CRA picture of the next sequence with the
  POC of a picture that still waits is sorted in front of it and written first
  (`Slice.cpp:555`): `OutputInOrder` fails in the `sequences` run with CRA pictures after an EOS.
* *CRA after an EOS.* The branch that marks it as the start of a layer
  sequence is dead: the new-picture iteration between the two clears
  `isEosPresentInPu` (`DecApp.cpp:180`). The visible effect is limited to the output of RASL pictures.
* *POC of CRA pictures with MSB.* With `ph_poc_msb` sent by CRA pictures the slices of a
  CRA picture that starts a sequence get different POCs: the first takes the low bits alone.
* *Deleted PPS.* A PPS that arrives again with other content is replaced while held pictures
  point to it (`DecLib.cpp:1691`); the output reads only the SPS.
* *Several tiles in a slice.* The encoder's writing pass resets the previous QP at the start of the
  slice only, its search and the decoder at every tile (`EncSlice.cpp:2083`): with
  CUs of changing QP at the start of a second tile the decoder's QPs differ (`QpFollowsEverywhere`).
* *IDR pictures behind the first POC cycle.* The encoder counts POCs on and sends the low bits
  (`VLCWriter.cpp:1910`), the decoder's POC of an IDR picture is the low bits alone, and `xUpdateRasInit`
  compares it with the POC of the last IRAP picture. With `IdrPocs = {0, 5, 6}`, a cycle of 4 and no picture
  trailing the IRAP picture before, the encoder drops its states at the IDR picture and the decoder does not:
  IDR 0, trailing 1, CRA 2, IDR 5 (decoded as 1), RADL 3. `ContextsAgree` fails; the run keeps to the first cycle.
* *Border against limits.* Where the picture ends inside a CTU and no splits in two or three are allowed,
  quad splits are forced below the least quad-tree size (`UnitPartitioner.cpp:425`).
* *CTUs of 256 samples in a dual tree.* `getImplicitSplit` compares with 256 and `coding_tree` with
  128: luma areas above are split by four whatever split was parsed
  (`CABACReader.cpp:847`); the encoder avoids other splits.
* *Hidden and predicted signs.* Together the reader would skip the hidden sign and the
  writer would not (`CABACReader.cpp:5868`); the configuration excludes the combination.
* *GOP verification.* List 1 is not verified and temporal layers are not compared
  (`EncAppCfg.cpp:3561`); with layers mixed up a picture names one of a higher layer and the
  decoder refuses it. The buffer size counts what an entry names, not what waits: if the entry of POC 1 in a GOP of four does not
  name POC 4, the decoder writes POC 4 before POC 1. In `xInitRPL` the first entry of a later list
  reads `m_refPicIdentifier[-1]`; the loop that would fill list 0 from list 1 never runs.
* *Parcat.* `first_idr_slice_after_ph_nal` goes stale if picture headers come in NAL units of
  their own in one file and in slices in another; `last_idr_poc` never changes.
* *Recovery flag.* The second slice of a CRA picture that starts a sequence clears the
  recovery flag that the first has set, since `m_firstSliceInSequence` is already
  false; RASL pictures behind it are then not suppressed by it, only skipped.
* *Loop without progress.* `xParsePrefixSEIsForUnknownVCLNal` deletes the front element of
  a list without removing it (`DecLib.cpp:2203`).

## 4. Proofs

TLC covers small instances; TLAPS covers all of them, for every value of the constants
that satisfies the named assumptions of the modules.

| Theorem | Says | Assumes |
|---|---|---|
| `DecoderTypeOK` | `Spec => []TypeOK` | `MaxDec > 0`, `NumReorder`, `SkipFrames` natural, `StreamAssumption` |
| `DecoderOneBufferEach` | `Spec => []OneBufferEach`: no picture is in two buffers | the same |
| `DecoderKeepsWaiting` | `Spec => KeepsWaiting`: no step gives away or deletes a buffer whose picture waits, before it is written, unless prior pictures are being dropped | the same |
| `DecoderNoFault` | `Spec => []NoFault`: no CHECK fails and no missing picture is dereferenced | the same and `Conforming` |
| `DecoderReferencesAreRight` | `Spec => []ReferencesAreRight`: every list entry finds the picture the author meant, decoded | the same |
| `DecoderOutputInOrder` | `Spec => []OutputInOrder`: the file is in output order, sequence by sequence | the same |
| `DecoderReorderBound`, `DecoderBufferBound` | `ReorderBound`, `BufferBound`: after each pass at most `NumReorder` pictures wait; the list outgrows `MaxDec` by one at most | the same |
| `DecoderKeepsPromise` | `Spec => KeepsPromise`: the decoder implements `PictureOutput` | the same |
| `DecoderShowsAll` | `Spec => []ShowsAll`: what is to be shown is in the file in the end | the same and no EOS in the stream (the run `last_sequence` refutes it with one) |
| `BytesComeBack`, `StartCodesStayOut` | no start code in any NAL unit, and `RoundTrip`, for payloads of any length | `ByteAssumption`: bytes, the second header byte not zero |
| `NalUnitsReadInOrder` | `ReadInOrder`: every NAL unit is read once and in order, and pictures end where they end, for streams of any length; the last picture is excepted where it is alone behind an EOS | `TransportAssumption` |
| `EosIsForgotten` | `EosEndsUnit`: behind an EOS the decoder sees the next picture before it reads anything, so that the EOS is always the last NAL unit of its picture unit | the same |
| `AccessUnitsAreOne` | `AccessUnitIsOne`: the `TemporalId`s compared are those of one picture, and there is one to compare | the same |
| `OrderCountsFollow` | `PocFollows` for any cycle and any stream | only IDR pictures send the MSB |
| `ParameterSetsHold`, `HeldSetsLive` | `DecodedAsSent` and `HeldSpsAlive` for any number of parameter sets and pictures | `~CraStarts`: CRA pictures start no sequence behind an EOS, the case that `reused_sps` refutes |
| `SplitsComeBack` | every split the partitioner allows comes back from its bins, for every CTU size and limits | `TreeAssumption` |
| `TreeTilesCtu` | `CtuIsTiled`: the CUs tile what the picture has of the CTU, none twice, none left out, none across the border | the same |
| `TreeSplitsAreLegal` | `SplitsAreLegal`: no split fails a CHECK of the partitioner, and all of a way fit into `splitSeries` | the same |
| `TreeCountersFollowPath` | `CountersFollowPath`: the depths changed by hand are those of the way | the same |
| `TreeGroupsStartOnce` | `GroupsStartOnce`: exactly the first CU of a quantisation group predicts a QP | the same |
| `ContextsStayLocal` | `ContextsAreLocal` for any picture size, tile grid and slice, with and without wavefronts | `SliceAssumption` |
| `MotionStaysLocal` | `MotionIsLocal` for the same | the same |
| `SubstreamsMatch` | `SubstreamsAgree`: the two tests for the end of a substream and the two counts of the header are one | the same |
| `StatesStayRecent` | `StoreIsRecent` for any POCs, kinds of pictures and buffer size | `StoreAssumption` |
| `StatesAgree` | `ContextsAgree` for the same, wherever the decoder starts | the same and `CraStarts`: a decoder starts in mid stream at CRA pictures only (the run `radl_contexts`), and IDR pictures come before the POC wraps (see the observations) |
| `CoderRegistersFit` | `RegistersFit`: the arithmetic encoder's interval fits into the bits that wait, a carry finds a byte that takes it, what is written are bytes, the decoder's value stays inside its range; for any symbols and contexts, however many | `CoderAssumption`: what the functions are called with |
| `QpsFollow` | `QpFollows` for any range of QPs | the same; the slice has one tile, the case that `QpFollowsEverywhere` is about |

*The inductive invariant of the decoder.* `OneBufferEach` is not inductive: a slice with
`firstInPic` set takes a buffer, and nothing in the property says that its picture has none
yet. `IInv` adds `SliceIsAhead`: the slice that comes next belongs to the last coded picture,
and if that already is the current picture then the first-slice flag is clear. It also adds
`ViewInside`: every picture in the list has a decoding order number of at most `cur`. So a
slice that takes a buffer has a number above all in the list. The step proof has one lemma per
action. `AfterSliceStep` is shared by skipped and decoded slices and states what both must
establish: a slice that makes its picture current clears the first-slice flag as well.
Breaking just that (`SkipSliceAsDecoded`, `DecodeSliceInNewBuffer`) breaks the properties.

*Keeping the pictures that wait.* The actions compose list functions: flush or not, drop or not,
take a buffer, finish and sort, output pass. `Decoder_proofs` shows for each that it
keeps the pictures (`Keeps`), that it keeps those that wait (`StartPictureKeeps`), or that it writes
what it deletes (`FlushOutputType`), for lists of any length. The two facts that need
counting arguments are that `SortPicList` is a permutation (`Ranks`: under a strict total
order on a finite set the number of smaller elements is a bijection onto `0 .. n-1`) and
that `Ascending` enumerates a set (`CountUpTo`).

*Conforming streams.* The theorems from `DecoderNoFault` to `DecoderShowsAll` are about streams of any
length and any limits of the SPS, under `Conforming`: the switches of `Bitstream` that make a
stream less well-behaved are off, no frames are skipped, and behind an EOS comes an IDR picture.
Each of these is needed: the runs `random_access` and `lost_picture`, and the observation on stale
references, are counterexamples without it. The invariant is `CInv`. Its first half says of the
stream what holds of every coded picture when it is coded (`CRules`: `Lawful` is the rules the author
keeps, turned into facts about single pictures). The second half ties the decoder's state to the
*next* NAL unit, the form in which the flags are read: the first-slice flags are set
exactly in front of a first slice (`CFlags`, `CSlices`), the associated IRAP picture is that of
the slice to come (`CIrap`), `loopFiltered` outlives at most the first picture behind an EOS
(`CFiltered`). `CList` says that the list holds pictures of the current sequence only, or such as
nobody will ask for, and that what a later picture may name is there, marked and decoded. The last is
what `NoFault` rests on: the marking of a picture removes what its own lists do not
name, and by the author's rules nothing later names it either.

*The output file.* The limits in the SPS are kept by the author's decoder, which counts as the
specification does (C.5.2.2); the code counts in a loop of its own, over a sorted list, on another occasion and
stops at the first picture it may not write. `OInv` relates the two. `OView`: the list is
ordered by POC, all that waits is above the POC written last, and neither limit is exceeded
after a pass (`Settled`). `OCurrent`: the current picture does not wait before it is finished.
`OAuthor` is the heart: the author's decoder has written at least as far, and above the last POC
it has written both wait for the same pictures (`Trails`); with the picture that is being decoded it
exceeds no limit (`InStep`). So the decoder never writes beyond the author's. With sets of POCs instead of lists the argument
is short: a pass writes the lowest ones for as long as a limit is exceeded (`BumpsLowest`),
and one more waiting picture cannot make it write less (`OverGrows`). Both the order of the file
and the bounds follow, and since the author's decoder is in order, so is the file. TLC checked
`OInv` on the instances of `conforming` and `sequences` before it was proved.

*The refinement.* `OStep` says of each iteration what it does in the words of `PictureOutput`: some
pictures arrive, and the lowest ones of the old and new together are written. `Promised`
(what is written precedes what waits) is the invariant it needs. The mapping of places to
pictures is one to one, so that the cardinalities of the abstract step are those of the list.
`OShown` adds the counterpart of `NothingLeftOut`: each picture with output that has been decoded is in
the file or waits; together with the flush at the end this is `ShowsAll`.

*Emulation prevention.* `RoundTrip` is about the end; the invariant of `Stream_proofs` says it
of every moment. `Placed`: with the history `at`, the bytes of the file are those of the payload
at increasing places, and each place left out holds a 3 behind two zeros.
`WriterCounts` and `ReaderFollows` tie each `zeroCount` to the zeros before it, so that the reader
meets an inserted byte exactly where its count is two; the zeros at the end
(cabac_zero_words) need their own count, `TrailingZeros`.

*Look-aheads.* `TransportInv` has a *layout*: the place of each NAL unit in the file, with the long or short start
code in front of it (`Layout`). The author's rules become an order of neighbours (`UnitsInOrder`: NAL unit
k + 1 starts a picture, or goes on with the one of k). A read from a layout place delivers that NAL unit
and leaves the stream, without the peeked bytes, at the next place (`ReadsNalUnit`); what it must not do is
to stop early, and `BodyIsClosed` is why it does not: the header has no start code, nor do a payload and
its cabac_zero_word. That a look-ahead returns at all needs an argument of its own, since it reads on until a NAL unit
decides: each read ends further on (`ReadsGoOn`), so there is a function that solves the recursion (`ChainsEnd`).
Along the layout it then finds the kind of the first NAL unit that decides. By the order of kinds
`isNewPicture` sees a picture exactly at its first NAL unit, at most one prefix NAL unit ahead (`SeesThePicture`,
`SeesNoPicture`), and `isNewAccessUnit` sees an access unit delimiter or a slice at most four ahead
(`SeesTheAccessUnit`). `LoopState` is the state between two iterations: before the slices of a picture, among them or behind
them, at the end. Since an EOS is the last NAL unit of its picture (`EosIsLast`, `EosAtTheBorder`), the
last NAL unit read says what `eosInPu` is, and whether an EOS has ended the picture before says what
`loopFiltered` is: both are part of the state. The seek back by three bytes is right although a long start code has four: it ends one byte into
the start code, where a short one begins (`StartsAt`, `PlacesAreNumbers`).

*POCs.* The invariant says that `m_prevTid0POC` is the author's `anchor` plus `offset`, and that
`offset` is a multiple of the cycle. The arithmetic lemma is that a POC less than half a
cycle from the anchor is the only one with its low bits; it is stated once, with the cycle as a parameter.

*Parameter sets.* `MapsAreAsSent` relates the maps to what was sent last. `OneSps` says that all
buffers point to one SPS object, the stored one of the sequence or, when it has been replaced
before the first picture of the next sequence, the object kept for just that (`last`).
`WhileDecoding` says that what the current picture has been given is what its author meant.

*Splits.* No induction: for any set of allowed splits, what the writer codes and
what the reader infers are functions of the same set, case by case.

*The walk over a CTU.* `TWalk` is what holds of the stack and its counters after any number of splits and
returns. `TShape`: the stack is a `Way`, in which each level tiles the current part of the level above;
areas are halved or more per level (`WayAreas`), squares as long as all splits are in four. `TSplits`
keeps why each split was possible, and `TDepths` says that depths are cardinalities over the levels, so that a
split, a next part and a return each change one member. `TBorder` is the surprising part. A split
forced by the border counts in `implicitBt`, and the limit for splits in two and three is
raised by it; so in front of an area that crosses the border every split in two was itself forced
by it, and the depth never forbids the next one (`QuadOnlyFirst`). Without that, the last resort of
`getImplicitSplit` would be a quad split below one in two, which the partitioner CHECKs. `TCoded` then
says what has been coded: of each level the parts before the current one, as far as they are in the picture.
`TGroups` says that the levels which start a group are the first ones of the way, and that a group has been started
as soon as its first block is coded. The instance that TLC checks has one CTU size; the theorems have
all four, with any limits and extents.

*The CTUs of a slice.* The argument is one of geometry. `Before` is a strict total order on the CTUs
(`BeforeIsOrder`, from the order of raster addresses), so counting what comes before enumerates the
slice (`PlaceGrows`, `CtuAt`). The CTU before one inside a row is then its left neighbour
(`InsideARow`); the one before the first of a row is of the same tile exactly if one
of the slice is above (`BelowAnother`, `StartingARow`); and a tile goes on as long as one of its CTUs comes
later (`TileGoesOn`), so that a look at the next CTU and a look at the borders agree
(`EndsAgree`). The invariant `SliceInv` adds to the properties what the stored states hold: in a
wavefront those kept for the next row are of first CTUs of rows of the current tile. For QPs it says
that the three previous QPs are one number and which CTUs have a QP. It is here that the
reset the encoder's writing pass lacks does no harm: inside a tile the first CTU of a row is predicted
from the QP above it and not from the previous one. `QpComesBack` is the arithmetic of `cu_qp_delta`.

*The arithmetic coder.* `RegistersFit` is not inductive: that `low + range` fits into 33 bits less `left`
does not say that a byte moved out of `low` can take the carry. `CoderInv` says for the encoder where the interval
ends (`EncoderOk`): at `CarryLimit` units of the byte that leaves `low` next. The limit is 512, one carry above a byte, if the
held byte is below 255; it is 256 if the held byte is 255, so no carry comes;
it is 255 before anything is held, so that the first byte is never 255. Coding a bin
takes a part of the interval and scales it (`PutKeeps`), and `WriteOutKeeps` shows that the end found by
the old limit is within the new one, in the three branches of `writeOut`. `finish` then gives bytes, the first below 255 if there are
two (`FinishedSubstream`), which is why the decoder starts below its range of 510 (`ReaderStarts`).
For the decoder the property alone is not inductive either: a refill adds a byte below the range. `DecoderOk` adds that the bits of `m_Value` which have not been read are zero (`ReadBits`):
value and range are then multiples of one power of two, and a byte below it cannot reach the range
(`ShiftKeeps`). The decoder's part holds whatever symbols it is asked for and whatever the bytes are, as long as
the first is below 255; a terminating one ends the substream, because `finish` does not renormalise.
A context's estimates stay within 15 bits (`EstimateMoves`), so an LPS range is never 0 nor the whole range. TLC checked `CoderInv`
on the instance of `slice_data` before it was proved.

*Context states across pictures.* The two sides drop their states by comparing POCs of their own, so the invariant
`DecoderStore` relates what they compare: the decoder's `lastRas` is the encoder's, shifted. Either the
stores are the same, or the decoder `CatchesUp`: it has started at the last IRAP picture, skips what leads it,
and both will drop everything at the first picture behind. It is needed that the shift is never positive
and only zero where an IDR picture may follow, which is what the second half of `CraStarts` gives. That a full
buffer stays within `TEMP_CABAC_BUFFER_SIZE` needs the least key of a finite set (`ReplacedOk`).

*Only model-checked:* the liveness properties `ShownIsWritten` and `ReachesEnd`, which are out of
the prover's reach (fairness, ENABLED); `SymbolsComeBack` of `ArithmeticCoder`, which relates the decoder's value to all bytes still to come,
an induction over the substream; `ResidualCoding`, whose bins are sequences built by recursion over a group; and
`EncoderLists`, whose two properties are about the configurations that are checked and not about all: the
observations on GOP verification above give configurations that break them, so there is no theorem over every constant.

## 5. Not modelled, and why

* *Sample arithmetic*: prediction, transforms, loop filters, SIMD kernels, tables: most of the
  code. It has no state beyond the samples and is checked by bit-exact streams.
* *Encoder search and rate control*: heuristics over numeric costs, every outcome of which
  is a legal stream; rate control is floating point.
* *Header and SEI syntax*: field by field, in the same order in writer and reader, without state.
* *The rest of the CU syntax* (modes, motion, palette): flags whose contexts depend on neighbours;
  the candidate lists behind them are long numeric derivations that writer and reader share.
* *Several layers, subpictures, field output, GDR, long-term and inter-layer references, composite
  references, DRAP*: left out of the modules above; the guards they would add are absent, not altered.
* *VPS, APS, DCI*: stored like an SPS; an APS that changes between the slices of a picture
  ends the program.
* *Tools*: the extractor, merger and SEI removal decide NAL unit by NAL unit; parcat is described in the
  observations. The memory bandwidth model is compiled only for measurements.

The map covers some eight thousand lines of control out of three hundred thousand. A share of a third is out of reach
for a codec of this kind, where the larger part is arithmetic and tables.

## 6. What would come next

1. `EncoderLists` with long-term and inter-layer references and fields, and as the author
   of the streams in `Decoder`, so that these come from the code.
2. `Conforming` relaxed: a CRA picture with leading pictures behind an EOS, where the code is right
   as long as no POC comes twice.
3. Skipped and merged modes with their candidate lists, as an abstract list both sides build.
