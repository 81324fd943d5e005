# A TLA+ model of the BWE adaptive-bitrate publisher

The program publishes a looping clip into an Agora channel and adapts what it
sends to the bandwidth the SDK reports. In *encoded* mode it owns a ladder of
pre-encoded H.264 files, selects the rung itself (`AbrController`) and streams it
(`ContentPlayer`). In *YUV* mode it pushes raw frames of an ffmpeg it started and
leaves adaptation to the SDK. This directory models its control: what the
selectors decide and when, how the player follows them, how a file becomes a list
of frames, how the loops keep time, and how the threads come and go.

Paths below are relative to the repository; `abr_controller.cpp:95` and the like
stand for `src/abr_controller.cpp`, line 95. `PROJECT.json` maps every definition
to its lines.

## 1. The system

| component | state it keeps | operations | talks to |
|---|---|---|---|
| `AbrController`, selector "recommended" | `recommended_bps_`, `rec_window_`, `target_level_`, `upgrade_sustained_s_`, `last_change_ms_`, `running_`, `thread_` | `set_recommended_bps`, `start`, `stop`, `tick_loop`, `evaluate_recommended` | SDK uplink callback writes an atomic; the tick thread evaluates under `mtx_`; the player reads `target_level_` without a lock |
| `AbrController`, selector "trend" | `receivers_` with a window each, two sustain counters, `target_level_`, `last_change_ms_` | `add_bwe_sample`, `on_receiver_joined/left`, `evaluate_trend` | SDK downlink and user callbacks under `mtx_` |
| `ContentPlayer` | `readers_`, `frame_count_`, the loop's `current_level`, `frame_index`, `running_` | `initialize`, `start`, `stop`, `video_loop` | reads the ABR's target, sends to the SDK |
| `H264Reader` | the mapped file, `frames_` | `open`, `index_frames`, `frame_at`, `is_keyframe` | used by `ContentPlayer` |
| `YuvContentPlayer` | the decoder stream `dec`, `running_` | `start`, `stop`, `video_loop`, `open_decoder` | ffmpeg through a pipe, the SDK |
| `AudioPlayer` | the PCM file and its position, `running_` | `start`, `stop`, `audio_loop` | the SDK |
| pacing | `next_send` in each of the three loops | the five lines that end an iteration | the steady clock |
| `PublisherObserver` | `connected_`, a condition variable, the last uplink value | `wait_until_connected`, SDK callbacks | feeds `AbrController`, peer by peer, its lock released in between |
| `main` | `g_stop`, the SDK objects, the four workers | set-up, wait, start, poll, shutdown; the signal handler | everything |
| `Config`, `Json`, `parse_args` | the parser's text and offset | `Config::load`, `Json::parse_file`, the overrides | run once by `main`, before any thread |
| logging | a file and a mutex | `log_*` | written by every thread, read by none |
| `prepare_content.sh`, `web/viewer.html` | none | run apart from the publisher | none |

**What is hard.** Six threads meet here: main, the signal handler on top of it, the
tick thread, a video and an audio thread, and the SDK's callback threads.

* *Time.* The selectors mix three clocks: stamps compared with the present, samples
  that age, and sustain counters that count ticks whatever the ticks really took.
* *Stale values.* The recommendation is an atomic that is sampled again each tick,
  whether the SDK refreshed it or not; a receiver that falls silent is judged by its
  last estimate until it is stale; the player reads the level once per frame.
* *Two thresholds over one window.* Downgrades look at the minimum, upgrades at the
  average of the same samples.
* *Callbacks.* One downlink callback is several calls of the controller, with ticks and
  departures in between, and makes up keys that no departure ever names.
* *Partial failure.* A refused send, a decoder that dies, a connection that never
  comes, an audio file that is not there: the code goes on from each.
* *Shutdown.* The flag may be cleared at any point of any loop, before some workers
  were started, or while one waits for a read.
* *Numbers.* Two `int` computations overflow at sizes the code does not exclude, and
  a signed estimate reaches comparisons that are meant for positive ones.
* *Start-up.* Everything behind it indexes a ladder that came out of a hand-written
  parser, with a level that a default, the file and the command line compete for.

`PROJECT.json` lists these as hazards at their lines, with the properties aimed at
each, and says why where none is.

## 2. The modules

| module | models | how |
|---|---|---|
| `LevelGovernor` | what the player may rely on of a selector | abstract: falls at any time, climbs one rung at a time after a settled period |
| `AbrRecommended` | `AbrController` with the recommended selector, tick thread included | one action per branch of `evaluate_recommended` |
| `SlidingWindow` | the window of time-stamped samples of either selector | operators: append and prune, age, sum |
| `AbrTrend` | `AbrController` with the trend selector | `DownCheck` and `UpCheck` are the two checks, applied one after the other as in the code |
| `Observer` | `PublisherObserver` in front of the trend selector | composes `AbrTrend` with the callback, fed one peer per step |
| `ContentPlayer` | `content_player.cpp`, and `H264Reader` as it uses it | one action per file opened, and one per statement of the loop that another thread can interleave with |
| `H264Index` | `H264Reader::index_frames` on the bytes of a file | one action per loop iteration of either pass |
| `Pacer` | the pacing of the three loops | time is an action of its own and may pass anywhere |
| `PlayerThread` | what `main` relies on of a worker | abstract: a `running_` flag and a `std::thread` |
| `YuvPlayer`, `AudioPlayer` | the two simpler players | one action per step of the loop; they have no next-state relation of their own |
| `Publisher` | `main.cpp` and the workers | composes main, `YuvPlayer`, `AudioPlayer`, two `PlayerThread`s, signal, callbacks |
| `JsonGrammar` | what `json.cpp` promises | abstract: the tokens, and the value a text denotes, by the rules of the grammar |
| `JsonParser` | `json.cpp` | the recursion as a stack, one action per step of a grammar rule |
| `Startup` | `parse_args`, `Config::load`, the overrides | composes main with `JsonParser`; `Publisher` goes on from there |
| `MC*` | instances for TLC | ladders, contents, video files, configuration files as trees and their texts; `MCAbrTrendThrottle` adds the throttling experiment of `plan_bwe.md` |
| `*Proofs` | the theorems | section 5 |

`AbrRecommended` and `AbrTrend` refine `LevelGovernor`, and `ContentPlayer` is
driven by exactly what the governor allows (`Retarget`: any rung below, or the next
one above), so the player's properties hold with either selector. `ContentPlayer`,
`AbrRecommended`, `YuvPlayer` and `AudioPlayer` refine `PlayerThread`, fairness
included; `Publisher` uses `PlayerThread` for the first two and the detailed modules
for the others.

### Correspondence and abstractions

* **Time** is a counter of abstract units. Where the code subtracts two stamps, the
  model keeps the difference, saturated just above the largest value it is compared
  with. No behaviour is cut off by this. Ticks may be arbitrarily late.
* **Doubles** are exact fractions (`HeadNum / HeadDen`, sums over counts), compared
  by cross-multiplication. Sustain counters add up exact ticks; with the default
  tick of 500 ms the code's doubles do too.
* **`int`** wraps at `IntMax`: in `RecSum`, and in `TotalBits`, where the unwrapped
  value is allowed as well because signed overflow is undefined and compilers do
  keep the product in a wider register.
* **The tick thread** checks `running_`, sleeps, evaluates once more and checks
  again, as the loop does: a stop during the sleep is followed by one evaluation.
* **Trend samples.** In `AbrTrend` each sample comes by itself, at any time. `Observer`
  restricts this to what callbacks do: the same estimate for every peer, one peer at a
  time, `"downlink"` if there is none. `ObserverIsTrend` proves it a restriction, so
  what is proved of `AbrTrend` holds there; TLC checks the composition. SDK callbacks
  of one kind do not overlap; departures and ticks fall anywhere. `ReportGap` bounds
  the samples per unit of time, and so the windows. `last_uplink_bps_` is left out:
  only the STATUS line reads it.
* **Estimates are signed.** The callback passes the estimate of listed peers on as it is
  (`publisher_observer.h:36-41`); only without peers does it ask for `bwe > 0`. Below
  zero the thresholds change sides: for samples that are all -1, -1 < -1/1.3 is a dip and
  -1 > -1 * 1.2 a rise, both counters run, and the level moves though nothing changed.
  `Estimates` is therefore any set of integers, and what holds above zero only says so
  (`CountersSound`, `SteadyLevel`, `PersistentDipFalls`). The factors may be any
  positive fractions, since `config.cpp:55-57` checks neither; what needs them to be at
  least 1 says so too (`FactorsWiden`). Factors, ticks and durations that are negative,
  and a factor or a tick of zero, are outside the model.
* **Content.** The ladder is any set of files, each a frame count and a set of
  keyframes, whose first frame is a keyframe, as an encoder writes it. No frames stands for
  a file that `open` refuses, for whichever of its reasons. The descriptor and the
  mapping behind a reader are left out. `behind` is a history variable of
  `SwitchWithinGop` and saturates above the common length, past every value the
  property compares it with.
* **JSON** is a sequence of tokens, and white space is gone. A scalar token stands for
  the characters that make it, so the escapes inside a string are not modelled, and
  neither is the spelling of a number: it is what `strtod` makes of the run of digits,
  signs and points, in hundredths. That `1-2` is read as 1 and `--` as 0, although
  `json.h:44` says malformed input throws, is therefore outside the model. One token,
  `?`, stands for what no rule takes. `ParseFirst` and the like are separate actions
  for steps the code makes in one call; nothing runs beside them.
* **What an encoder writes** is stated in `H264Index` as `Coded`. `LaidOut`: the bytes are
  NAL units, and no start code is read anywhere else. `Grouped`: a picture is units in a
  row, other units first and then its slices, of which the first and no other has
  `first_mb_in_slice = 0`; behind the last picture there is no slice. A unit that
  follows the slices of its picture (filler, an SEI suffix) is not of this form, and the
  code gives it to the next picture. Each file of the runs carries its units and
  pictures, and TLC evaluates `Coded` on it (`MCFilesAreCoded`).
* **`read_ue`** is only asked whether its value is 0, which a file whose header bits
  are well formed answers with the first bit. Values of 32 and more leading zeros
  are out of scope, and so are files whose last start code ends exactly on a page
  boundary (the byte read beyond is then outside the mapping; elsewhere it is 0).
* **Failures.** Every call to the SDK or the system that the code checks may fail.
  When `ContentPlayer::initialize` fails, `main` sets `g_stop` itself and goes through
  its shutdown with no worker started. The media factory that is used before it is tested is the crash branch of
  `Media`. A second `pclose` of one stream is undefined: it may pass unnoticed or
  end the process.
* **Early returns** among the media nodes leave the observer registered
  (`main.cpp:186-190`, `224-228`). The model keeps `registered` TRUE there;
  `CleanedUp` speaks only of the clean end.

## 3. Properties and runs

Every run finishes within seconds to a minute.

| run | instance | shows |
|---|---|---|
| `AbrRecommended` | 3 rungs, recommendations 0, 3, 6, 16 (none, and the three rungs at 4/5 headroom, the last high enough that an average fits the top rung beside a low sample), tick 2, window 5, cooldown 3, upgrade 4 | `WorstCaseMargin`, `LevelFitsAverage`, `WindowBounded`, `SustainedFits`, `SustainBacked`, `UpgradeSpacing`, `Converges`, `ObeysAsThread`, `RefinesGovernor` |
| `AbrRecommendedFlap` | tick 1, window 2, upgrade 3 | `DowngradeHasFreshCause` **violated**, section 4 |
| `AbrTrend` | a user, an unnamed peer and the stand-in `"downlink"`, 3 rungs, estimates -1 and 4, window 1, stale 2, durations 2, at most one callback a unit of time | `CountersSound`, `ChangesAreSpaced`, `SteadyLevel`, `GhostsPruned`, `PersistentDipFalls`, `RefinesGovernor` |
| `AbrTrendThrottle` | the default durations and factors, in half seconds | `ThrottledStepsDown` **violated** |
| `ContentPlayer` | 3 rungs; five ladders: aligned and looping, aligned and ending, one file longer, keyframes that do not line up, a file missing | `FrameAvailable`, `SwitchWithinGop`, `OffersUnbrokenGop`, `BrokenOnlyByLoss`, `SwitchesEventually`, `ObeysAsThread` |
| `ContentPlayerLoss` | the same | `ReceiverSeesUnbrokenGop` **violated** |
| `Pacer` | interval 4, lag up to 10 | `Spaced`, `NoBurst`, `BackOnSchedule` |
| `H264Index` | files of 0 to 2 pictures: with and without parameter sets, IDR or not, 1 or 2 slices, both start codes, with and without a start code at the very end | `IndexesPictures`, `FramesInOrder` |
| `H264IndexBig` | the same with an `int` too small for the file's bits | `SlicesStayTogether` **violated** |
| `Publisher` | both modes, looping or not, 2 pieces of audio | `WorkersWithinPublication`, `CleanedUp`, `DecoderLive`, `ShutsDown`, `ReachesPublishing`, `AudioKeepsPlaying`, `PlayersObey` |
| `PublisherCtrlC` | the same | `CleanShutdown` **violated** |
| `Startup` | 16 files written from trees, one missing, and one cut off, continued or damaged at every token; ten command lines | `ParsesWhatIsWritten`, `ConfigIsUsable`, `ComesUpIfFit` |

**Why the bounds are enough.** Three rungs tell a drop of two from a step of one and
leave a rung above and below the start. In `AbrRecommended` the durations are
such that a sample outlives two ticks, an upgrade takes two ticks of credit and the
cooldown ends between ticks. Two
receivers are what "worst case over the receivers" needs, and the third key of
`AbrTrend` is the one that is not a receiver. Its estimate of -1 makes averages on
either side of zero and steady dips that are rises too, and is the one for which
a callback without peers feeds nobody. GOPs of two frames give every
content a keyframe and a delta frame to be at when the target moves. The good
configuration files reach every section and every kind of value, and each bad one
fails a check of its own. Two pictures are one boundary, and the tail the other. The pacer's interval of 4 leaves room for
short, exact and long delays, and its lag for a stall of two intervals. In
`AbrRecommended` the sums stay below `IntMax`, so the wrap is not taken in that run.
The theorems that mention the average hold with the wrap, but for `AverageFits`, which
assumes that the sums fit (`SumFits`); `LevelFitsAverage` and `Converges` would fail
once a window of some 200 ticks at 10 Mbit/s overflows. `WindowBounded` says how many
samples a window can hold, so that the assumption is a matter of the configuration.

**Fairness.** Only what a scheduler and a clock give: time passes, a runnable thread
runs, a sleep ends, a call of the SDK or the system returns, `join` returns once
the thread has. Nothing obliges the SDK to report, to connect or to accept a frame,
nor anyone to send a signal or the main thread to stop. One assumption is worth
naming: an `fread` from the decoder returns a frame or comes up short. An ffmpeg
that neither writes nor ends would hold up the shutdown, since `stop()` waits for
the thread and nothing tells ffmpeg to end. `PersistentDipFalls` assumes no
more of the ticks than that they come, each seeing a dip and no rise. `BackOnSchedule`
is conditional in the same way: from some time on, time passes only in sleeps until the
schedule and in sends shorter than an interval. What went before, any lag included, is
free; nothing promises that the sends ever do return in time. In `Startup` a sequential program runs on, and
the disk answers. `AbrRecommended` has deadlock checking on: its clock always runs.
`Publisher`, `H264Index` and `Startup` stop when they are done.
`ContentPlayer` stops where a file cannot be opened.

## 4. Where the code and its documents disagree

* **Flapping** (`AbrRecommendedFlap`). Upgrades follow the average and downgrades
  the minimum of the same window (`abr_controller.cpp:114-115`). A low sample already
  in the window when an upgrade is made undoes it on the next tick. `README.md:147-148`
  says cooldown and sustained upgrade avoid flapping. `WorstCaseMargin` bounds the
  damage: one rung.
* **Broken GOP** (`ContentPlayerLoss`). `content_player.h:19-21` says the receiver
  never sees a broken GOP. If the SDK refuses the keyframe of a switch, the player
  goes on with the delta frames behind it. `BrokenOnlyByLoss` shows this is the only
  way, and that the next keyframe heals it.
* **Throttling** (`AbrTrendThrottle`). `plan_bwe.md:471` promises a step down within
  `br_downgrade_duration`. A lasting drop is below the rolling average only until
  the window (2 s) holds nothing but low samples, which is sooner than the duration
  (3 s): the dip is over before it counts, and the level stays.
* **Double pclose** (`PublisherCtrlC`). `README.md:120` says Ctrl-C stops cleanly. A
  terminal's Ctrl-C reaches ffmpeg too; if `running_` is cleared between the short
  read and the test behind it, `yuv_content_player.cpp:63-64` leaves the loop with a
  closed stream that line 100 closes again.
* **Large files** (`H264IndexBig`). `h264_reader.cpp:65` multiplies a size by 8 in an
  `int`. With 256 MiB or more of the file ahead no bit may be read, and each slice of
  a picture becomes a frame of its own, which `h264_reader.cpp:103-104` rules out.

## 5. What is proved

TLAPS checks every leaf. The theorems hold for every value of the constants that
meets the named assumptions, each of which is a fact about configurations
(`Config::load` checks the ladder and the start level) or about the model's bounds.

* **`AbrRecommendedProofs`** from `LadderAssumption`, `TimingAssumption`,
  `ValueAssumption`. `TypeCorrect` rests on `LevelForType` (the chosen rung is always
  on the ladder) and `WithSampleType` (pruning keeps a nonempty suffix). `MarginHolds`
  and `CreditFits` are inductive with the types, given that ageing changes no value
  (`AgeingType`). `UpgradesAreSpaced` and `Refinement` need more than they say: that
  no upgrade comes early follows from `SustainBacked`, which ties the sustain credit
  to the clock through the time the thread has slept towards its next tick; one tick
  of credit is given for a full sleep only. `WindowIsBounded` rests on the `Rhythm` of
  the samples: each is a tick older than the next, and pruning and ageing keep it so.
  `AverageFits` assumes `SumFits`, that as many recommendations as a window can hold
  sum up within an `int`; then the minimum is no more than the average, hence
  `DownLevel` no more than `UpLevel` (`DownBelowUp`, `LevelForMonotonic`).
  `TickThreadIsWorker` is the safety part of `ObeysAsThread`.
* **`SlidingWindowProofs`** from `WindowAssumption`: what appending, pruning and ageing
  do to a window, and sums. A recursive function has to be shown to exist before
  anything is known of it; this, and the bounds on sums, go by induction over the set
  of lengths for which they hold (`NatSetInduction`), since the library's induction
  theorem takes an operator.
* **`AbrTrendProofs`** from `TrendAssumption`, and `ObserverAssumption` for the last; the
  estimates are any integers. `DownCheckCases` and `UpCheckCases` say what each check
  can do to the state record, whether a dip and a rise are seen together or not, and
  `TickStep` composes them. The clock part of `CountersSound` is not inductive: it needs
  the time slept since the last credit (`Paced`). Its other part, and `SteadyLevel`,
  come from two lemmas about one evaluation with factors of at least 1. Where no average
  is negative a dip is no rise (`DipIsNoRise`: the worst receiver of a dip is below its
  own average as well), and neither is seen where all samples are equal and not
  negative (`SameIsSteady`). From these `CountersAreSound`, `ChangesSpaced`, `LevelIsSteady` and
  `Refinement`; `ObserverIsTrend` carries them over to the composition.
* **`ContentPlayerProofs`** from `ContentAssumption`. The invariant says where the
  thread stands: between two frames the index is 0 or follows the frame last offered
  in the current file (`AtBoundary`); behind the switch, that or a keyframe. From it
  `FramesAvailable` (with `Opening`: no file is shorter than the common length),
  `GopUnbroken`, and `VideoThreadIsWorker`. `SwitchIsWithinGop` adds `Late`: of the
  frames behind the target none but the first was a keyframe of the target's file, and
  they were consecutive, so more of them than a GOP would contain one. `LossAloneBreaks`
  adds `InStep`: until a send fails, what was accepted last is what was offered last.
* **`PacerProofs`** from `PacingAssumption`. `ScheduleSpaced` is inductive: the next
  schedule is an interval past the send before the last. `SendsDoNotBurst` follows.
* **`PublisherProofs`** from `PiecesAssumption`. The inductive invariant says for each
  point of `main` which workers may exist and that a joined one never comes back, and
  what each stream is at each point of its loop: `WorkersArePublished`,
  `EndsCleanedUp`, `DecoderIsLive`. `PlayersAreWorkers`, the safety part of
  `PlayersObey`, needs that a player is told to stop before it is joined (`Told`).
* **`H264IndexProofs`** from `FilesAssumption`, for all files, well formed or not. The
  NAL units found are in ascending order and the frames collected end no later than
  the one being collected begins: `FramesAreInOrder`. `FramesArePictures` is about the
  files that are `Usable`: `Coded`, and with bits that an `int` can count; without the
  second it is false, as `H264IndexBig` shows. The first pass is at a position between
  the units it has found and the next, so that a start code it reads is that unit's
  (`UnitAt`): `Found`. Of the second pass `GroupedUpTo` says, with the picture of the unit
  grouped last, that the frames are the pictures before it, and that what is being
  collected has the offset of that picture, a slice if that unit is one, and an IDR
  if one of its units so far is. That the code starts an access unit exactly at a unit
  that begins a picture follows from the bit it looks at (`SliceDecision`) for a slice,
  and for other units from their coming before the slices. That the pictures come
  without a gap (`NextPicture`) is derived, not assumed.
* **`StartupProofs`** from `StartupAssumption`: the texts are tokens, and what is noted
  of a file as its content is what its text denotes if it denotes anything. TLC
  evaluates it on the files of the run, so there the grammar is compared with the
  trees the texts were written from. The lemma `OneValue` is about the grammar alone:
  it is unambiguous, by induction on the length of what a judgement is about
  (`RuleInduction`, from the fixed point `JudgementsFixed`). The parser's stack is inductive in two ways. `ParserSound`: what each
  level has read, closed by any remainder that fits, is a value of the tokens
  consumed. `ParserComplete`: if the text denotes something, each level can still be
  read on to an end. `ParserIsSound`, `ParserIsComplete` and, with `OneValue`,
  `ReturnsWhatIsWritten` follow. `RunsOnUsableConfig` holds whatever the parser returns:
  `Load` and `Override` let no other configuration through.

`SlidingWindowProofs` also holds what other proofs need of `Max` and `Min` of the
community modules on sets of naturals with a bound.

**Only model-checked.** All liveness (`Converges`, `SwitchesEventually`, `BackOnSchedule`,
`GhostsPruned`, `PersistentDipFalls`, `ShutsDown`, `ReachesPublishing`,
`AudioKeepsPlaying`, `ComesUpIfFit`) and the fairness parts of `ObeysAsThread` and
`PlayersObey`, which are beyond the prover. All safety properties that the passing runs check are theorems too. `ComesUpIfFit`
holds two claims: that every fit input comes up is liveness; that no other does is
the run's alone.

## 6. What is not modelled

* Logging: every thread writes under one mutex that is held across no other lock,
  and nothing reads it back.
* The viewer page and the content script, which share no state with the publisher.
* The characters inside a JSON scalar; the presentation time stamps; the STATUS line;
  the descriptor and mapping of a video file.
* The SDK beyond its callbacks and the outcome of its calls.
* The memory a selector that is not in use holds: with the recommended selector
  `evaluate_trend` never runs, so `receivers_` is filled and never pruned.
* As a property, that sustain credit ends when recommendations do: a tick without one
  returns early (`abr_controller.cpp:100`), so credit from before a gap of any length
  counts behind it. The model takes that path; `SustainBacked` and `UpgradeSpacing`
  speak of the time since the last change only, and hold with it.

## 7. What could follow

1. An encoded pipeline composing `AbrRecommended` and `ContentPlayer` without the
   governor in between, for what depends on both clocks: how long after a drop of
   the recommendation the lower level is on the wire. The governor and
   `SwitchWithinGop` bound its two halves.
2. `StartCodeLen` and the header bits at the level of `read_ue`'s bits, for values
   other than whether the first macroblock is 0.
