# Verification of realtime-asr

realtime-asr is a speech recognition front end in C++.  A client opens a WebSocket,
sends `{"signal":"start"}`, then audio (16 kHz, 16 bit, in binary messages), then
`{"signal":"end"}`.  The server cuts the audio into speech segments while it
arrives, posts each segment to a recogniser over HTTP, shows the client the text so
far, and in the end a final text and `speech_end`.

This directory holds TLA+ models of the parts that decide what happens when, the TLC
configurations that check them, and proofs for TLAPS.  Source names are kept
wherever TLA+ allows it, and the comment of an action names the function it models.

## 1. Inventory

| Component | Source | State | Operations | Talks to |
|---|---|---|---|---|
| server | `bin/server.cc`, `WebSocketServer` in `websocket/websocket_server.cc` | the acceptor, one `VadInst` | `main`, `Start` (accept loop, one detached thread per connection) | sessions (ownership, the shared detector) |
| client session | `ConnectionHandler` in `websocket/websocket_server.{h,cc}` | audio `samples_`, message ranges `rcv_range_smps_`, `state_`, `stop_recognition_`, the two tags, progress counters, `acts_`, `seginfos_`, `decode_thread_` | `operator()` (read loop), `OnText`, `OnSpeechStart/Data/End`, `OnError`, `DecodeThreadFunc`, `OnPartialResult/FinalResult/Finish`, `Get_segs_result`, `Check`, `reset` | client (stream), detector and `Acts` (calls), recogniser (blocking calls) |
| segmentation | `Acts` in `segment/segment.{h,cc}` | decisions per frame `acts_`, windows, starts and ends of segments | `add_act`, `end`, `reset`, `check_window`, `act_percent` | called by the decoding thread |
| recogniser client | `http/httpaudio.{h,cc}`, the client of `http/httplib.h`, `cppcodec/` | none kept over calls; in a post, a socket and what was read of the answer | `post`, `decode` | the recogniser, over HTTP; the session that waits for it |
| voice detector | `vad/thirdparty/webrtc/common_audio/vad` (vendored) | filter states, Gaussian model, minima, hangover counters | `Create`, `Init`, `set_mode`, `Process` | called by the decoding threads of all sessions |
| file splitter | `vad/src` | a cut under construction, its flags, a list of periods | `add_vad_activity`, `cut_*`, `period_format_*` | its own `main.c`, which is commented out |
| libraries | `json/`, `thirdparty/`, the rest of `http/httplib.h` and of `cppcodec/` | none kept over calls | parse, print, log | vendored |

### What is hard

* A session has two threads, the reader (`operator()`) and the decoder
  (`DecodeThreadFunc`), that share `samples_`, `rcv_range_smps_`, `state_`,
  `stop_recognition_` and the stream, without a lock or an atomic.  The decoder polls.
* `vector::emplace_back` reallocates under the other thread's pointers.
* The decoder loads sizes, ranges and `state_` one after the other and acts on them
  later.
* Everything can fail: the client disappears, a write throws, the recogniser answers
  nothing or something that throws.  A thread object destroyed without a join takes
  the process down.
* Progress is kept in three counters (`last_frame_`, `last_nranges_`, `nseg_done_`),
  updated at different places, over two branches that both post segments.
* All sessions call one voice detector, without a lock, and share the process: what ends
  it ends all of them.  `accept` throws when the descriptors run out, and `Start` returns
  with its sessions detached and running.
* The recogniser's answer comes in any of the forms HTTP has, in pieces, late, in part or
  not at all; the number of a descriptor that is closed is the next session's at once.
* Segmentation is a small machine over windows, with off-by-one hazards at every
  bound.

### What makes each component correct

* Segmentation: starts and ends pair up, in order, each segment long enough; no speech
  is outside a segment; a segment ends at the first silence that may end it; a segment
  once found does not change.
* Session: the frames of every message that is taken are judged once and in order; every
  segment that qualifies is posted once and in order; nothing is read outside the audio
  received; text once shown stays; one writer at a time; the end is answered; a failure ends
  the session and nothing else.
* Server: sessions do not disturb each other; a client that connects is served, once.
* Recogniser client: a text is returned for a whole answer and no other; a post ends, and
  closes its socket once; nothing is stored outside what was allocated.
* Detector: it extends speech by its hangover and no more; its minima are minima of the
  recent past.
* Splitter: pieces cover the file, are bounded in length, and are labelled by what they
  hold.

## 2. Modules

| Module | Models | Extends / uses |
|---|---|---|
| `Segment` | the methods of `Acts` as operators on the object | |
| `Acts` | an `Acts` object over its life: a state machine of these operators | extends `Segment`, implements `Segmentation` |
| `Segmentation` | abstract: what `Acts` promises | |
| `Session` | one connection: reader, decoder, client, recogniser, process | extends `Segment` (the decoder's `acts_`), implements `Transcript` and `SessionLife` |
| `Transcript` | abstract: what a client sees | |
| `SessionLife` | abstract: what a session may do to the process | |
| `Server` | `main` and `Start`: the loop of accept, launch and detach, and what it leaves behind | is made of `SessionLife`s |
| `HttpClient` | one POST of cpp-httplib over one connection, with the other end and the other threads | |
| `Base64` | encoder and decoder of `base64_rfc4648` as operators, and RFC 4648 | |
| `Httpaudio` | the calls of class `Httpaudio`: `post` and `decode` | extends `HttpClient`, `Base64` |
| `Detector` | the voice detector's API and the hangover after speech | |
| `SharedDetector` | the hangover with many sessions in it, one access a step | |
| `Minima` | the voice detector's moving minimum | |
| `FileCut` | the splitter: the cutter's state machine with its reading of files | implements `Splitting` |
| `Splitting` | abstract: the pieces that the splitter's settings promise | |
| `Periods` | the list of sounding periods, as operators | |
| `VadTool` | `run()` of the command line tool: every verdict to both | extends `FileCut`, has a `Periods` |
| `ActsProofs`, `SessionProofs`, `ServerProofs`, `HttpaudioProofs`, `SharedDetectorProofs` | theorems | each extends its module |
| `DetectorProofs`, `VadToolProofs` | theorems of two modules each | extend `Detector` and `Minima`; `VadTool`, and so `FileCut` |
| `Induction` | that a set of numbers has a least one, and induction over sets of numbers | extended by `SessionProofs`, `DetectorProofs` and `VadToolProofs` |
| `MCActs`, `MCSession`, `MCServer`, `MCHttpaudio`, `MCDetector`, `MCSharedDetector`, `MCVadTool` | values for model checking | each extends its module, `MCDetector` both `Detector` and `Minima` |

How they compose: a `Session` drives `Segment` and takes two things as free choices, the
verdict on a frame and the outcome of a post.  `Detector` and `SharedDetector` say how
verdicts come about, `Httpaudio` says what a post may do.  `Server` has a `SessionLife`
for each client, which `Session` is proved to implement, so that what `Server` shows
holds with sessions as they are.

Definitions introduced by "A plausible bug" (`JoinOmitted`, `LaunchJoins`, ...) are not
part of the models: each is a form of the definition after it that a slip in the code
would give, kept to test that the properties notice it.

### Segment and Acts

An object is a record of the fields of `Acts` that the program reads.  Frames are
numbered from 0 as in the code: frame `f` is element `f + 1` of `acts_`.  `add_act`,
`end`, `reset` translate the methods; `check_window` counts the active frames of a
window of `Window` (15), with `MinAct` (5) of them active it is `Active`, with none
`Silent`.  A segment starts at the last frame of an active window and ends at the last
frame of a silent one when it is longer than `MinClose` (200).  `end()` closes an open
segment longer than `MinTail` (100) that is active for more than half.  Percentages are
compared by cross multiplication; the only place where float and double meet and the
result differs (the preview, exactly 60 %) is translated as such.

### Session

| Code | Model |
|---|---|
| `samples_`, `rcv_range_smps_` | their sizes and ends: `samples`, `ranges` |
| `operator()`, `OnText`, `OnSpeech*`, `OnError` | `r_pc` and the actions of `Reader` and `Receive` |
| `DecodeThreadFunc` | `d_pc`, the actions of `Decoder` |
| locals of the decoder | variables `num_samples` (also `cur_size`) and `i`, 0 when out of scope; operators `end_spl_idx`, `nframes`, `ncur_seg_num`, which follow from `last_nranges_` and `acts_` |
| WebSocket stream | `conn`: open, broken by the client, closed by `OnError` |
| the server process | `proc`: up, terminated (`std::terminate`), killed (`SIGPIPE`), fault |
| texts sent | `sent`: the type of the last message and the segments its text is made of |

A step of a thread holds one access to memory that the other thread writes, or one
write to the stream, and the local work around it; that allows every order of the
accesses and is far coarser than one step per statement.  Three steps join more:

* `Turn`, `EndRecording`, `TakeRanges`: `state_` is tested up to three times in a turn
  and the ranges are read after it.  The reader writes `state_` after the ranges, and 3
  only to end, so a turn that sees an older value in its first tests is a turn that does
  nothing followed by one that does.
* `TakeRanges` assigns `last_nranges_`, which only this thread reads, before the frames
  and not after them, so that the local copy of the number of ranges need not be kept.
* `PostSegment`: the copy of the samples and the post.  Only the reader can act in
  between, and whether the copy faults depends on the moment of the copy only.

The build gives no optimisation level and `state_` is polled in a loop that also makes
calls, so accesses are taken in program order.  The outcomes of a data race are choices.
The vector moves while the reader is in `emplace_back` with the capacity used up
(`Growing`).  A size loaded then is right or any number (`SizeLoads`): 0 stands for those too
small to pass a test, a number above all positions for those too large to fail one, and for
each single test any other wrong number is as one of these.  A read through a pointer into
the buffer gives arbitrary samples, and the verdict on them is a free choice
anyway, or ends in `fault` (`MayFault`); nothing is said of a process after a fault.
`state_` starts with any value of `Uninit`, because the constructor does not set it.

Abstractions: the detector's verdict on a frame is free, so all results hold for every
detector and all audio; a text matters by its length and by being the noise text; a
message by its number of samples; a post is one step that returns any of `Results`.
`nbest` and `continuous_decoding` are stored and never used, so an option of the wrong
type is the same as any other wrong message.  In the abstraction a wrong option goes from
`OnError` back to the read, which throws on the closed stream; in the code the write of
`OnSpeechStart` throws on it.  Both lead to `unwind` with no thread started.

The outcomes of a post are those of `Httpaudio`: `rt`, empty or a text; an exception, with
which the decoding thread ends (`d_pc` is `thrown`; `failed` after a write that throws); or
the death of the process by `SIGPIPE`, which all three posts may meet (`Survives`).  A verdict
is 0 or 1 here and in `Acts`; `SharedDetector` shows that sessions that race may make it
something else.

### SessionLife and Server

| Code | Model |
|---|---|
| `main`, `Start` | `main`, one action per call that may throw or that others see |
| the queue of connections, the accepted socket | `queue`, `socket` |
| detached threads | `lives`, a `SessionLife` per client |
| `*pvad_inst`, `ioc_` | `detector`, `context`: there, or gone |
| file descriptors | `Open`, against `MaxOpen` |

`AcceptThrows` is an accept without a free descriptor: it throws at once, before any client
comes, and the handler of the exception is outside the loop.  `AcceptFails` and
`LaunchThrows` are the other exceptions.  After that `Start` returns, `main` deletes the
detector, destroys the server object and returns, all under running sessions (`Uses`).
A connection that a post opens is not counted in `Open`.  Every session may end the process
in the ways that `SessionLife` has (`Terminates`, `Dies`).  No client is assumed to be
harmless: even the session of one that follows the protocol may fault by a reallocation, or be
killed by a post.

### HttpClient, Base64 and Httpaudio

`HttpClient` follows `ClientImpl::send` for the one request the program makes: a fresh
client, no TLS, no proxy, no redirect, a body that is there at once.  A response is a
sequence of units, lines and pieces of content; what a line means depends on where the
client reads it, as in the code, so that a malformed response is read as far as it goes.
Each socket call may time out or fail.  `peer` is the other end: it closes or resets at any
time, and after it closed, the first send succeeds and the second raises `SIGPIPE` (`gone`).
`number` says whose the descriptor's number is: once closed, another thread may have it.

`Httpaudio` adds what is before and after: `Encode`, and `Answer` with `parse_json`, of which
it keeps that an object is found only if all of its pieces are there, and that `asString`
throws for an object or array.  `decode` is one step per character, as its loop has it.
The two pointers of the decoder are `index_ptr` and `last_ptr`; a character is its index in
the alphabet.  The text is seen as it is read, and ends when the environment says so
(`ReadEnd`), so that all texts are covered.

### FileCut, Periods and VadTool

`FileCut` is one step per frame, a call of `cut_add_vad_activity` with the frame read and
judged before it.  The four branches of that function and of `add_continued` and
`add_changed` are `MaxCut`, `ContinuedCut`/`Continued` and `ChangedCut`/`Changed`; the
verdict is free.  `cut_frame` sets `is_pervious_active` as well, which its caller
overwrites.  The settings of `common.h`, in frames (`MULTI` is 1), are constants, with the
one assumption that a piece may be as long as it must.  `offset` is the position of the
second stream, from which `cut_write_file` copies a number of frames; that a file cannot be
opened or written is ignored by the code, and the cut stands.  `Last` is what `run()` does
at the end of the file: `read_int16_bytes` leaves the buffer as it is, the detector judges
it once more, and the cut is forced.  `pieces` is a history of the files written.

`Periods` has `period_add_vad_activity` and what it calls; the array's size is kept to check
that it is large enough.  `VadTool` is the loop of `run()`: a frame goes to the list first
and to the cutter then, and both see the last frame twice.

### Detector

`Detector` is the control of the vendored voice detector that the server depends on: the
calls of `webrtc_vad.c` (`Init` is `WebRtcVad_Create`, which leaves the counters as `malloc`
does; `InitCore` is `WebRtcVad_Init`) and the last lines of `GmmProbability`, which prolong
speech.  Whether a frame is speech is free.  The tables of hangovers per mode and length are
constants; `mode` stands for the four tables that `WebRtcVad_set_mode_core` copies, of which
the two thresholds bear on the free choice only.  Calls that are refused (no
initialisation, an unknown mode, a wrong length, no audio) return before they change
anything and are guards.  The server passes one frame of 10 ms per call and sets mode 1 once;
the model allows what the API allows.  `frames` is a history since the last initialisation.

### SharedDetector and Minima

`SharedDetector` is `Hangover` and `Active` of `Detector` taken apart: one access to the
shared object a step, for any number of sessions.  Where the source reads a member twice, the
second value may come from memory or be the first one, as the compiler likes.  The filters and
the Gaussian model are shared as well, so that a frame's being speech is free anyway.
`quiet` is a moment after which nobody speaks.

`Minima` is a call of `WebRtcVad_FindMinimum` per step, for one channel.  `born`, the call
that inserted an entry, is a history.  Ages of entries that are placeholders (10000) also
grow in the code, in 16 bits; nothing is compared with them but `MaxAge`.  `Aged` is the
loop over the places, as a recursive function; `Place` is where the bisection ends.  The loop
that shifts (`vad_sp.c:83-86`) runs one place too far: for `j` of 15 it reads element 16 of
the channel's list, which is the next channel's first or, for the last channel, lies past the
array.  The value goes to place 15, which the next two lines overwrite, so that the model has
the result of the loop and not this read.

## 3. Runs

| Run | Configuration | Question |
|---|---|---|
| `acts` | `MCActs.cfg`, 65 534 states | Are the segments of every recording right? |
| `polite` | `MCSession_polite.cfg`, 67 135 states | Does a session with a client that follows the protocol do its work exactly once and answer? |
| `any_client` | `MCSession_any.cfg`, 113 265 states | What holds when client and recogniser do anything? |
| `close` | `MCSession_close.cfg`, violated | Is the loss of a connection the end of one session only? |
| `server` | `MCServer.cfg`, 6 446 states | Does the server serve who comes, once, whatever sessions and calls do? |
| `recogniser` | `MCHttpaudio.cfg`, 112 220 states | Does a post return whole answers only, end, and leave nothing behind; does `decode` keep to its buffer? |
| `sigpipe` | `MCHttpaudio_sigpipe.cfg`, violated | Is a recogniser that closes the connection an ordinary failure? |
| `detector` | `MCDetector.cfg`, 1 087 993 states | Is speech prolonged by the hangover it deserves? Are the minima sorted, how old do they get, and does the mean follow them? |
| `shared` | `MCSharedDetector.cfg`, 196 216 states | What is left of that when sessions race in one detector? |
| `verdict` | `MCSharedDetector_verdict.cfg`, violated | Is a verdict then still 0 or 1? |
| `tool` | `MCVadTool.cfg`, 131 068 states | Are recordings cut and listed as the settings say? |
| `label` | `MCVadTool_label.cfg`, violated | Is all of a piece silent that is labelled so? |

Bounds.

* `MCActs`: windows of 2 frames, active when both are, so that windows that are neither
  active nor silent exist; 14 frames hold two closed segments and an open one, and the
  closing of a segment by `end()` before and after other segments.
* `MCSession`: 2 samples per frame and 1 frame per window, so that 3 frames may make a
  segment.  Messages of 1, 6 or 8 samples with a header of 1 add 0, 5 or 7 samples: a
  frame is cut by a message boundary, and an empty message occurs first, in between and
  last.  13 samples in at most 3 messages give up to 6 frames: two posted segments, one
  found in an earlier turn of the loop and one by `end()`, previews before and after a
  segment, and reallocation of the vector (`GrowAt`, powers of two) at every point of
  the decoder's loop.  Both runs have a recogniser that answers with texts, with what makes
  the post throw, and by closing the connection (`throw`, `sigpipe`); `polite` has two of the
  four kinds of text, one that is shown and one that is not.  With any client the bounds are
  12 samples in 2 messages, since the properties there are about control.
* `MCServer`: three clients and descriptors for two sessions beside the listening socket;
  each session may end the process.  All orders of arrival, acceptance, failure and end.
* `MCHttpaudio`: ten responses, of which each stands for a form: a length, a 100 before
  it, up to the end of the connection, in chunks, with a broken chunk, an error status, no
  content, a coding nobody supports, an empty content, and no response at all.  The object
  has two pieces, so that a part of it can arrive; two units may be on their way, the
  request takes three sends (the second after a close is the one that raises the signal).
  Audio of 0 to 4 bytes has every remainder modulo 3 and a block before it.  Texts to
  decode have up to two blocks and a character more, over two symbols, padding, NUL and a
  character that is none.
* `MCDetector`, the hangover: long speech is 3 frames, hangovers are 1 to 3 frames, 7 frames: long speech,
  the longest hangover and a frame after it; two modes and two lengths, so that each may
  change in between.
* `MCSharedDetector`: two sessions, hangovers of 2 and 3 frames, three frames of speech:
  two for the long hangover and one that sets it again under calls that began before.
  `verdict` needs nine, as each lets a session bring the count down by one more.  The
  sessions are symmetric.  `HangoverEnds` is stated for two sessions.
* `MCDetector`, the minima: 3 entries that age in 5 calls, 13 calls and four features, of which two are
  below the others: an entry behind these is passed over as often as the bound allows, by
  two generations of entries before it.  The two parts of the detector do not read each
  other's state, and in a behaviour of `MCSpec` only one of them steps.
* `MCVadTool`: pieces of 4 to 7 frames, 2 frames of silence on either side, 14 frames:
  three pieces, so that the state left by each kind of cut meets each kind of next cut.
  A silence of 2 and not 1 before sound makes a cut lie before the frame that is judged.
  An array of one period at first and room for seven double it three times.
* The counters of the program have no other bounds; `MaxFrames` (of `Acts` and
  `Detector`), `MaxCalls`, `MaxSamples`, `MaxRanges`, `MaxSpeech`, `MaxText`, `WireSize` and `FileFrames`
  are the only ones, each a guard on the environment's input.  (`MaxFrames` of `FileCut` is
  a setting of the splitter.)

`CHECK_DEADLOCK` is on in all runs: what is finished, or has reached the bound of its input,
stutters explicitly (`Finished`, `Over`, `Done`, `AllCalled`).

Fairness.

* `Session`: weak fairness of the reader and of the decoder, each as one process, because
  each is an operating system thread.  Their blocking calls return: a write because the
  client reads what it is sent or the write throws, a post for the reason below.  Nothing is
  assumed of the client: it may stay silent for ever, keep the connection, or drop it.
* `Httpaudio`: weak fairness of the thread that posts, whose socket calls return because
  they have timeouts.  The recogniser owes nothing.  Timeouts are of single calls, so that
  it may keep a post busy for ever with needless headers; `PostEnds` assumes that it stops
  (`<>[][~Drip]`).  This is the assumption behind a post that returns in `Session`.
* `Server`: weak fairness of the main thread, in those steps that do not fail.  Failures
  need not happen, clients need not come, and a session owes nothing.

What the runs show, property by property:

* `SpeechIsInSegments`, `ClosesAtFirstSilence`: the two sides of a correct cut.
* `WellFormed`: the decoder reads `seg_sts_` at positions of `seg_ends_`.
* `SegmentsStable`: needed because the decoder remembers only a count.
* `ImplementsSegmentation`: `Acts` refines a specification without windows.
* `SegmentsPosted`: segments are posted once, in order, none skipped, over all turns and
  both branches.  Its exception is real: when the size of `samples_` is loaded while the
  vector moves, the code does lose a segment for good; the history variable `lost` marks
  these runs.
* `FramesJudgedOnce`, `CopiesInBounds`: the counters, the ranges and the samples agree
  although they are loaded at different times.  The first says which frames are judged: those
  of the messages taken, each once and in order, and these are all the frames received when
  all messages are taken.  It does not say that all are: the end overtakes messages.
* `MessagesTaken`: nothing but the end, the return of the decoding thread or the end of the
  process keeps a message from being taken.
* `FinalUndisturbed`, `WritesExclusive`: there is no lock, but the order of the protocol
  excludes the race.  `WritesExclusive` does not hold for a client that breaks the
  protocol, `FinalUndisturbed` not for a `state_` that happens to start as 3.
* `ImplementsTranscript`: the text of a session only grows, and messages come in order.
* `EndAnswered`, `EndEndsSession`: the join returns; a polite client gets `speech_end` unless
  a post throws, which ends the session without an answer, or kills the process.
* `OnlyPostsKillAfterEnd`: once the end was received no thread object is destroyed unjoined
  and nothing moves under the decoding thread, so that a post's `SIGPIPE` is all that is left
  of what ends the process.
* `ImplementsLife`: in a process that lives on, nobody pulls the handler from under the
  decoder; what a session may do to the process is what `SessionLife` lists and no more, which
  is all that `Server` knows of it.
* `NoConnectionLost`: a client passes from the queue to the socket to a session of its own, in
  one place at a time, over all failures.  What follows an exception of accept or of a launch
  is outside of it: all who wait are dropped (`Leave`), and `Uses`, below.
* `ClientServed`: a client waits for main only, never for another client's session; and if main
  leaves its loop, the process does end and does not stay up without serving.
* `OnlyWholeAnswers`, `WholeAnswersReturned`: the two sides of reading a response.  The
  first is not obvious for content that ends with the connection, where the client cannot
  know that something is missing; what saves it is that half an object does not parse.
* `LeavesNoSocket`, `ClosesItsOwn`: `close` is called in three places of a post; too few
  calls leak a descriptor, of which `Server` has few, and one too many closes the connection
  of another session that has got the number.
* `AudioArrives`, `DecodesAsRfc`, `BinaryInBounds`: the codec against RFC 4648, and the
  estimate of the size against what is stored.
* `PostEnds`: see fairness.
* `DecisionIsHangover`: two counters against a definition that sees all the frames.
* `UndisturbedIsAtomic`: which of it a session can rely on, if nobody calls meanwhile.
* `HangoverEnds`: decrements get lost, but never for ever: a bound on what a session's
  silence may be prolonged by another's stale stores.
* `Sorted`, `EntriesAreRecent`, `MeanFollowsMedian`: the search for a place and the median
  rest on the order; an entry may be passed over by the ageing of those before it and lives
  longer than the source says, but at most by two calls for each place before it; rounding
  does not push the mean past the median, at which it would turn back.
* `CutInSilence`, `EndsAfterSilence`: a cut comes neither before silence nor late.  They
  are not obvious, because a cut at the greatest length does not reset
  `previous_along_frames` when the verdict changes there; what saves them is that a cut
  looks at no frame before its piece, and that the counter is exact whenever
  `is_contain_active` is set.
* `AudioMatchesName`: names come from frame numbers, audio from the position of a stream.
* `ImplementsSplitting`: pieces without a gap and of the lengths set, although the greatest
  length is tested by equality.
* `PeriodsAreRuns`, `StoredInBounds`: the list is exact at every growth of the array.
* Of the labels, no run but `label` speaks: `SilentInI` does not hold (findings).  The other
  direction, `SoundInA`, is proved: the flag of a piece is not carried over to the next.

A type invariant is run where it has something to say beside the types: in `Session` of what
is shown and posted, in `Httpaudio` that the decoder's indices stay in its block.  All type
invariants are proved, with more states than a run has.

### Findings

`SessionCloseIsLocal` is violated (`close`): a client that disconnects between start and end
ends the whole server.  `ws_.read` throws, the handler of the exception assumes that "this
indicates that the session was closed" (`websocket_server.cc:457`), `operator()` returns
without a join, and the destructor of the joinable `decode_thread_` calls
`std::terminate`.

`VerdictDocumented` is violated (`verdict`): `WebRtcVad_Process` returns -1 for a frame
without an error, against `webrtc_vad.h:69`, when two sessions both pass the test of
`over_hang` before either counts it down, and stale stores bring it below zero.

`SigpipeAvoided` is violated (`sigpipe`): a recogniser that closes the connection while a
request is written ends the server.  The client's `send` has no `MSG_NOSIGNAL`
(`httplib.h:95`), and nobody ignores the signal; the comment at `httplib.h:5425` says that
it is avoided.

`SilentInI` is violated (`label`): a file named `I` may hold sound, although
`vad/README.md:63` says that all of it is silence.  A cut at the greatest length clears
`is_contain_active`; sound that begins with the frame of the cut or goes on over it is a
continuation in the next piece (`add_continued`), which does not set the flag, and if no
further sound begins in that piece its label is `I`.  In the run it is a piece of one frame of
sound; a piece of the greatest length may be sound from its first frame to its last.

Divergences that reading and earlier runs of these models showed, and that have no run:

* A decision within a hangover is `2 + over_hang`, up to 16 by the tables; `vad_core.h:101`
  says 1 to 6.  `WebRtcVad_Process` only asks whether it is positive.
* A session that is silent may get the hangover of another one's speech, which is no
  "active voice" (`webrtc_vad.h:67`) of its own.  `HangoverEnds` bounds it.
* `WebRtcVad_FindMinimum` steps over the entry that moves into the place of one it removes:
  the entry ages a call less and may outlive the 100 frames of `vad_sp.c:56`, and keeps a
  feature out that is among the 16 smallest of these.  `EntriesAreRecent` bounds it, at less
  than 130 calls for the last of the 16 places.
* `periods_print` reads the start of a period that is still open from the element after it
  (`period_format.c:78`).
* `Start` may return, and then `main` deletes the detector and the server object whose
  `ioc_` "is required for all I/O" (`websocket_server.h:101`) under running sessions, for
  as long as it takes main to return.

Three more behaviours that the model shows and nothing in the repository contradicts: the end
signal may overtake audio that was received but not yet judged, which then never reaches a
segment (the text of the whole recording, which is also requested, is only printed); a
session whose decoder stopped by an exception goes on collecting audio without an answer
until the client ends it, and its client, however well behaved, gets no `speech_end`; and a
second start signal, which replaces a thread that is not joined, ends the process.

## 4. Proofs

TLAPS checks, for all values of the constants that satisfy the assumptions named in the
modules (`SegmentAssumption`, `ActsAssumption`, `SessionAssumption`, `ServerAssumption`,
`HttpClientAssumption`, `HttpaudioAssumption`, `DetectorAssumption`, `MinimaAssumption`,
`SharedDetectorAssumption`, `FileCutAssumption`, `VadToolAssumption`), each of which some run
evaluates:

| Module | Theorem | Says |
|---|---|---|
| `ActsProofs` | `TypeCorrect` | `Spec => []TypeOK` |
| | `SegmentsWellFormed` | `Spec => []WellFormed` |
| | `SpeechIsKept` | `Spec => []SpeechIsInSegments` |
| | `SilenceIsCutOff` | `Spec => []ClosesAtFirstSilence` |
| | `SegmentsNeverMove` | `Spec => SegmentsStable` |
| | `Implementation` | `Spec => ImplementsSegmentation` |
| `SessionProofs` | `EndIsSafeButPosts` | `Spec => []OnlyPostsKillAfterEnd` |
| | `HandlerOutlivesDecoder` | `Spec => []OutlivesDecoder` |
| | `LivesAsPromised` | `Spec => ImplementsLife` |
| | `FinalIsUndisturbed` | `Spec => []FinalUndisturbed` if `Uninit \subseteq {0, 1}` |
| | `WritesAreExclusive` | `Spec => []WritesExclusive` if `Polite` |
| | `NothingReadOutside` | `Spec => []CopiesInBounds` |
| | `EveryFrameOnce` | `Spec => []FramesJudgedOnce` |
| | `SegmentsPostedOnce` | `Spec => []SegmentsPosted` |
| | `TypesKept` | `Spec => []TypeOK` |
| | `ShowsTranscript` | `Spec => ImplementsTranscript` if `Polite` and `Uninit \subseteq {0, 1}` |
| `ServerProofs` | `TypeCorrect` | `FairSpec => []TypeOK` |
| | `NoneIsLost` | `FairSpec => []NoConnectionLost` |
| `HttpaudioProofs` | `TypeCorrect` | `FairSpec => []TypeOK` |
| | `SocketsClosed` | `FairSpec => []LeavesNoSocket` |
| | `OthersUntouched` | `FairSpec => ClosesItsOwn` |
| | `BinaryFits` | `FairSpec => []BinaryInBounds` |
| | `TextIsWhole` | `FairSpec => []OnlyWholeAnswers` if all `Responses` are `OneAnswer`s |
| | `WholeIsReturned` | `FairSpec => []WholeAnswersReturned` |
| | `TextHasAudio` | `FairSpec => []AudioArrives` |
| | `DecodesWhatIsAllowed` | `FairSpec => []DecodesAsRfc` |
| `DetectorProofs` | `TypeCorrect` | `Spec => []TypeOK` |
| | `HangoverCorrect` | `Spec => []DecisionIsHangover` |
| | `EntriesSorted` | `MinimaSpec => []Sorted` |
| | `EntriesLeave` | `MinimaSpec => []EntriesAreRecent` |
| | `MeanFollows` | `MinimaSpec => MeanFollowsMedian` |
| `SharedDetectorProofs` | `TypeCorrect` | `Spec => []TypeOK` |
| | `UndisturbedCallsAreAtomic` | `Spec => []UndisturbedIsAtomic` |
| | `TheHangoverEnds` | `Spec => []HangoverEnds` |
| `VadToolProofs` | `TypeCorrect` | `Spec => []TypeOK` |
| | `CutsAreSilent` | `Spec => []CutInSilence` |
| | `AudioIsNamed` | `Spec => []AudioMatchesName` |
| | `LabelAIsTrue` | `Spec => []SoundInA` |
| | `SilenceIsNoticed` | `Spec => []EndsAfterSilence` |
| | `PiecesAsPromised` | `Spec => ImplementsSplitting` |
| | `CutterAlone` | `ToolSpec => Spec` of `FileCut`, with which the six above hold of the tool |
| | `PeriodsTypeCorrect` | `ToolSpec => []PeriodsTypeOK` |
| | `PeriodsFit` | `ToolSpec => []StoredInBounds` |
| | `PeriodsAreTheRuns` | `ToolSpec => []PeriodsAreRuns` |

`ActsProofs`: the invariant `IInv == TypeOK /\ WellFormed` is inductive.  The argument
is by cases on what a step does to the two lists (`AddActCases`, `EndCases`): it appends
a start, an end, or neither, and each keeps the order (`OrderedStart`, `OrderedClose`,
`OrderedKept`).  The implementation proof maps the same cases to `Start`, `Close` and
`Finish`; it needs the lemmas on `Pairs` because a start changes a list of which the
abstract specification sees only the paired part.  The two properties about windows are
proved together (`Segmented`), window by window: one that was there before the step is kept
by each case (`WindowsKept`, `StartKeeps`, `CloseKeeps`), and the one that a frame completes
is as `check_window` decided (`NewWindow`).  `WindowCompleted` has the arithmetic: when a
frame completes a window, and which.

`SessionProofs`: the properties are not inductive, and five invariants strengthen them.
`ControlInv` says where the reader is once the end was received and that a handler that
is gone has no thread, `FinalInv` that the decoder is in the final branch only while the
reader is at the join (it needs that `state_` is 3 only since `OnSpeechEnd`), `PoliteInv`
that there is no decoder before the start signal and no error with a polite client.
`WorkInv` is about data: the ends of the ranges never fall and lie within the samples
(`RangesInv`), and what the decoder counts follows from the last range it took
(`JudgedInv`).  The reset empties the samples under the ranges, so that both hold up to it
only, after which nothing is read.  `ReceivedInv` adds that outside `OnSpeechData` the last
range ends at the last sample, which makes the frames of all ranges the frames received.  Each is proved for the reader action by action and for
the decoder from lemmas on what its actions do (`DecoderFrame`, `Passes`).

That segments are posted once needs two more arguments.  What was posted is compared with a
`Subsequence` of all the segments, a recursive function of which the first lemmas say what
it is of an empty sequence, of one with an element more and of one whose tests agree.
Then `ListsGrow` and `QualifyingStable` say that a frame or an `end()` adds segments at the
end and takes none back, so that which ones qualify among those the decoder has passed
(`Reached`) does not change under it.  `PostedInv` says that what was posted is just these,
at each place in both branches, unless a size was loaded wrong (`lost`).  `OtherTypes` has
the types that the other invariants leave out; the text shown is a `Subsequence` as well.
`ShownInv` is the mapping to `Transcript`: what was shown last is of the type that belongs
to the place in the code, and a prefix of the text that the next message will have, which
only `PostSegment` makes longer.

`ServerProofs`: `ServerInv` has the types, that who waits has arrived (so that whoever connects
is new), and `NoneLost`, which is `NoConnectionLost` from the start of main.  That those who wait are all
different is needed for the rest: the client that is taken from the queue would else still
wait in it (`FirstLeaves`), and who connects must not wait yet (`OneMoreWaits`).

`HttpaudioProofs`: three invariants for the three parts.  `PostInv` ties `socket_`, the
number's owner and the place in the code together; a number is another's only where the
client's variable is invalid.  `DecodeInv` has the indices of the block (`BlockInv`) and three
bytes of room for every four characters before the pointer of this block (`RoomInv`), from
which the estimate follows at every character and not only at the end (`RoomFits`).
`ResultInv` is the type of the result.

`TextIsWhole` is about responses of any form and order of units.  `OriginInv` says that what
is under way or was read is from the part of the response that was sent, and `TextInv` that a
text is returned with all pieces in the body and status 200.  So all pieces were sent, and a
status 200; the hypothesis makes these the only ones.  `OneAnswer` excludes a recogniser that
answers twice or sends a piece of its object twice, and leaves everything else to it; an
`ASSUME` of `MCHttpaudio` has TLC evaluate it for the responses of the runs.

`WholeIsReturned` is the converse, of the responses that keep to the protocol.  `Proper` is
their grammar: a head after any interim ones (`HasHead`), and content in chunks of any sizes,
with a length or up to the end of the connection (`InChunks`, `InOne`); four of the run's ten
responses have it, one for each form.  `ReturnInv` says which unit of the response the client
reads next (`Place`) at each place in its code, as long as nothing has failed (`Going`): what
the headers it keeps say (`HeadersSay`), how many pieces of a chunk are left (`ChunkLeft`),
that the body has exactly the pieces before (`BodyOf`), and that what is on the way goes on
from there (`WireOf`), with a header that is sent again and again.  Each action that reads
has its lemma, by which it takes the branch that goes on; the end of the stream finds the
client only in `rest`, where it is the end of the content (`NeverTooLittle`, `RestEnds`).

The two properties of base64 compare texts and bytes bit by bit (`Bit`).  The proofs go by
bytes: `Listed` says that a byte is made of parts of two symbols (`Joined`), `ListedBits` that
it then has their bits, `ListedStands` that a text stands for what it lists.  `CutAndJoined`
shows that joining undoes the cutting of `encode`, for whole blocks and for both tails, from
which `EncodedStands` follows for audio of any length.  For `decode`, `RfcInv` says what the
text read so far is: some number of whole blocks, which the bytes list, then the symbols at
hand, then paddings (`Blocks`), up to the first NUL (`UpTo`).  Each way out of the loop has
its lemma on why a text is not well-formed (`BadCharacter`, `BadOrder`, `BadLength`,
`BadPadding`), and `WholeStands` and `TailStands` are the two ways to return.

`DetectorProofs`: the property speaks of the last decision only; it needs what the two
counters remember of the frames, `RunCounted` (the frames of speech that came last, up to
`MaxSpeechFrames`) and `HangoverLeft` (what is left of the hangover of the last speech).

The minima are in the same module.  A call ages all entries and inserts one; `Ageing` is the
loop, which exists by induction over the places (`AgeingExists`) and whose result is traced
back (`AgedTraced`): every entry after it was one before, in the same order, and is a call
older unless it was passed over, which happens only behind an entry that was removed.
`MinimaInv` keeps account of that: how much an entry's age lags behind its life, and how many
entries ahead of it may still be removed before it, are together no more than its place
allows.  The entries ahead are counted by their births (`FewBefore`), as each call inserts
one at most.  `SmoothedBetween` is the arithmetic of the mean.

`SharedDetectorProofs`: `CallInv` says of each place in a call, if no other overlapped it,
what shared memory holds relative to the values at its entry.  `QuietInv` bounds the frames
that may still be prolonged once nobody speaks.  The counter itself goes up and down, as
stale stores bring back what was counted down; but what each of the two sessions may still
store or find (`Kept`), taken together (`Level`), pays for all frames that were and are
bound to be prolonged (`Owed`), and that sum (`Spent`) never grows.  The bound it begins
with, `OverHang2 * (OverHang2 + 5) / 2`, was found by exhausting small hangovers and is
attained there, so that no smaller one is true.  More than two sessions are outside of it.

`VadToolProofs`, the splitter: the inductive invariant has, beside the types and `EndsAfterSilence`,
`Progress` (how the frame numbers, the stream and the history agree, and that a piece under
construction is no longer than it may be), `PiecesOK` (what each finished piece satisfies)
and `Remembered` (what the flags and the counter say of the verdicts).  `Remembered` is the
heart: after a cut at the greatest length the counter may be too large (the verdict may
have changed at that very frame, which does not reset it), so that it vouches only for the
frames of the piece under construction; while the flag of the piece is set it is exact.
Each cut needs one of the two.  For the tool, `RunsInv` says of the list what the property
says of it at every frame, and that a period that is open is the last one and has no end yet;
the definition of a period's end by the verdicts is then followed as a frame is added
(`EndAfter`, `NoEndNow`).

`Induction` is what the library has of induction without an operator for a parameter: that
`<` is well-founded on the numbers.  The proofs use it for sets of numbers that they define,
to show that a recursive function exists and what it has in common with another.

Only model-checked: the liveness properties `EndAnswered`, `EndEndsSession`,
`MessagesTaken`, `ClientServed` and `PostEnds`, because fairness and `ENABLED` are out of the prover's reach.  Every invariant
and every action property that a passing run checks is a theorem.

## 5. Not modelled

* Most lines of the repository.  More than nine tenths of it are vendored libraries:
  `http/httplib.h`, `thirdparty/spdlog` and `cpptoml.h` (which nothing of the server
  includes), `json/`, `cppcodec/` twice, WebRTC's signal processing.  Of these the models
  take the paths that this program runs and whose order of steps can go wrong.  The rest is
  code that nothing calls (servers, TLS, redirects and proxies of `httplib.h`, the other
  codecs, the other sampling rates), or arithmetic of filters without a control flow of its
  own, whose result, whether a frame is speech, is a free choice here.
* The contents of audio and texts, logging, JSON syntax.
* Memory: `samples_` grows until the session ends (`websocket_server.cc:111`), and nothing
  bounds it; allocation never fails here.
* Widths: sample positions are `int` (`websocket_server.cc:256`) and overflow after 37 hours
  of one session.  Ages in `vad_sp.c` are 16 bits; those of placeholders may wrap, and
  nothing but equality with 100 is asked of them.
* A preview over an empty range (`websocket_server.cc:330`) is 0/0 and compares false, which
  the guard of `Previews` has; it is no property.
* The descriptor of a post is not counted in `Open` of `Server`; that would only make
  `AcceptThrows` possible earlier.
* What the tool prints, and failures of its files.
* The components marked `not_modelled` in `PROJECT.json`.

## 6. Plan

Done: `Segment`, `Acts`, `Segmentation`; `Session`, `Transcript`, `SessionLife`; `Server`;
`HttpClient`, `Base64`, `Httpaudio`; `Detector`, `SharedDetector`, `Minima`; `FileCut`,
`Splitting`, `Periods`, `VadTool`; the proofs above.

Left, in order of what it would add:

1. A composition of the hangover with `Acts`, which would show how much silence a segment
   can hold with the real tables.
2. `Acts` with the verdict -1 that `verdict` finds possible: which of its properties remain.
