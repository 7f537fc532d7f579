------------------------------ MODULE Session ------------------------------
(***************************************************************************)
(* One client connection (class ConnectionHandler of websocket_server.cc): *)
(* the thread that reads the client's messages, operator(), the decoding   *)
(* thread it starts, DecodeThreadFunc, and the members the two threads     *)
(* share without a lock.  The client and the recogniser behind             *)
(* Httpaudio::post are the environment.                                    *)
(*                                                                         *)
(* A step of a thread holds one access to memory that the other thread     *)
(* writes, or one write to the stream, and the local work around it.  What *)
(* a data race may do:                                                     *)
(*   - a vector's size, loaded while emplace_back reallocates it, is right *)
(*     or any number, as the two pointers it is computed from may be of    *)
(*     two buffers: 0 stands for the values too small to pass a test, and  *)
(*     MaxSamples + 1 for those too large to fail one;                     *)
(*   - what is read through a pointer into a buffer that moves meanwhile   *)
(*     is arbitrary, as the verdicts made from it are anyway, or the       *)
(*     process faults ("fault" stands for all that corruption may lead to).*)
(***************************************************************************)
EXTENDS Segment

CONSTANTS
  SamplesPerFrame, \* samples_per_frame (160)
  Header,          \* samples of a message that are dropped (22)
  MinSpl,          \* min_spl: an open segment longer than this is previewed (16000)
  MinSpeak,        \* MIN_SPEAK_NFRAMES (100)
  GrowAt,          \* sizes at which a vector's capacity is used up
  Uninit,          \* values memory may hold where state_ is, which nobody initialises
  Chunks,          \* samples in a binary message
  Signals,         \* kinds of text message the client sends
  Polite,          \* the client sends one start, then audio, then one end
  MayBreak,        \* the client may disappear
  Results,         \* what the recogniser answers
  MaxSamples,      \* bound: samples received
  MaxRanges        \* bound: binary messages received

\* Texts matter by their length in bytes (under 6, 6, over 6) and by being the
\* noise text.  A post that fails answers "", a "short".
TextKinds == {"short", "noise", "six", "long"}

\* A post may also not return a text: it throws, if the answer is not of the
\* expected JSON types, or it kills the process with SIGPIPE, if the recogniser
\* has closed the connection that it still sends to.
ResultKinds == TextKinds \cup {"throw", "sigpipe"}

\* "wrong" is a text that OnText answers with OnError, wrong options of a start
\* signal included: OnSpeechStart then writes to the closed stream.  "junk" is a
\* text that json::parse or as_string throws on.
SignalKinds == {"start", "end", "wrong", "junk"}

ASSUME SessionAssumption ==
  /\ SamplesPerFrame \in Nat \ {0}
  /\ {Header, MinSpl, MinSpeak, MaxSamples, MaxRanges} \subseteq Nat
  /\ GrowAt \subseteq Nat
  /\ Uninit \subseteq 0..3
  /\ Chunks \subseteq Nat
  /\ Signals \subseteq SignalKinds
  /\ {Polite, MayBreak} \subseteq BOOLEAN
  /\ Results \subseteq ResultKinds

VARIABLES
  \* shared by the two threads
  samples,           \* samples_.size()
  ranges,            \* rcv_range_smps_: the second of each pair
  state_,
  stop_recognition_,
  \* the reading thread
  r_pc,
  left,              \* samples of the message still to append
  got_start_tag_,
  got_end_tag_,
  \* the decoding thread
  d_pc,
  num_samples,       \* cur_size or num_samples, 0 when out of scope
  i,                 \* the loop variable, likewise
  last_frame_,
  last_nranges_,
  nseg_done_,
  acts_,
  seginfos_,
  lost,              \* history: a wrong size made the loop skip a segment
  \* outside the object
  conn,              \* the stream: "open", "broken" by the client, "closed" by OnError
  sent,              \* history: the last message, and the segments in the text shown
  proc               \* the process: "up", "terminated", "killed" by SIGPIPE, or "fault"

work == <<last_frame_, last_nranges_, nseg_done_, acts_, seginfos_, lost>>
vars == <<samples, ranges, state_, stop_recognition_, r_pc, left, got_start_tag_,
          got_end_tag_, d_pc, num_samples, i, work, conn, sent, proc>>
-----------------------------------------------------------------------------
ReaderPcs == {"accept", "read", "ready", "error", "data", "join", "unwind", "done"}

DecoderPcs ==
  {"off", "top", "test", "vad", "seg", "seg_write", "temp", "temp_write", "last",
   "final_write", "end_write", "reset", "rescore", "done", "failed", "thrown"}

\* The decoding thread has returned: at its end, or as a write or a post threw.
Returned == {"done", "failed", "thrown"}

\* A step of a thread where it stands, in a process that runs, with what the
\* thread never writes.
ReaderStep(pc) ==
  /\ proc = "up" /\ r_pc = pc
  /\ UNCHANGED <<stop_recognition_, num_samples, i, work>>

DecoderStep(pc) ==
  /\ proc = "up" /\ d_pc = pc
  /\ UNCHANGED <<ranges, state_, r_pc, left, got_start_tag_, got_end_tag_, conn>>

\* A step of the reading thread that only leads to pc.
Moves(pc) ==
  /\ r_pc' = pc
  /\ UNCHANGED <<samples, ranges, state_, left, got_start_tag_, got_end_tag_, d_pc, conn,
                 sent, proc>>

\* The decoding thread goes on at pc, with values for its locals.
Goto(pc, k, n) ==
  /\ d_pc' = pc
  /\ i' = k
  /\ num_samples' = n

\* The reading thread is in emplace_back, and it may be moving the vector.
Appending     == r_pc = "data" /\ left > 0
Growing       == Appending /\ samples \in GrowAt
GrowingRanges == r_pc = "data" /\ left = 0 /\ Len(ranges) \in GrowAt

\* samples_.size() as the decoding thread may load it.
SizeLoads == {samples} \cup IF Growing THEN {0, MaxSamples + 1} ELSE {}

\* An access to memory that may have moved.
MayFault(unsafe) == proc' \in {"up"} \cup IF unsafe THEN {"fault"} ELSE {}

\* A post, of a copy of memory that may have moved.
Survives(result, unsafe) ==
  \/ result # "sigpipe" /\ MayFault(unsafe)
  \/ result = "sigpipe" /\ proc' \in {"killed"} \cup IF unsafe THEN {"fault"} ELSE {}

\* Each thread is in ws_.write or ws_.close.
ReaderWrites  == r_pc \in {"ready", "error"}
DecoderWrites == d_pc \in {"seg_write", "temp_write", "final_write", "end_write", "rescore"}

\* What ws_.write may do: TRUE, it returns; FALSE, it throws.  Nothing can be
\* said of two writes at once, which the stream does not support.
WriteReturns ==
  CASE conn = "closed"               -> {FALSE}
    [] conn = "broken"               -> BOOLEAN
    [] ReaderWrites /\ DecoderWrites -> BOOLEAN
    [] OTHER                         -> {TRUE}

\* Check: the results that are shown.
Check(result) == result \in {"six", "long"}

\* The elements of s at the places, in order.
Subsequence(s, places) ==
  LET upto[n \in 0..Len(s)] ==
        IF n = 0 THEN <<>>
        ELSE IF n \in places THEN Append(upto[n - 1], s[n])
        ELSE upto[n - 1]
  IN  upto[Len(s)]

\* A plausible bug: the latest segment comes first.
Get_segs_resultReversed ==
  Reverse(Subsequence(seginfos_, {k \in DOMAIN seginfos_ : Check(seginfos_[k].result)}))

\* Get_segs_result: the segments with a result that is shown, in order.
Get_segs_result ==
  Subsequence(seginfos_, {k \in DOMAIN seginfos_ : Check(seginfos_[k].result)})
-----------------------------------------------------------------------------
Init ==
  /\ samples = 0 /\ ranges = <<>> /\ state_ \in Uninit /\ stop_recognition_ = FALSE
  /\ r_pc = "accept" /\ left = 0 /\ got_start_tag_ = FALSE /\ got_end_tag_ = FALSE
  /\ d_pc = "off" /\ num_samples = 0 /\ i = 0
  /\ last_frame_ = 0 /\ last_nranges_ = 0 /\ nseg_done_ = 0
  /\ acts_ = reset /\ seginfos_ = <<>> /\ lost = FALSE
  /\ conn = "open" /\ sent = [type |-> "none", text |-> <<>>] /\ proc = "up"
-----------------------------------------------------------------------------
(***************************************************************************)
(* The reading thread: operator() and what it calls.                       *)
(***************************************************************************)
\* ws_.accept
Accept ==
  /\ ReaderStep("accept")
  /\ Moves(IF conn = "open" THEN "read" ELSE "unwind")

\* ws_.read throws: the client closed the connection, or OnError did.
ReadThrows ==
  /\ ReaderStep("read")
  /\ conn # "open"
  /\ Moves("unwind")

\* ws_.read returns a text of the kind.
ReadsText(kind) ==
  /\ ReaderStep("read")
  /\ conn = "open"
  /\ kind \in Signals
  /\ Polite => kind = IF got_start_tag_ THEN "end" ELSE "start"

\* OnText with a start signal, up to the write of server_ready.
ReceiveStart ==
  /\ ReadsText("start")
  /\ got_start_tag_' = TRUE
  /\ r_pc' = "ready"
  /\ UNCHANGED <<samples, ranges, state_, left, got_end_tag_, d_pc, conn, sent, proc>>

\* OnSpeechStart: the write, then decode_thread_ is replaced.  Destroying a
\* thread object that was not joined terminates the process.
OnSpeechStart ==
  /\ ReaderStep("ready")
  /\ \E ok \in WriteReturns :
       /\ r_pc' = IF ok THEN "read" ELSE "unwind"
       /\ sent' = IF ok THEN [sent EXCEPT !.type = "ready"] ELSE sent
       /\ d_pc' = IF ok /\ d_pc = "off" THEN "top" ELSE d_pc
       /\ proc' = IF ok /\ d_pc # "off" THEN "terminated" ELSE proc
  /\ UNCHANGED <<samples, ranges, state_, left, got_start_tag_, got_end_tag_, conn>>

\* OnSpeechEnd, the state it leaves and where the reading thread goes on: out of
\* its loop.
EndsWith(state, pc) ==
  /\ ReadsText("end")
  /\ got_end_tag_' = TRUE
  /\ state_' = state
  /\ r_pc' = pc
  /\ UNCHANGED <<samples, ranges, left, got_start_tag_, d_pc, conn, sent, proc>>

\* Plausible bugs: the decoding thread is not told, the session reads on, or it
\* closes the stream at once.
OnSpeechEndUntold  == EndsWith(state_, "join")
OnSpeechEndReadsOn == EndsWith(3, "read")
OnSpeechEndCloses  == EndsWith(3, "error")

OnSpeechEnd == EndsWith(3, "join")

\* OnText with a text it answers with OnError, or throws on.
ReceiveWrong ==
  \/ ReadsText("wrong") /\ Moves("error")
  \/ ReadsText("junk") /\ Moves("unwind")

\* ws_.read returns n samples.
ReceiveBinary(n) ==
  LET net == IF n > Header THEN n - Header ELSE 0
  IN  /\ ReaderStep("read")
      /\ conn = "open"
      /\ Polite => got_start_tag_
      /\ samples + net <= MaxSamples
      /\ Len(ranges) < MaxRanges
      /\ r_pc' = CASE ~ got_start_tag_                     -> "error"
                   [] got_start_tag_ /\ stop_recognition_  -> "join"
                   [] OTHER                                -> "data"
      /\ left' = IF r_pc' = "data" THEN net ELSE left
      /\ UNCHANGED <<samples, ranges, state_, got_start_tag_, got_end_tag_, d_pc, conn,
                     sent, proc>>

\* OnError: the write, then the close.
OnError ==
  /\ ReaderStep("error")
  /\ \E ok \in WriteReturns :
       /\ conn' = IF ok /\ conn = "open" THEN "closed" ELSE conn
       /\ r_pc' = IF ok /\ conn = "open" THEN "read" ELSE "unwind"
  /\ UNCHANGED <<samples, ranges, state_, left, got_start_tag_, got_end_tag_, d_pc, sent,
                 proc>>

\* A plausible bug: one sample too many.
AppendSamplePast ==
  /\ ReaderStep("data")
  /\ samples' = samples + 1
  /\ left' = left - 1
  /\ UNCHANGED <<ranges, state_, r_pc, got_start_tag_, got_end_tag_, d_pc, conn, sent, proc>>

\* OnSpeechData: one emplace_back.
AppendSample ==
  /\ ReaderStep("data")
  /\ left > 0
  /\ samples' = samples + 1
  /\ left' = left - 1
  /\ UNCHANGED <<ranges, state_, r_pc, got_start_tag_, got_end_tag_, d_pc, conn, sent, proc>>

\* OnSpeechData, at last: the range of the message, given its end, and state_.
MarksRange(end_, state) ==
  /\ ReaderStep("data")
  /\ left = 0
  /\ ranges' = Append(ranges, end_)
  /\ state_' = state
  /\ r_pc' = "read"
  /\ UNCHANGED <<samples, left, got_start_tag_, got_end_tag_, d_pc, conn, sent, proc>>

\* Plausible bugs: the range ends at the number of samples, or the decoding thread
\* is not told.
PushRangePast   == MarksRange(samples, 1)
PushRangeUntold == MarksRange(samples - 1, state_)

PushRange == MarksRange(samples - 1, 1)

\* Plausible bugs: the session ends without a join, lets the thread go, or waits
\* for the flag that a thread stopped by an exception does not set.
JoinOmitted  == ReaderStep("join") /\ Moves("unwind")
JoinDetaches == ReaderStep("join") /\ Moves("done")
JoinOnFlag   == ReaderStep("join") /\ (stop_recognition_ \/ d_pc = "off") /\ Moves("done")

\* decode_thread_->join(), if there is a thread.
Join ==
  /\ ReaderStep("join")
  /\ d_pc \in {"off"} \cup Returned
  /\ Moves("done")

\* An exception leaves operator(): it is caught, the handler is destroyed, and
\* with it the thread object, joined or not.
Unwind ==
  /\ ReaderStep("unwind")
  /\ r_pc' = "done"
  /\ proc' = IF d_pc = "off" THEN proc ELSE "terminated"
  /\ UNCHANGED <<samples, ranges, state_, left, got_start_tag_, got_end_tag_, d_pc, conn, sent>>
-----------------------------------------------------------------------------
(***************************************************************************)
(* The decoding thread: DecodeThreadFunc.  The state is tested up to three *)
(* times in a turn of its loop, and the ranges read after it; all at once  *)
(* allows the same behaviours, as the reading thread writes state_ last    *)
(* and 3 to end, and the turns that do nothing may be repeated.            *)
(***************************************************************************)
\* int cur_size = samples_.size()
LoadCurSize ==
  /\ DecoderStep("top")
  /\ \E n \in SizeLoads : Goto("test", 0, n)
  /\ UNCHANGED <<samples, stop_recognition_, work, sent, proc>>

\* if (state_ == 3), with acts_.end()
EndRecording ==
  /\ DecoderStep("test")
  /\ state_ = 3
  /\ acts_' = end(acts_)
  /\ Goto("last", nseg_done_, num_samples)
  /\ UNCHANGED <<samples, stop_recognition_, last_frame_, last_nranges_, nseg_done_,
                 seginfos_, lost, sent, proc>>

\* A turn of the loop with nothing to do but, perhaps, the rescoring.
Turn ==
  /\ DecoderStep("test")
  /\ \/ state_ = 2 /\ Goto("rescore", 0, 0)
     \/ state_ = 0 /\ Goto("top", 0, 0)
     \/ /\ state_ = 1
        /\ Len(ranges) = last_nranges_ \/ GrowingRanges
        /\ Goto("top", 0, 0)
  /\ UNCHANGED <<samples, stop_recognition_, work, sent, proc>>

\* There are new ranges: the frames to judge begin at the first one given.
\* (last_nranges_, which only this thread reads, is assigned after the frames.)
Takes(first) ==
  /\ DecoderStep("test")
  /\ state_ = 1
  /\ Len(ranges) > last_nranges_
  /\ last_nranges_' = Len(ranges)
  /\ Goto("vad", first, 0)
  /\ MayFault(GrowingRanges)
  /\ UNCHANGED <<samples, stop_recognition_, last_frame_, nseg_done_, acts_, seginfos_,
                 lost, sent>>

\* A plausible bug: the frames are taken from the first one again.
TakeRangesAgain == Takes(0)

TakeRanges == Takes(last_frame_)

\* The end of the last range taken, and the frames complete up to there.
end_spl_idx == ranges[last_nranges_]
nframes     == (end_spl_idx + 1) \div SamplesPerFrame

\* WebRtcVad_Process and add_act on the next frame.
JudgeFrame(act) ==
  /\ DecoderStep("vad")
  /\ i < nframes
  /\ acts_' = add_act(acts_, act)
  /\ Goto("vad", i + 1, 0)
  /\ MayFault(Growing)
  /\ UNCHANGED <<samples, stop_recognition_, last_frame_, last_nranges_, nseg_done_,
                 seginfos_, lost, sent>>

\* After the frames: int num_samples = samples_.size(), and the segments to
\* look at begin at the first one given.
Looks(first) ==
  /\ DecoderStep("vad")
  /\ i >= nframes
  /\ last_frame_' = nframes
  /\ \E n \in SizeLoads : Goto("seg", first, n)
  /\ UNCHANGED <<samples, stop_recognition_, last_nranges_, nseg_done_, acts_, seginfos_,
                 lost, sent, proc>>

\* A plausible bug: the segments are looked at from the first one again.
LoadNumSamplesAgain == Looks(0)

LoadNumSamples == Looks(nseg_done_)

\* A segment that is sent to the recogniser: mostly speech, and long enough.
Qualifies(st, end_) ==
  PercentAbove(acts_.acts_, st, end_, 3, 5) /\ end_ - st > MinSpeak

\* The loop over the new segments, the same in both branches.
ncur_seg_num == Len(acts_.seg_ends_)

AtSegment == d_pc \in {"seg", "last"} /\ i < ncur_seg_num

\* Segment i qualifies, and passes the test of the number of samples.
Suits   == Qualifies(acts_.seg_sts_[i + 1], acts_.seg_ends_[i + 1])
Arrived ==
  /\ acts_.seg_sts_[i + 1] * SamplesPerFrame < num_samples
  /\ acts_.seg_ends_[i + 1] * SamplesPerFrame < num_samples

SkipSegment ==
  /\ AtSegment
  /\ DecoderStep(d_pc)
  /\ ~ (Arrived /\ Suits)
  /\ lost' = (lost \/ (num_samples = 0 /\ Suits))
  /\ Goto(d_pc, i + 1, num_samples)
  /\ UNCHANGED <<samples, stop_recognition_, last_frame_, last_nranges_, nseg_done_, acts_,
                 seginfos_, sent, proc>>

\* The segment is copied and posted, and the result noted.  If there is no result,
\* the thread ends, or the process does and it does not matter where.
PostSegment(result) ==
  /\ AtSegment
  /\ DecoderStep(d_pc)
  /\ Arrived /\ Suits
  /\ IF result \notin TextKinds
     THEN Goto("thrown", 0, 0) /\ UNCHANGED seginfos_
     ELSE /\ seginfos_' = Append(seginfos_, [st_frm  |-> acts_.seg_sts_[i + 1],
                                             end_frm |-> acts_.seg_ends_[i + 1],
                                             result  |-> result])
          /\ IF d_pc = "last" THEN Goto("last", i + 1, num_samples)
             ELSE Goto("seg_write", i, num_samples)
  /\ Survives(result, Growing)
  /\ UNCHANGED <<samples, stop_recognition_, last_frame_, last_nranges_, nseg_done_, acts_,
                 lost, sent>>

\* A write of a message; if it throws, the thread ends.
Writes(type, text, pc, k, n) ==
  /\ \E ok \in WriteReturns :
       IF ok
       THEN sent' = [type |-> type, text |-> text] /\ Goto(pc, k, n)
       ELSE UNCHANGED sent /\ Goto("failed", 0, 0)
  /\ UNCHANGED <<samples, work, proc>>

\* OnPartialResult(SerializeResult(Get_segs_result()))
WriteSegments ==
  /\ DecoderStep("seg_write")
  /\ Writes("partial", Get_segs_result, "seg", i + 1, num_samples)
  /\ UNCHANGED stop_recognition_

\* A preview is made of an open segment that is mostly speech and long enough.
\* Here the float percentage is compared with a double: 60% is above 0.6.
Previews ==
  LET st     == Last(acts_.seg_sts_)
      frames == end_spl_idx \div SamplesPerFrame
  IN  /\ IsOpen(acts_)
      /\ st < frames
      /\ 5 * ActiveFrames(acts_.acts_, st, frames) >= 3 * (frames - st)
      /\ end_spl_idx - st * SamplesPerFrame > MinSpl

\* After the segments of the partial branch.
NoteSegments ==
  /\ DecoderStep("seg")
  /\ i >= ncur_seg_num
  /\ nseg_done_' = ncur_seg_num
  /\ Goto(IF Previews THEN "temp" ELSE "top", 0, 0)
  /\ UNCHANGED <<samples, stop_recognition_, last_frame_, last_nranges_, acts_, seginfos_,
                 lost, sent, proc>>

\* The preview is shown when it is longer than 6 bytes, were it the noise text.
PostPreview(result) ==
  /\ DecoderStep("temp")
  /\ Goto(CASE result \notin TextKinds       -> "thrown"
            [] result \in {"noise", "long"} -> "temp_write"
            [] OTHER                        -> "top", 0, 0)
  /\ Survives(result, Growing)
  /\ UNCHANGED <<samples, stop_recognition_, work, sent>>

WritePreview ==
  /\ DecoderStep("temp_write")
  /\ Writes("partial", Get_segs_result, "top", 0, 0)
  /\ UNCHANGED stop_recognition_

\* After the segments of the final branch the recording as a whole is copied,
\* with samples_.size() loaded for the allocation and again for the extent, and
\* posted; the answer is only printed.
PostWhole(result) ==
  /\ DecoderStep("last")
  /\ i >= ncur_seg_num
  /\ Goto(IF result \in TextKinds THEN "final_write" ELSE "thrown", 0, 0)
  /\ Survives(result, Appending)
  /\ UNCHANGED <<samples, stop_recognition_, work, sent>>

\* OnFinalResult, OnFinish
WriteFinal ==
  /\ DecoderStep("final_write")
  /\ Writes("final", Get_segs_result, "end_write", 0, 0)
  /\ UNCHANGED stop_recognition_

WriteEnd ==
  /\ DecoderStep("end_write")
  /\ Writes("end", sent.text, "reset", 0, 0)
  /\ UNCHANGED stop_recognition_

\* reset(), stop_recognition_ = true and the return.  An emplace_back in progress
\* may undo the clear.
ResetSession ==
  /\ DecoderStep("reset")
  /\ samples' \in {0} \cup IF Appending THEN {samples} ELSE {}
  /\ acts_' = reset
  /\ stop_recognition_' = TRUE
  /\ Goto("done", 0, 0)
  /\ UNCHANGED <<last_frame_, last_nranges_, nseg_done_, seginfos_, lost, sent, proc>>

\* state_ == 2: the final result is cur_result_, which is always empty.
Rescore ==
  /\ DecoderStep("rescore")
  /\ Writes("final", <<>>, "done", 0, 0)
  /\ stop_recognition_' = (d_pc' = "done")
-----------------------------------------------------------------------------
\* The session is over, or the process is.
Over == r_pc = "done" \/ proc # "up"

\* The client disappears.
Break ==
  /\ MayBreak
  /\ conn = "open"
  /\ ~ Over
  /\ conn' = "broken"
  /\ UNCHANGED <<samples, ranges, state_, stop_recognition_, r_pc, left, got_start_tag_,
                 got_end_tag_, d_pc, num_samples, i, work, sent, proc>>

Finished == Over /\ UNCHANGED vars

Receive ==
  \/ ReceiveStart \/ OnSpeechEnd \/ ReceiveWrong
  \/ \E n \in Chunks : ReceiveBinary(n)

Reader ==
  \/ Accept \/ ReadThrows \/ OnSpeechStart \/ OnError
  \/ AppendSample \/ PushRange \/ Join \/ Unwind

Decoder ==
  \/ LoadCurSize \/ EndRecording \/ Turn \/ TakeRanges \/ LoadNumSamples
  \/ SkipSegment \/ WriteSegments \/ NoteSegments \/ WritePreview
  \/ WriteFinal \/ WriteEnd \/ ResetSession \/ Rescore
  \/ \E act \in {0, 1} : JudgeFrame(act)
  \/ \E result \in Results : PostSegment(result) \/ PostPreview(result) \/ PostWhole(result)

Next ==
  \/ Receive
  \/ Reader
  \/ Decoder
  \/ Break
  \/ Finished

Spec == Init /\ [][Next]_vars

\* Both threads are scheduled; a write returns or throws, since the client reads
\* what it is sent, and a post ends, since the HTTP client has timeouts.  The
\* client owes nothing: neither a message nor its disappearance.
Fairness ==
  /\ WF_vars(Reader)
  /\ WF_vars(Decoder)

FairSpec == Spec /\ Fairness
-----------------------------------------------------------------------------
(***************************************************************************)
(* Properties                                                              *)
(***************************************************************************)
\* The variables keep their types.
Seginfo == [st_frm : Nat, end_frm : Nat, result : TextKinds]

TypeOK ==
  /\ samples \in Nat
  /\ ranges \in Seq(Int)
  /\ state_ \in 0..3
  /\ stop_recognition_ \in BOOLEAN
  /\ r_pc \in ReaderPcs
  /\ left \in Nat
  /\ got_start_tag_ \in BOOLEAN
  /\ got_end_tag_ \in BOOLEAN
  /\ d_pc \in DecoderPcs
  /\ num_samples \in Nat
  /\ i \in Nat
  /\ last_frame_ \in Nat
  /\ last_nranges_ \in Nat
  /\ nseg_done_ \in Nat
  /\ acts_ \in ActsObject
  /\ seginfos_ \in Seq(Seginfo)
  /\ lost \in BOOLEAN
  /\ conn \in {"open", "broken", "closed"}
  /\ sent \in [type : {"none", "ready", "partial", "final", "end"}, text : Seq(Seginfo)]
  /\ proc \in {"up", "terminated", "killed", "fault"}

\* The segments found, as pairs, and those of the first n that qualify.
Segment_(n)     == <<acts_.seg_sts_[n], acts_.seg_ends_[n]>>
QualifyingOf(n) ==
  Subsequence([k \in 1..n |-> Segment_(k)],
              {k \in 1..n : Qualifies(acts_.seg_sts_[k], acts_.seg_ends_[k])})

\* How many segments the decoding thread has dealt with.
Reached ==
  CASE d_pc \in {"seg", "last"}                        -> i
    [] d_pc = "seg_write"                              -> i + 1
    [] d_pc \in {"final_write", "end_write", "reset"}  -> ncur_seg_num
    [] OTHER                                           -> nseg_done_

Posted == [k \in 1..Len(seginfos_) |-> <<seginfos_[k].st_frm, seginfos_[k].end_frm>>]

\* Every segment that qualifies is sent to the recogniser once, in order, over
\* all turns of the loop and both branches that post: the count kept in
\* nseg_done_ and the guards on the number of samples never make one be skipped
\* or sent again, unless the number was loaded while the vector was moving.
SegmentsPosted ==
  ~ lost /\ d_pc \notin Returned => Posted = QualifyingOf(Reached)

\* The frames complete with the first n messages.
FramesIn(n) == IF n = 0 THEN 0 ELSE (ranges[n] + 1) \div SamplesPerFrame

\* However the messages cut the recording, the VAD judges the frames received once
\* and in order: the verdict made next, on frame i, is the one that the segmentation
\* takes for frame i; between the turns the frames complete in the messages taken
\* are judged, neither more nor less; and if all messages were taken, these are the
\* frames received.  The end of the recording does not take what messages are left
\* (see MessagesTaken), and the frames of these are never judged.
FramesJudgedOnce ==
  /\ d_pc = "vad" => Len(acts_.acts_) = i
  /\ d_pc \notin {"vad", "done"} => Len(acts_.acts_) = FramesIn(last_nranges_)
  /\ r_pc # "data" /\ d_pc # "done" => FramesIn(Len(ranges)) = samples \div SamplesPerFrame

\* What the decoding thread copies or passes to the VAD lies within the samples
\* received, wherever it got the bounds from: it reads the number of samples and
\* the ranges at other times than the samples themselves.
CopiesInBounds ==
  /\ d_pc = "vad" /\ i < nframes => (i + 1) * SamplesPerFrame <= samples
  /\ AtSegment /\ Arrived => acts_.seg_ends_[i + 1] * SamplesPerFrame + 1 <= samples
  /\ d_pc = "temp" => end_spl_idx <= samples

\* The two threads never write to the stream at the same time: there is no lock,
\* only the order of the messages of a client that follows the protocol.
WritesExclusive == ~ (ReaderWrites /\ DecoderWrites)

\* The decoding thread works on the recording as a whole.
Finalising == d_pc \in {"last", "final_write", "end_write", "reset"}

\* Nothing the reading thread does overlaps the last work on the samples, from
\* the end of the recording to the reset, so none of it is a data race.
FinalUndisturbed == Finalising => r_pc = "join"

\* Once a session has received the end of the recording, whatever the client does
\* then, it takes the process down in one way only, with a post that raises SIGPIPE:
\* its reading thread neither reads nor writes nor appends any more, so that nothing
\* moves under the decoding thread, and it joins that thread before the handler goes.
OnlyPostsKillAfterEnd == got_end_tag_ => proc \in {"up", "killed"}

\* The handler is destroyed only when the decoding thread, which works on it
\* through a pointer, has returned or was never started.
OutlivesDecoder == r_pc = "done" /\ proc = "up" => d_pc \in {"off"} \cup Returned

\* A connection that closes ends its session and nothing else: the handler of
\* the exception that ws_.read throws expects exactly that.
SessionCloseIsLocal == proc # "terminated"

\* A client that follows the protocol and ends the recording gets the final result
\* and speech_end, and the session ends.  Only a post can prevent it, before the end
\* or after it, of a segment or of the whole recording, whose answer is only printed:
\* it throws, and the session ends without an answer, or it kills the process.
EndAnswered ==
  got_end_tag_ ~> \/ r_pc = "done" /\ (sent.type = "end" \/ d_pc = "thrown")
                  \/ proc = "killed"

\* Audio that was received is taken, to be judged, or the end of the recording has
\* overtaken it, for which the decoding thread tests first and which leaves it in no
\* segment, or the decoding thread has returned: no message is overlooked in the
\* turns of a thread that polls what another one writes without a lock.
MessagesTaken ==
  \A n \in 1..MaxRanges :
    Len(ranges) = n ~> last_nranges_ >= n \/ got_end_tag_ \/ d_pc \in Returned \/ proc # "up"

\* Whatever fails, the end of the recording ends the session: the thread that
\* decodes always returns, and the join with it.
EndEndsSession == got_end_tag_ ~> Over
-----------------------------------------------------------------------------
\* Implementation of the client's view.
ClientView == INSTANCE Transcript WITH
  stage <- sent.type,
  shown <- sent.text

\* What the client is shown is a Transcript: messages in their order, and text
\* once confirmed neither changed nor taken back.
ImplementsTranscript == ClientView!Spec
-----------------------------------------------------------------------------
\* Implementation of the server's view.
ServerView == INSTANCE SessionLife WITH
  life <- [reader  |-> IF r_pc = "done" THEN "done" ELSE "running",
           decoder |-> CASE d_pc = "off"               -> "off"
                         [] d_pc \in Returned           -> "over"
                         [] OTHER                       -> "running"]

\* Whatever the client and the recogniser do, a session lives as SessionLife says:
\* its decoding thread is started once, its handler outlives it, and the session
\* harms the process in the ways named there only.
ImplementsLife == ServerView!Spec
=============================================================================
