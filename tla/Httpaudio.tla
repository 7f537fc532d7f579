----------------------------- MODULE Httpaudio -----------------------------
(***************************************************************************)
(* Class Httpaudio, with which a session has its audio recognised: post,   *)
(* which sends it and returns the text that comes back, and decode, which  *)
(* makes bytes of a base64 text.                                           *)
(*                                                                         *)
(* JsonCpp is used as a parser that finds the recogniser's object in what  *)
(* begins with all of it, and no value in less.                            *)
(***************************************************************************)
EXTENDS HttpClient, Base64

CONSTANTS
  Contents, \* the audio to post
  Answers,  \* what the "result" of a response is: a "text", "nothing" or a "value"
  Pieces,   \* pieces that the object comes in
  Symbols,  \* symbols in a text to decode
  MaxText   \* bound: characters of a text to decode

ASSUME HttpaudioAssumption ==
  /\ Contents \subseteq Seq(Byte)
  /\ Answers \subseteq {"text", "nothing", "value"}
  /\ Pieces \in Nat \ {0}
  /\ Symbols \subseteq 0..63
  /\ MaxText \in Nat

VARIABLES
  op,      \* the call: "post" or "decode"
  content, \* post: the audio
  text,    \* what is sent of it, or decode: what is read of its argument
  answer,  \* the recogniser's result
  rt,      \* what post returns
  thrown,  \* an exception leaves the call
  alphabet_indexes, index_ptr, last_ptr, \* decode
  binary,  \* its result
  d_pc     \* where it is

recognised == <<op, content, answer, rt, thrown>>
decoder    == <<alphabet_indexes, index_ptr, last_ptr, binary, d_pc>>
all        == <<vars, text, recognised, decoder>>
-----------------------------------------------------------------------------
Init ==
  /\ InitAt("off")
  /\ op \in {"post", "decode"}
  /\ content \in IF op = "post" THEN Contents ELSE {<<>>}
  /\ answer \in Answers
  /\ op = "decode" => response = CHOOSE r \in Responses : TRUE
  /\ op = "decode" => answer = CHOOSE a \in Answers : TRUE
  /\ text = <<>> /\ rt = "" /\ thrown = FALSE
  /\ alphabet_indexes = [k \in 0..3 |-> IF k = 0 THEN eof_idx ELSE 0]
  /\ index_ptr = 0 /\ last_ptr = 0 /\ binary = <<>>
  /\ d_pc = IF op = "decode" THEN "data" ELSE "off"
-----------------------------------------------------------------------------
(* post *)

\* The request is made.
Encode ==
  /\ op = "post" /\ At("off")
  /\ text' = encode(content)
  /\ c_pc' = "connect"
  /\ UNCHANGED <<unsent, socket_, number, res, ret, remote, failed, killed, recognised, decoder>>

\* The reader finds the object.
Parses ==
  /\ Len(body) >= Pieces
  /\ \A k \in 1..Pieces : body[k] = <<"piece", k>>

\* What parse_json makes of the body.
Parsed == IF Parses /\ answer = "text" THEN "text" ELSE ""

\* A plausible bug: any response has the result.
AnswerOfAny ==
  /\ At("answer")
  /\ rt' = IF ret THEN Parsed ELSE ""
  /\ thrown' = (ret /\ Parses /\ answer = "value")
  /\ c_pc' = "destroy"
  /\ UNCHANGED <<unsent, socket_, number, res, ret, remote, failed, killed,
                 text, op, content, answer, decoder>>

\* Post has returned.  asString throws if the result is an object or an array, and
\* the client is destroyed all the same.
Answer ==
  /\ At("answer")
  /\ rt' = IF ret /\ status = 200 THEN Parsed ELSE ""
  /\ thrown' = (ret /\ status = 200 /\ Parses /\ answer = "value")
  /\ c_pc' = "destroy"
  /\ UNCHANGED <<unsent, socket_, number, res, ret, remote, failed, killed,
                 text, op, content, answer, decoder>>
-----------------------------------------------------------------------------
(* decode, of a text that is seen as it is read *)

Characters == Symbols \cup {padding_idx, invalid_idx, eof_idx}

DecodeStep == UNCHANGED <<vars, recognised>>

\* A plausible bug: padding is accepted at the start of a block.
PaddingBegins(idx) == idx = padding_idx

\* The first padding of a block that has begun.
Pads(idx) == idx = padding_idx /\ index_ptr > 0

\* How the loop is left at the character idx.
Leaves(idx) ==
  CASE idx = invalid_idx                  -> "symbol_error"
    [] idx = padding_idx /\ ~ Pads(idx)   -> "padding_error"
    [] Pads(idx)                          -> "padding"
    [] idx = eof_idx                      -> "tail"

\* A symbol, or the character that stops the loop.
ReadSymbol(idx) ==
  /\ d_pc = "data"
  /\ ~ is_stop_character(idx)
  /\ Len(text) < MaxText
  /\ text' = Append(text, idx)
  /\ alphabet_indexes' = [alphabet_indexes EXCEPT ![index_ptr] = idx]
  /\ index_ptr' = (index_ptr + 1) % 4
  /\ binary' = IF index_ptr = 3 THEN binary \o decode_block(alphabet_indexes') ELSE binary
  /\ UNCHANGED <<last_ptr, d_pc>>
  /\ DecodeStep

ReadStop(idx) ==
  /\ d_pc = "data"
  /\ is_stop_character(idx)
  /\ Len(text) < MaxText
  /\ text' = Append(text, idx)
  /\ alphabet_indexes' = [alphabet_indexes EXCEPT ![index_ptr] = idx]
  /\ d_pc' = Leaves(idx)
  /\ last_ptr' = IF Pads(idx) THEN index_ptr + 1 ELSE index_ptr
  /\ UNCHANGED <<index_ptr, binary>>
  /\ DecodeStep

\* The text is read, at any length.
ReadEnd ==
  /\ d_pc \in {"data", "padding"}
  /\ d_pc' = "tail"
  /\ last_ptr' = IF d_pc = "data" THEN index_ptr ELSE last_ptr
  /\ UNCHANGED <<text, alphabet_indexes, index_ptr, binary>>
  /\ DecodeStep

\* A plausible bug: padding is counted without an end.
ReadPaddingUncounted(idx) ==
  /\ d_pc = "padding"
  /\ Len(text) < MaxText
  /\ text' = Append(text, idx)
  /\ alphabet_indexes' =
       [alphabet_indexes EXCEPT ![index_ptr] = IF idx = eof_idx THEN padding_idx ELSE idx]
  /\ last_ptr' = IF idx = padding_idx THEN last_ptr + 1 ELSE last_ptr
  /\ d_pc' = CASE idx = eof_idx                         -> "tail"
               [] idx = padding_idx                     -> "padding"
               [] OTHER                                 -> "padding_error"
  /\ UNCHANGED <<index_ptr, binary>>
  /\ DecodeStep

\* More padding, as much as the block has room for, or a NUL.
ReadPadding(idx) ==
  /\ d_pc = "padding"
  /\ Len(text) < MaxText
  /\ text' = Append(text, idx)
  /\ alphabet_indexes' =
       [alphabet_indexes EXCEPT ![index_ptr] = IF idx = eof_idx THEN padding_idx ELSE idx]
  /\ last_ptr' = IF idx = padding_idx THEN last_ptr + 1 ELSE last_ptr
  /\ d_pc' = CASE idx = eof_idx                         -> "tail"
               [] idx = padding_idx /\ last_ptr < 4     -> "padding"
               [] OTHER                                 -> "padding_error"
  /\ UNCHANGED <<index_ptr, binary>>
  /\ DecodeStep

\* A plausible bug: a block without its padding is decoded.
DecodeTailUnpadded ==
  /\ d_pc = "tail"
  /\ d_pc' = CASE last_ptr = 0                     -> "returned"
               [] last_ptr # 0 /\ index_ptr = 1    -> "length_error"
               [] last_ptr # 0 /\ index_ptr # 1    -> "returned"
  /\ binary' = IF d_pc' = "returned" /\ last_ptr # 0
               THEN binary \o decode_tail(alphabet_indexes, index_ptr) ELSE binary
  /\ UNCHANGED <<text, alphabet_indexes, index_ptr, last_ptr>>
  /\ DecodeStep

\* What is left after the last block, and decode_tail's own test.
DecodeTail ==
  /\ d_pc = "tail"
  /\ d_pc' = CASE last_ptr = 0                     -> "returned"
               [] last_ptr \notin {0, 4}           -> "padding_error"
               [] last_ptr = 4 /\ index_ptr = 1    -> "length_error"
               [] last_ptr = 4 /\ index_ptr # 1    -> "returned"
  /\ binary' = IF d_pc' = "returned" /\ last_ptr = 4
               THEN binary \o decode_tail(alphabet_indexes, index_ptr) ELSE binary
  /\ UNCHANGED <<text, alphabet_indexes, index_ptr, last_ptr>>
  /\ DecodeStep
-----------------------------------------------------------------------------
OfCall == UNCHANGED <<text, recognised, decoder>>

Over ==
  /\ c_pc = "over" \/ killed \/ d_pc \in {"returned", "symbol_error", "padding_error", "length_error"}
  /\ UNCHANGED all

Next ==
  \/ Encode \/ Answer
  \/ (Client \/ Recogniser \/ Others) /\ OfCall
  \/ \E idx \in Characters : ReadSymbol(idx) \/ ReadStop(idx) \/ ReadPadding(idx)
  \/ ReadEnd \/ DecodeTail
  \/ Over

\* The session's thread is scheduled, and its socket calls time out.  The
\* recogniser owes nothing.
FairSpec == Init /\ [][Next]_all /\ WF_all(Encode \/ Answer \/ (Client /\ OfCall))
-----------------------------------------------------------------------------
(***************************************************************************)
(* Properties                                                              *)
(***************************************************************************)
Ended == c_pc = "over" /\ ~ killed

\* The variables keep their types.
TypeOK ==
  /\ c_pc \in {"off", "connect", "write", "done", "finish", "answer", "destroy", "over"} \cup Reading
  /\ unsent \in 0..Sends
  /\ socket_ \in {"invalid", "valid"} /\ number \in {"free", "client", "others"}
  /\ status \in Nat /\ headers \subseteq Unit /\ body \in Seq(Unit) /\ length \in Nat
  /\ peer \in {"open", "closed", "gone", "reset"}
  /\ script \in Seq(Unit) /\ wire \in Seq(Unit) /\ response \in Responses
  /\ {ret, failed, killed, thrown} \subseteq BOOLEAN
  /\ rt \in {"", "text"}
  /\ alphabet_indexes \in [0..3 -> Nat] /\ index_ptr \in 0..3 /\ last_ptr \in 0..5
  /\ text \in Seq(0..eof_idx) /\ binary \in Seq(Byte)

\* A number of a descriptor is closed only by who opened it: the client closes in
\* three places, and another thread's socket may have the number at the second.
ClosesItsOwn == [][Client /\ number = "others" => number' = "others"]_vars

\* A post that is over has left no descriptor open, whatever failed or was thrown.
LeavesNoSocket == Ended => number # "client" /\ socket_ = "invalid"

Units(r) == {r[k] : k \in DOMAIN r}

StatusOf(r) ==
  LET lines == {k \in DOMAIN r : r[k][1] = "status"}
  IN  IF lines = {} THEN 0 ELSE r[CHOOSE k \in lines : \A l \in lines : l <= k][2]

\* A response that answers once, after interim ones if any, and has each piece of
\* its object once at most; in any other way it may be malformed.
OneAnswer(r) ==
  /\ \A j, k \in DOMAIN r :
       j < k /\ r[j][1] = "status" /\ r[j][2] # 100 => r[k][1] # "status"
  /\ \A j, k \in DOMAIN r : r[j] = r[k] /\ r[j][1] = "piece" => j = k
  /\ \A k \in DOMAIN r : r[k][1] = "piece" => r[k][2] \in 1..Pieces

\* A text is returned only if the recogniser sent it, all of it and with status 200:
\* a connection that ends early, a timeout or a response that is malformed never
\* makes a text of a part of one.
OnlyWholeAnswers ==
  rt = "text" =>
    /\ answer = "text"
    /\ StatusOf(response) = 200
    /\ \A u \in Units(script) : u[1] # "piece"

\* After interim responses, if any, there is a status line 200 at s, with headers up
\* to the blank line at b.
HasHead(r, s, b) ==
  /\ s % 2 = 1 /\ r[s] = <<"status", 200>>
  /\ \A k \in 1..s - 1 : r[k] = IF k % 2 = 1 THEN <<"status", 100>> ELSE <<"crlf", 0>>
  /\ s < b /\ r[b] \in {<<"blank", 0>>, <<"crlf", 0>>}
  /\ \A k \in s + 1..b - 1 : r[k][1] \in HeaderKinds \ {"gzip"}

\* The content comes in chunks: a size, so many pieces and the end of the line, and at
\* last an empty one.
ChunksAfter(r, b) == {k \in b + 1..Len(r) : r[k][1] = "size"}

InChunks(r, b) ==
  /\ b + 1 \in ChunksAfter(r, b)
  /\ \A k \in ChunksAfter(r, b) :
       LET next == k + r[k][2] + 2
       IN  /\ IF r[k][2] = 0 THEN next = Len(r) + 1 ELSE next \in ChunksAfter(r, b)
           /\ r[next - 1] = <<"crlf", 0>>
           /\ \A l \in k + 1..next - 2 : r[l][1] = "piece"

\* It comes without: pieces only, as many as a length says if there is one.
InOne(r, s, b) ==
  /\ \A k \in b + 1..Len(r) : r[k][1] = "piece"
  /\ \A k \in s + 1..b - 1 : r[k][1] = "length" => r[k][2] = Len(r) - b

\* The pieces are those of the object, all of them and in order.
HoldsObject(r) ==
  /\ \A k \in 1..Pieces : <<"piece", k>> \in Units(r)
  /\ \A k \in DOMAIN r : r[k][1] = "piece" => r[k][2] \in 1..Pieces
  /\ \A j, k \in DOMAIN r :
       j < k /\ r[j][1] = "piece" /\ r[k][1] = "piece" => r[j][2] < r[k][2]

\* A header tells which of the two it is.
Chunked(r, s, b) == \E k \in s + 1..b - 1 : r[k][1] = "chunked"

Framed(r, s, b) ==
  /\ HasHead(r, s, b)
  /\ IF Chunked(r, s, b) THEN InChunks(r, b) ELSE InOne(r, s, b)

\* A response that keeps to the protocol and holds the object.
Proper(r) == HoldsObject(r) /\ \E s, b \in DOMAIN r : Framed(r, s, b)

\* A response that keeps to the protocol, in any of its forms, is returned, unless a
\* call fails or the recogniser closes before it has sent all of it.
WholeAnswersReturned ==
  Ended /\ Proper(response) /\ (script = <<>> \/ peer = "open") /\ ~ failed =>
    IF answer = "value" THEN thrown ELSE rt = IF answer = "text" THEN "text" ELSE ""

\* A post ends, once the recogniser has sent its last needless header: all timeouts
\* are of single calls, and only what it sends can prolong them.
PostEnds == (op = "post" /\ <>[][~ Drip]_vars) => <>(c_pc = "over" \/ killed)

\* The bytes of the text that is sent are the audio.
AudioArrives ==
  op = "post" /\ c_pc # "off" =>
    WellFormed(text) /\ Stands(text, content) /\ UnusedAreZero(text, content)

\* The text up to the first NUL, which ends it.
EndsAt(n) == (\A k \in 1..n : text[k] # eof_idx) /\ (n < Len(text) => text[n + 1] = eof_idx)
Text == SubSeq(text, 1, CHOOSE n \in 0..Len(text) : EndsAt(n))

\* decode returns the bytes of a text that RFC 4648 allows, and throws for others.
DecodesAsRfc ==
  /\ d_pc = "returned" => WellFormed(Text) /\ Stands(Text, binary)
  /\ d_pc \in {"symbol_error", "padding_error", "length_error"} => ~ WellFormed(Text)

\* All that decode stores, before it throws too, has room in what it allocated for
\* the text: there is no other test of the bound.
BinaryInBounds == Len(binary) <= decoded_max_size(Len(text))

\* httplib.h: the code attempts to avoid SIGPIPE when the other side has closed.
SigpipeAvoided == ~ killed
=============================================================================
