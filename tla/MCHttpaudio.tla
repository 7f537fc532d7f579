---------------------------- MODULE MCHttpaudio ----------------------------
(***************************************************************************)
(* Model checking of Httpaudio: the forms a response may take, and audio   *)
(* of all lengths modulo three.                                            *)
(***************************************************************************)
EXTENDS Httpaudio

Line(n)   == <<"status", n>>
Length(n) == <<"length", n>>
Size(n)   == <<"size", n>>
Piece(k)  == <<"piece", k>>
Blank     == <<"blank", 0>>
Crlf      == <<"crlf", 0>>

MCResponses == {
  <<Line(200), Length(2), Blank, Piece(1), Piece(2)>>,
  <<Line(100), Crlf, Line(200), <<"plain", 0>>, Length(2), Blank, Piece(1), Piece(2)>>,
  <<Line(200), <<"bye", 0>>, Blank, Piece(1), Piece(2)>>,
  <<Line(200), <<"chunked", 0>>, Blank, Size(1), Piece(1), Crlf, Size(1), Piece(2), Crlf,
    Size(0), Crlf>>,
  <<Line(200), <<"chunked", 0>>, Blank, Size(1), Piece(1), <<"crlf", 9>>, Size(1), Piece(2)>>,
  <<Line(500), Length(2), Blank, Piece(1), Piece(2)>>,
  <<Line(204), Blank>>,
  <<Line(200), <<"gzip", 0>>, Length(2), Blank, Piece(1), Piece(2)>>,
  <<Line(200), Length(0), Blank>>,
  <<Piece(1)>>}

ASSUME MCResponsesAnswerOnce == \A r \in Responses : OneAnswer(r)

MCContents == {<<>>, <<105>>, <<105, 255>>, <<171, 205, 239>>, <<171, 205, 239, 18>>}
=============================================================================
