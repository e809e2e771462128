----------------------------- MODULE MCRecorder -----------------------------
(* A clock of twelve ticks a second, six samples a second: at four frames a   *)
(* second a slot is three ticks and one or two samples, at five it is two.    *)
(* A picture encodes to one word or two, so a chunk needs padding or not.     *)
EXTENDS Recorder

MCPictures == {1, 2}
MCJpegLength == [p \in MCPictures |-> p]
MCOldFile == <<Tag("RIFF"), Num(2), Tag("AVI "), Tag("idx1"), Num(7)>>
=============================================================================
