--------------------------- MODULE MCUndoManager ---------------------------
(* Two channels, one of them with two values.                              *)
EXTENDS UndoManager

MCChannels == {[name |-> "a", value |-> 1], [name |-> "a", value |-> 2], [name |-> "b", value |-> 1]}
=============================================================================
