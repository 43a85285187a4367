--------------------------- MODULE MCMessageWire ---------------------------
(* Instances of MessageWire for TLC. *)
EXTENDS MessageWire

\* Headers of two and of three bytes, steps back, extended deltas.
MCMedia ==
  {[cs |-> 319, ts |-> 7, kind |-> "Audio"], [cs |-> 319, ts |-> 33554432, kind |-> "Video"],
   [cs |-> 319, ts |-> 7, kind |-> "@setDataFrame"],
   [cs |-> 320, ts |-> 7, kind |-> "onCuePoint"]}

MCControls ==
  {[type |-> "WinAckSize", size |-> 200],
   [type |-> "UserCtrl", event |-> [event |-> "SetBufferLength", value |-> 1, length |-> 3]]}

MCCommands ==
  {[body |-> "FCPublish", name |-> "n"]}

MCOpenings ==
  {[body |-> "publish", name |-> "n", kind |-> "record"],
   [body |-> "play", name |-> "n", start |-> 5]}
=============================================================================
