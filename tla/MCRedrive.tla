------------------------------- MODULE MCRedrive -------------------------------
(* A dead-letter topic of two partitions that one redrive after the other drains. *)
EXTENDS Redrive, TLC

CONSTANTS d1, d2

MCBacklog == d1 :> <<TRUE>> @@ d2 :> <<TRUE>>

MCOptions ==
    { [to |-> FALSE, max |-> 0, filter |-> FALSE, wrap |-> TRUE],
      [to |-> TRUE,  max |-> 1, filter |-> TRUE, wrap |-> FALSE],
      [to |-> TRUE,  max |-> 2, filter |-> FALSE, wrap |-> FALSE] }
=============================================================================
