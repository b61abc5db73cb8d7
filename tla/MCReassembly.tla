---------------------------- MODULE MCReassembly ----------------------------
(* Instances of Reassembly for TLC: a stream whose sequence numbers wrap.   *)
EXTENDS Reassembly

\* Payload around the wrap (31 is the last number), a SYN, a FIN, and a last segment
\* without payload.
MCInputs ==
  [seq : {31, 0, 1, 2, 3}, len : {1, 3}, flags : {{}}]
    \cup {[seq |-> 31, len |-> 0, flags |-> {"SYN"}], [seq |-> 1, len |-> 2, flags |-> {"FIN"}],
          [seq |-> 3, len |-> 0, flags |-> {"FIN", "RST"}]}

\* The hypothesis of the theorems about the bytes of a stream (31 opens a window).
ASSUME MCWindowed == Windowed
=============================================================================
