--------------------------- MODULE MCUsbNeighbor ---------------------------
(***************************************************************************)
(* UsbNeighbor on a small instance: three sequence numbers, so that a      *)
(* session wraps around them.  Of the frames that                          *)
(* are handled alike one stands for all: UNKNOWN for the commands that are *)
(* only answered, sequence 0 for a short exchange.                         *)
(***************************************************************************)
EXTENDS UsbNeighbor

MCOffered ==
  EnterFrame
    \cup [cmd : {"EXCHANGE_USB"}, seq : Sequence, form : {"full"}]
    \cup [cmd : {"LOOPBACK_USB"}, seq : {0}, form : {"full"}]
    \cup [cmd : {"EXCHANGE_USB", "LOOPBACK_USB"}, seq : {0}, form : {"short"}]
    \cup {Plain("EXIT_USB"), Plain("UNKNOWN"), BadPrefix}

=============================================================================
