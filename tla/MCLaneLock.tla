------------------------------ MODULE MCLaneLock ------------------------------
(* Four overlapping calls over two lanes: enough for chains of four and of   *)
(* two and two, an entry deleted and made again while others wait, and for   *)
(* calls that are reused.                                                    *)
EXTENDS LaneLock
===============================================================================
