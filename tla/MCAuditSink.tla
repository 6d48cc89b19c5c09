------------------------------ MODULE MCAuditSink ------------------------------
(* Four events through a ring of two: two are evicted, the buffer reaches    *)
(* its limit of two. A task gives up after two rejections, and storage       *)
(* rejects up to four batches, so that two tasks may give up. One flush runs *)
(* beside the tasks of writes and timer, two of which may be queued up.      *)
EXTENDS AuditSink
===============================================================================
