----------------------------- MODULE MCFieldSave -----------------------------
(* Model values for checking FieldSave: every body of up to 3 byte        *)
(* classes, thresholds 0 to 2 and size limits below, at and above them,   *)
(* so bodies fit, fill the buffer exactly, or spill by one and more.      *)
EXTENDS FieldSave

MCContents   == BoundedSeq({"a", "h", "t"}, 3)
MCSizeLimits == {None, 0, 1, 2, 3}
MCThresholds == {0, 1, 2}
=============================================================================
