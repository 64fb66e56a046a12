----------------------------- MODULE MCCapture -----------------------------
(* Capture for TLC: which I/O may fail, and when a kill may strike. *)
EXTENDS Capture

NoErrors == {}
AllErrors == {"create", "header", "encode", "close", "flush"}
Rotating == {"rotating"}
AnyMoment == {"anytime", "rotating"}
Ordered == {TRUE}
AnyOrder == BOOLEAN
=============================================================================
