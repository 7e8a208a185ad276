----------------------------- MODULE ScreenBuffer -----------------------------
(* scratch of flowdata_t: the buffer in which the text of a page is made.          *)
EXTENDS Digits

CONSTANT Room              \* its size

ASSUME RoomAssumption == Room \in Nat
================================================================================
