------------------------------- MODULE HostLink -------------------------------
(* The APDU exchange with the host (src/src/iota_io.c, main.c): each command    *)
(* is owed one reply, most are answered before the next is read, and those that *)
(* start a flow (IO_ASYNCH_REPLY) when the user or the timer ends it.           *)
(*                                                                              *)
(* MaxInFlight is how many commands the transport lets the host have unanswered:*)
(* 1 for the half-duplex exchange of the device's transports; 2 lets a command  *)
(* in during a review, which is what the code's own flow_locked checks are for. *)
EXTENDS Integers

CONSTANTS MaxInFlight

VARIABLE io

ASSUME LinkAssumption == MaxInFlight \in Nat \ {0}

\* "none" until the first reply, and while a reply is owed.
StatusWords ==
  {"none", "OK", "INCORRECT_LENGTH", "INCORRECT_LENGTH_P3", "CLA_NOT_SUPPORTED",
   "INS_NOT_SUPPORTED", "DEVICE_IS_LOCKED", "INCORRECT_P1P2", "COMMAND_INVALID_DATA",
   "COMMAND_NOT_ALLOWED", "COMMAND_TIMEOUT", "ACCOUNT_NOT_VALID", "DENIED_BY_USER",
   "UNKNOWN"}

NoBody == [kind |-> "none"]

LinkInitial == [owed |-> 0, stray |-> FALSE, sw |-> "none", body |-> NoBody]

\* A command can be received.
CanReceive == io.owed < MaxInFlight

\* Receive a command and reply to it at once.
Answer(sw, body) == io' = [io EXCEPT !.sw = sw, !.body = body]

\* Receive a command whose reply a flow will send.
Defer == io' = [io EXCEPT !.owed = @ + 1, !.sw = "none", !.body = NoBody]

\* A callback of a flow, or an error while it is displayed, sends a reply; it is
\* stray when no command waits for one.
AnswerFlow(sw) ==
  io' = [owed |-> IF io.owed > 0 THEN io.owed - 1 ELSE 0,
         stray |-> io.stray \/ io.owed = 0, sw |-> sw, body |-> NoBody]
================================================================================
