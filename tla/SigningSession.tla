---------------------------- MODULE SigningSession ----------------------------
(* What the device promises its owner, whatever the host sends: an essence is   *)
(* validated once and then stays the same, it is confirmed only at the end of a  *)
(* review of it, signatures leave the device only for the confirmed essence, and *)
(* new addresses under review cannot be read before they are acknowledged.       *)
(* A subject is an essence together with the keys it would be signed with.       *)

CONSTANTS
  Things,            \* subjects
  Nothing,           \* no subject
  Unattended         \* reviews can be skipped, in debug builds only

VARIABLES
  phase,             \* what the data buffer is in use for
  subject,           \* the essence that was validated
  released           \* what the last reply was a signature of

session == <<phase, subject, released>>

Phases == {"empty", "validated", "reviewing", "confirmed",
           "address_review", "addresses"}

Init == phase = "empty" /\ subject = Nothing /\ released = Nothing

\* The buffer is taken into use for an essence, or for addresses.
Validate ==
  /\ phase = "empty" /\ phase' = "validated"
  /\ subject' \in Things
  /\ released' = Nothing

Generate ==
  /\ phase = "empty" /\ phase' \in {"addresses", "address_review"}
  /\ subject' = Nothing
  /\ released' = Nothing

Review ==
  /\ phase = "validated" /\ phase' = "reviewing"
  /\ subject' = subject
  /\ released' = Nothing

\* The end of a review with the user's consent.
Approve ==
  /\ phase = "reviewing" \/ (Unattended /\ phase = "validated")
  /\ phase' = "confirmed"
  /\ subject' = subject
  /\ released' = Nothing

Acknowledge ==
  /\ phase = "address_review" /\ phase' = "addresses"
  /\ subject' = Nothing
  /\ released' = Nothing

\* A signature of the confirmed essence.
Release ==
  /\ phase = "confirmed"
  /\ released' = subject
  /\ UNCHANGED <<phase, subject>>

\* Any other reply.
Reply == released' = Nothing /\ UNCHANGED <<phase, subject>>

\* Reset, error, rejection or timeout: everything is forgotten.
Wipe == phase' = "empty" /\ subject' = Nothing /\ released' = Nothing

Next == \/ Validate \/ Generate \/ Review \/ Approve \/ Acknowledge
        \/ Release \/ Reply \/ Wipe

SafeSpec == Init /\ [][Next]_session

\* A review ends, with or without consent.
EndReview == /\ phase \in {"reviewing", "address_review"}
             /\ Approve \/ Acknowledge \/ Wipe

Spec == SafeSpec /\ WF_session(EndReview)
================================================================================
