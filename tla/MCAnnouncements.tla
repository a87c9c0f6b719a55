--------------------------- MODULE MCAnnouncements ---------------------------
(***************************************************************************)
(* A finite instance of Announcements.                                     *)
(***************************************************************************)
EXTENDS Announcements, TLC

CONSTANTS o, u1, u2

TwoBidders == {o, u1, u2}
=============================================================================
