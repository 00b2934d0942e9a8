---------------------- MODULE MCResourceReservations ----------------------
(***************************************************************************)
(* Small instances of ResourceReservations for TLC.                        *)
(***************************************************************************)
EXTENDS ResourceReservations, TLC

CONSTANTS b1, b2, b3, w1, w2

\* Two moments, and the interval of both.
SlotSets == {{1}, {2}, {1, 2}}

\* One interval, which every booking wants.
OneSlot == {{1}}

Symm == Permutations(Bookings) \cup Permutations(Workers)
=============================================================================
