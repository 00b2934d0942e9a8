-------------------------- MODULE MCPaymentRuntime --------------------------
(***************************************************************************)
(* Small instances of PaymentRuntime for TLC.                              *)
(***************************************************************************)
EXTENDS PaymentRuntime, TLC

CONSTANTS b1, b2, w1, w2

\* Every booking wants the same slot.
SameSlot == [b \in Bookings |-> {1}]

\* Statements of the code whose failure nobody notices; of the three reads, the
\* row is then taken for missing.
AllUnchecked ==
  {"undo_hold", "advance", "replay", "honour", "undraft", "consume", "link",
   "confirm", "log_refund", "mark_refunded", "return_slot", "fail_refunded",
   "mark_failed", "drop_hold", "fail_booking", "record_refund",
   "settle_payment", "settle_booking", "lookup", "read_booking", "read_hold"}

\* The advance from draft to pending_payment is the one that must not be lost.
AllButAdvance == AllUnchecked \ {"advance"}

\* No guard reads linked, ledger or acked, and no property of a run with this
\* view but TypeOK does.
View == <<booking, hold, payment, secretOut, captured,
          refunded, events, call, faults>>

Symm == Permutations(Bookings) \cup Permutations(Workers)
=============================================================================
