--------------------------- MODULE MCCheckoutPage ---------------------------
(***************************************************************************)
(* A small instance of CheckoutPage for TLC: a service with options and    *)
(* one without, two slots, two customers.                                  *)
(***************************************************************************)
EXTENDS CheckoutPage, TLC

OptionsService == "removal"
PlainService == "consult"

\* "blank" leaves a required question open, "plain" passes the wizard and is
\* rejected by the pricing engine.
SelectionService ==
  [s \in Selections |-> IF s = "plain" THEN PlainService ELSE OptionsService]
FirstSelection == [sv \in Services |-> IF sv = PlainService THEN "plain" ELSE "blank"]
ValidSelections == Selections \ {"blank"}

AllRequests == [selection : Selections, slot : Slots, customer : Customers]
RequestSlot == [r \in AllRequests |-> r.slot]
PriceableRequests == {r \in AllRequests : r.selection = "full"}
=============================================================================
