------------------------- MODULE MCIncomingPayments -------------------------
(***************************************************************************)
(* An instance of IncomingPayments for TLC: a payment with a reference and *)
(* one without. The bank books both and notifies their details, or it      *)
(* drops the one without reference, or reports the other with a difference *)
(***************************************************************************)
EXTENDS IncomingPayments

CONSTANTS qr, non

MCProduct == [p \in Payments |-> IF p = non THEN "NON" ELSE "QRR"]
MCAmount  == [p \in Payments |-> IF p = non THEN 4 ELSE 1]
MCBooking(dropped, differing, statement) ==
    [dropped |-> dropped, differing |-> differing,
     statement |-> statement, notification |-> "together"]
MCBookings == {MCBooking({}, {}, "unresolved"), MCBooking({non}, {}, "single"),
               MCBooking({}, {qr}, "single")}
=============================================================================
