------------------------------- MODULE Payments -------------------------------
(***************************************************************************)
(* Payments for premium packages, and the notification that follows one.   *)
(* The card route charges the card at Stripe and then grants the package;  *)
(* the PayPal route grants it when the client reports an order, which the  *)
(* server takes for paid.  Both then emit an event whose listener creates  *)
(* the notification, in the same tick and after the response: nobody       *)
(* awaits it, and a rejection in it ends the process.                      *)
(*                                                                         *)
(* Amounts and the package are left out; a client may pay any number of    *)
(* times, also after an error, and no request carries an idempotency key.  *)
(***************************************************************************)
EXTENDS Notifications

VARIABLES
    paid,        \* external: charges that Stripe has made, and reported orders
    granted      \* user-premium-packages that were stored

payVars == <<paid, granted>>
vars == <<noteVars, payVars>>

PayTypeOK == NoteTypeOK /\ paid \in 0..bounds.payments /\ granted \in 0..bounds.payments

PayInit == NoteInit /\ paid = 0 /\ granted = 0

Charging == {h \in Requests : At(h, "charge")}
Granting == {h \in Requests : At(h, "grant")}

Start(h, u, stage) ==
    /\ paid + Cardinality(Charging) < bounds.payments
    /\ Begin(h, Handler(stage, "SYSTEM", <<{u}>>, 0))
    /\ UNCHANGED granted

\* POST payments/charge.
createCharge(h, u) == Start(h, u, "charge") /\ UNCHANGED paid

\* POST user-premium-packages, after an order at PayPal.
createOrder(h, u) == Start(h, u, "grant") /\ paid' = paid + 1

\* Mutant: a declined charge is not noticed.
chargeUnchecked(h) ==
    /\ At(h, "charge")
    /\ paid' \in {paid, paid + 1}
    /\ Goto(h, "grant")
    /\ UNCHANGED <<dbVars, history, granted>>

\* paymentIntents.create.  A declined charge, or one that is not confirmed,
\* rejects: see Throw.
charge(h) ==
    /\ At(h, "charge")
    /\ paid' = paid + 1
    /\ Goto(h, "grant")
    /\ UNCHANGED <<dbVars, history, granted>>

\* The listener of the event begins, and calls the notification service.
createNotificationPayment(h) == req' = [req EXCEPT ![h].stage = "code", ![h].type = "PAYMENT"]

\* Mutant: storing the package is not awaited before the event.
grantUnawaited(h) ==
    /\ At(h, "grant")
    /\ granted' \in {granted, granted + 1}
    /\ createNotificationPayment(h)
    /\ UNCHANGED <<dbVars, history, paid>>

\* UserPremiumPackageService.create and the event.
grant(h) ==
    /\ At(h, "grant")
    /\ granted' = granted + 1
    /\ createNotificationPayment(h)
    /\ UNCHANGED <<dbVars, history, paid>>

PayClients == \E h \in Requests, u \in Users : createCharge(h, u) \/ createOrder(h, u)

PayStep(h) == charge(h) \/ grant(h)

NoteNext == NoteClients \/ (\E h \in Requests : NoteStep(h)) \/ NoteFault

Next == PayClients \/ (\E h \in Requests : PayStep(h)) \/ (NoteNext /\ UNCHANGED payVars)

Spec == PayInit /\ [][Next]_vars

-----------------------------------------------------------------------------
(* Properties.                                                             *)

(* A package is granted at most once for each charge and each reported      *)
(* order, whatever overlaps or fails; and money is taken without a package  *)
(* only by a failure or a restart between the two.                          *)
PaidIsGranted ==
    /\ granted + Cardinality(Granting) <= paid
    /\ ~failed => granted + Cardinality(Granting) = paid

Notices ==
    Cardinality({n \in notifications : n.type = "PAYMENT"})
        + Cardinality({d \in deleted : d[2] = "PAYMENT"})

Unnoticed ==
    Cardinality({h \in Requests : req[h].type = "PAYMENT"
                                  /\ req[h].stage \in {"code", "new", "insert"}})

(* 'Payment successful' is stored at most once for each package that was    *)
(* granted, never for one that was not, and only a restart can lose it,     *)
(* although nobody waits for the listener that stores it.                   *)
NoticePerPackage ==
    /\ Notices + Unnoticed <= granted
    /\ ~failed => Notices + Unnoticed = granted
=============================================================================
