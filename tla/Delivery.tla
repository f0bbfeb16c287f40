------------------------------ MODULE Delivery ------------------------------
(***************************************************************************)
(* What a mail object promises (include/dmn/messaging/mail.hpp): the       *)
(* message goes to the recipients that were added to it, all of them, once.*)
(***************************************************************************)
CONSTANT Emails

VARIABLES
    addressed,  \* the recipients of the message
    delivered   \* those it was delivered to: {} before

deliveryVars == <<addressed, delivered>>

Init == addressed = {} /\ delivered = {}

Address(e) ==
    /\ delivered = {}
    /\ addressed' = addressed \cup {e}
    /\ UNCHANGED delivered

Deliver ==
    /\ addressed # {} /\ delivered = {}
    /\ delivered' = addressed
    /\ UNCHANGED addressed

\* The object is destroyed; another message may be written.
Discard == addressed' = {} /\ delivered' = {}

Next == Deliver \/ Discard \/ \E e \in Emails : Address(e)

Spec == Init /\ [][Next]_deliveryVars
=============================================================================
