-------------------------- MODULE MCNotifications --------------------------
(***************************************************************************)
(* Instances of Notifications for TLC.                                     *)
(***************************************************************************)
EXTENDS Notifications

CONSTANTS u1, u2, a1, a2, h1, url

(* Switch the webhook on with an address and the e-mail off; switch the    *)
(* webhook off and name no address.                                        *)
MCBodies ==
  {[on |-> {"webhook"}, off |-> {"email"}, url |-> url],
   [on |-> {}, off |-> {"webhook"}, url |-> Nothing]}

(* Two tabs of one member, who is not the owner.                           *)
MCUserOf == [q \in Requests |-> u1]
=============================================================================
