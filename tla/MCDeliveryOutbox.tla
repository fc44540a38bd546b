---------------------------- MODULE MCDeliveryOutbox ----------------------------
(***************************************************************************)
(* Instances of DeliveryOutbox for TLC: one adapter of each way to retry.  *)
(***************************************************************************)
EXTENDS DeliveryOutbox

CONSTANTS hook, ticket, container

KindOfAll == [d \in Destinations |->
    CASE d = hook -> "webhook" [] d = ticket -> "jira" [] d = container -> "soar"]

TicketAndContainer == {ticket, container}

=============================================================================
