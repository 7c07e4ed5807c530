---------------------------- MODULE MCPushOutbox ----------------------------
(* The outbox on a small instance.  Notifications are alike: n1 is queued      *)
(* first, and n2 never gets stale.  Neither queueing nor getting stale is      *)
(* fair, so this takes no fair action away.                                    *)
EXTENDS PushOutbox

CONSTANTS n1, n2

MCNext ==
    /\ OutboxNext
    /\ note'[n2].status # "absent" => note'[n1].status # "absent"
    /\ ~note'[n2].stale

MCSpec == OutboxInit /\ [][MCNext]_outboxVars /\ OutboxFairness

=============================================================================
