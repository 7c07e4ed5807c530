----------------------------- MODULE Moderation -----------------------------
(* Reports of reviews and messages, and what administrators decide on them    *)
(* (models/review.ModerationStatus, review_service, conversation_service).    *)
(* Both services do the same to the status of a row.                          *)

\* Mutation: content that was removed may be reported, and becomes public again.
MayModerateAll(op, status) == TRUE

\* flagged: reported, awaiting an administrator, still public
ModerationStatus == {"visible", "flagged", "removed"}

PublicStatuses == {"visible", "flagged"}

ModerationOps == {"report", "approve", "remove"}

\* report refuses what was removed, moderate decides whatever the status is.
MayModerate(op, status) == op = "report" => status # "removed"

\* What report, and moderate with its action, set the status to
Outcome(op) == CASE op = "report" -> "flagged" [] op = "approve" -> "visible"
                 [] op = "remove" -> "removed"

=============================================================================
