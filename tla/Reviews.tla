------------------------------ MODULE Reviews -------------------------------
(* Reviews of completed bookings (review_service, api/v1/reviews): one per    *)
(* booking, the advisor's response to it, reports and moderation.  Every      *)
(* request reads the row without a lock and writes the columns it changed.    *)
EXTENDS Moderation, UnitOfWork

CONSTANTS
    Sessions,    \* completed bookings
    NoSession,   \* no booking
    ReviewCalls  \* requests that may be in progress at once

ASSUME SessionAssumption == NoSession \notin Sessions

VARIABLES
    review,   \* the reviews rows, by their booking
    reading,  \* what each request in progress has read and is about to write
    ruling,   \* history: what an administrator decided last
    rivals    \* history: reviews on which the last decision or report overlapped another

reviewVars == <<review, reading, ruling, rivals>>

-----------------------------------------------------------------------------
\* verified: the booking was paid when the review was written.
Review == [status : ModerationStatus, verified : BOOLEAN, response : {"none", "given", "edited"}]

NotReviewed == [status |-> "none"]

ReviewOps == {"respond", "amend", "withdraw"} \cup ModerationOps

\* stale: somebody else has decided or reported since the row was read.
Reading == [op : {"create"} \cup ReviewOps, of : Sessions, seen : Review, new : Review,
            stale : BOOLEAN]

NoReading == [op |-> "idle", of |-> NoSession]

ReviewTypeOK ==
    /\ \A b \in Sessions : review[b] = NotReviewed \/ review[b] \in Review
    /\ \A p \in ReviewCalls : reading[p] = NoReading \/ reading[p] \in Reading
    /\ ruling \in [Sessions -> {"none", "approve", "remove"}]
    /\ rivals \subseteq Sessions

ReviewInit ==
    /\ review = [b \in Sessions |-> NotReviewed]
    /\ reading = [p \in ReviewCalls |-> NoReading]
    /\ ruling = [b \in Sessions |-> "none"]
    /\ rivals = {}

-----------------------------------------------------------------------------
\* create: the booking has no review yet, and was paid or not.
ReadToReview(p, b, paid) ==
    LET row == [status |-> "visible", verified |-> paid, response |-> "none"] IN
    /\ reading[p] = NoReading /\ review[b] = NotReviewed
    /\ reading' = [reading EXCEPT ![p] = [op |-> "create", of |-> b, seen |-> row, new |-> row,
                                          stale |-> FALSE]]
    /\ UNCHANGED <<review, ruling, rivals>>

\* respond needs that there is no response, update_response and delete_response that
\* there is one; reports and moderation need what MayModerate says.
MayHandle(op, row) ==
    /\ op = "respond" => row.response = "none"
    /\ op \in {"amend", "withdraw"} => row.response # "none"
    /\ op \in ModerationOps => MayModerate(op, row.status)

Handled(op, row) ==
    CASE op = "respond"  -> [row EXCEPT !.response = "given"]
      [] op = "amend"    -> [row EXCEPT !.response = "edited"]
      [] op = "withdraw" -> [row EXCEPT !.response = "none"]
      [] OTHER           -> [row EXCEPT !.status = Outcome(op)]

ReadReview(p, b, op) ==
    /\ reading[p] = NoReading /\ review[b] # NotReviewed
    /\ MayHandle(op, review[b])
    /\ reading' = [reading EXCEPT ![p] = [op |-> op, of |-> b, seen |-> review[b],
                                          new |-> Handled(op, review[b]), stale |-> FALSE]]
    /\ UNCHANGED <<review, ruling, rivals>>

\* The unique constraint lets one review of a booking in.
PostReview(p) ==
    LET b == reading[p].of IN
    /\ reading[p].op = "create" /\ review[b] = NotReviewed
    /\ review' = [review EXCEPT ![b] = reading[p].new]
    /\ reading' = [reading EXCEPT ![p] = NoReading]
    /\ UNCHANGED <<ruling, rivals>>

\* The commit of a request that decides or reports
SettleReport(p) ==
    LET r == reading[p] IN
    /\ r.op \in ModerationOps
    /\ review' = [review EXCEPT ![r.of] = Flush(@, r.seen, r.new)]
    /\ ruling' = IF r.op = "report" THEN ruling ELSE [ruling EXCEPT ![r.of] = r.op]
    /\ rivals' = IF r.stale THEN rivals \cup {r.of}
                 ELSE IF r.op = "report" THEN rivals ELSE rivals \ {r.of}
    /\ reading' = [q \in ReviewCalls |->
                     IF q = p THEN NoReading
                     ELSE IF reading[q].of = r.of /\ reading[q].op # "create"
                          THEN [reading[q] EXCEPT !.stale = TRUE] ELSE reading[q]]

\* The commit of a request on the response
SettleResponse(p) ==
    LET r == reading[p] IN
    /\ r.op \in {"respond", "amend", "withdraw"}
    /\ review' = [review EXCEPT ![r.of] = Flush(@, r.seen, r.new)]
    /\ reading' = [reading EXCEPT ![p] = NoReading]
    /\ UNCHANGED <<ruling, rivals>>

ReviewRollBack(p) ==
    /\ reading[p] # NoReading
    /\ reading' = [reading EXCEPT ![p] = NoReading]
    /\ UNCHANGED <<review, ruling, rivals>>

ReviewNext ==
    \E p \in ReviewCalls :
        \/ \E b \in Sessions : \/ \E paid \in BOOLEAN : ReadToReview(p, b, paid)
                               \/ \E op \in ReviewOps : ReadReview(p, b, op)
        \/ PostReview(p) \/ SettleReport(p) \/ SettleResponse(p) \/ ReviewRollBack(p)

ReviewSpec == ReviewInit /\ [][ReviewNext]_reviewVars

-----------------------------------------------------------------------------
\* models/review.py: removed is "hidden from public listings": what an administrator has
\* removed stays hidden until one approves it, whoever responds or reports, unless a
\* report or a decision was being made at the same time.
RemovedHidden ==
    \A b \in Sessions : ruling[b] = "remove" /\ b \notin rivals
                          => review[b].status \notin PublicStatuses

=============================================================================
