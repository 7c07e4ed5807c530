--------------------------- MODULE RecordsProofs ----------------------------
(* What holds of the components that MCRecords puts together, each for every  *)
(* set of its rows and requests: the support tickets, the moderation of       *)
(* reviews and messages, the seeker's documents and what is shown of them,    *)
(* the payouts, the country rules; and at the end, with what AccountsProofs   *)
(* says of the others, all of them together.                                  *)
EXTENDS MCRecords, AccountsProofs

USE AgentAssumption

-----------------------------------------------------------------------------
(* Support tickets                                                            *)


-----------------------------------------------------------------------------
(* The inductive invariant                                                    *)

\* A request is about a ticket that was opened, and unless another has written the ticket
\* since it was read, the ticket is as it was read; what is replied to was open then.
MattersFit ==
    \A p \in TicketCalls : matter[p] # NoMatter =>
        LET c == matter[p] IN
        /\ ticket[c.of] # Unopened
        /\ ~c.stale => c.seen = ticket[c.of]
        /\ ~c.stale /\ c.op = "reply" => c.seen.status \notin ResolvedStatuses
        /\ c.op = "update" => c.agent \in Agents

\* The columns follow the status.
TicketSettled(row) ==
    /\ row.resolvedAt <=> row.status \in ResolvedStatuses
    /\ row.resolvedBy # NoAgent <=> row.status \in ResolvedStatuses

TicketsFit ==
    \A t \in Tickets : ticket[t] # Unopened =>
        /\ t \notin contested => TicketSettled(ticket[t])
        /\ ticket[t].late = FALSE

TicketDomains == ticket = [t \in Tickets |-> ticket[t]] /\ DOMAIN matter = TicketCalls

TicketInv == TicketTypeOK /\ TicketDomains /\ MattersFit /\ TicketsFit

\* What a move leaves in the row: it is well typed, keeps `late`, and unless the row has
\* changed since it was read, the columns follow the status.
LEMMA MoveSettles ==
    ASSUME NEW row \in Ticket, NEW seen \in Ticket, NEW status \in TicketStatus, NEW agent \in Agents
    PROVE  /\ Updated(row, seen, Moved(seen, status, agent)) \in Ticket
           /\ Updated(row, seen, Moved(seen, status, agent)).late = row.late
           /\ seen = row => TicketSettled(Updated(row, seen, Moved(seen, status, agent)))
<1> DEFINE new == Moved(seen, status, agent)
           done == Updated(row, seen, new)
<1>1. /\ new \in Ticket /\ new.status = status /\ new.late = seen.late
      /\ new.resolvedAt <=> status \in ResolvedStatuses
      /\ new.resolvedBy = IF status \in ResolvedStatuses THEN agent ELSE NoAgent
  <2> DEFINE over == status \in ResolvedStatuses
             who == IF over THEN agent ELSE NoAgent
  <2>1. new = [seen EXCEPT !.status = status, !.resolvedAt = over, !.resolvedBy = who]
    BY DEF Moved
  <2>2. over \in BOOLEAN /\ who \in Agents \cup {NoAgent}
    OBVIOUS
  <2> HIDE DEF new, over, who
  <2>3. new \in Ticket /\ new.status = status /\ new.late = seen.late
        /\ new.resolvedAt = over /\ new.resolvedBy = who
    BY <2>1, <2>2 DEF Ticket
  <2> QED BY <2>3 DEF over, who
<1> HIDE DEF new
<1>2. /\ done \in Ticket /\ done.late = IF new.late = seen.late THEN row.late ELSE new.late
      /\ done.status = IF new.status = seen.status THEN row.status ELSE new.status
      /\ done.resolvedBy = IF new.resolvedBy = seen.resolvedBy THEN row.resolvedBy ELSE new.resolvedBy
      /\ new.resolvedAt => done.resolvedAt
      /\ ~new.resolvedAt /\ seen = row => ~done.resolvedAt
  BY <1>1 DEF Updated, Flush, Ticket
<1>3. seen = row => TicketSettled(done)
  BY <1>1, <1>2 DEF TicketSettled, Ticket
<1> QED BY <1>1, <1>2, <1>3 DEF new

-----------------------------------------------------------------------------
\* Before the first ticket the inductive invariant holds.
LEMMA TicketInitInv == TicketInit => TicketInv
BY DEF TicketInit, TicketInv, TicketTypeOK, TicketDomains, MattersFit, TicketsFit, Unopened, NoMatter

\* Nothing that is read or rolled back takes the invariant away.
LEMMA MattersInv ==
    ASSUME TicketInv, NEW p \in TicketCalls, UNCHANGED <<ticket, contested>>,
           NEW c, matter' = [matter EXCEPT ![p] = c],
           \/ c = NoMatter
           \/ /\ c \in Matter /\ ticket[c.of] # Unopened /\ c.seen = ticket[c.of]
              /\ c.op = "reply" => c.seen.status \notin ResolvedStatuses
              /\ c.op = "update" => c.agent \in Agents
    PROVE  TicketInv'
<1>1. TicketTypeOK' /\ TicketDomains'
  BY DEF TicketInv, TicketTypeOK, TicketDomains
<1>2. MattersFit'
  BY DEF TicketInv, MattersFit, TicketDomains
<1>3. TicketsFit'
  BY DEF TicketInv, TicketsFit, TicketSettled
<1> QED BY <1>1, <1>2, <1>3 DEF TicketInv

\* OpenTicket
LEMMA OpenTicketInv == ASSUME TicketInv, NEW t \in Tickets, OpenTicket(t) PROVE TicketInv'
<1> DEFINE new == [status |-> "open", resolvedAt |-> FALSE, resolvedBy |-> NoAgent, late |-> FALSE]
<1>1. /\ new \in Ticket /\ new # Unopened /\ new.late = FALSE /\ TicketSettled(new)
  BY DEF Ticket, TicketStatus, Unopened, TicketSettled, ResolvedStatuses
<1> HIDE DEF new
<1>2. /\ ticket[t] = Unopened /\ ticket' = [ticket EXCEPT ![t] = new]
      /\ UNCHANGED <<matter, contested>>
  BY DEF OpenTicket, new
<1>3. TicketTypeOK' /\ TicketDomains'
  BY <1>1, <1>2 DEF TicketInv, TicketTypeOK, TicketDomains
<1>4. MattersFit'
  BY <1>2 DEF TicketInv, MattersFit, TicketDomains
<1>5. TicketsFit'
  BY <1>1, <1>2 DEF TicketInv, TicketsFit, TicketDomains, TicketSettled
<1> QED BY <1>3, <1>4, <1>5 DEF TicketInv

\* ReadForMove and ReadForReply
LEMMA ReadTicketInv ==
    ASSUME TicketInv, NEW p \in TicketCalls, NEW t \in Tickets,
           \/ \E status \in TicketStatus, agent \in Agents : ReadForMove(p, t, status, agent)
           \/ ReadForReply(p, t)
    PROVE  TicketInv'
<1>1. ticket[t] # Unopened => ticket[t] \in Ticket
  BY DEF TicketInv, TicketTypeOK
<1>2. CASE \E status \in TicketStatus, agent \in Agents : ReadForMove(p, t, status, agent)
  <2> PICK status \in TicketStatus, agent \in Agents : ReadForMove(p, t, status, agent)
    BY <1>2
  <2> DEFINE c == [op |-> "update", of |-> t, seen |-> ticket[t], status |-> status,
                   agent |-> agent, stale |-> FALSE]
  <2>1. c \in Matter /\ ticket[c.of] # Unopened /\ c.seen = ticket[c.of] /\ c.op = "update"
        /\ c.agent \in Agents
    BY <1>1 DEF ReadForMove, Matter
  <2>2. matter' = [matter EXCEPT ![p] = c] /\ UNCHANGED <<ticket, contested>>
    BY DEF ReadForMove, ReadTicket
  <2> HIDE DEF c
  <2> QED BY <2>1, <2>2, MattersInv
<1>3. CASE ReadForReply(p, t)
  <2> DEFINE c == [op |-> "reply", of |-> t, seen |-> ticket[t], status |-> ticket[t].status,
                   agent |-> NoAgent, stale |-> FALSE]
  <2>1. c \in Matter /\ ticket[c.of] # Unopened /\ c.seen = ticket[c.of] /\ c.op = "reply"
        /\ c.seen.status \notin ResolvedStatuses
    BY <1>1, <1>3 DEF ReadForReply, Repliable, Matter, Ticket
  <2>2. matter' = [matter EXCEPT ![p] = c] /\ UNCHANGED <<ticket, contested>>
    BY <1>3 DEF ReadForReply, ReadTicket
  <2> HIDE DEF c
  <2> QED BY <2>1, <2>2, MattersInv
<1> QED BY <1>2, <1>3

\* TicketRollBack
LEMMA TicketRollBackInv == ASSUME TicketInv, NEW p \in TicketCalls, TicketRollBack(p) PROVE TicketInv'
BY MattersInv DEF TicketRollBack

\* What a matter is about is a ticket that is there.
LEMMA OfTicket ==
    ASSUME TicketInv, NEW p \in TicketCalls, matter[p] # NoMatter
    PROVE  /\ matter[p] \in Matter /\ matter[p].of \in Tickets
           /\ ticket[matter[p].of] # Unopened /\ ticket[matter[p].of] \in Ticket
<1>1. matter[p] \in Matter
  BY DEF TicketInv, TicketTypeOK
<1>2. matter[p].of \in Tickets
  BY <1>1 DEF Matter
<1> QED BY <1>1, <1>2 DEF TicketInv, TicketTypeOK, MattersFit

\* CommitReply: the reply was checked against the row as it is, unless the row was written
\* since, and no row says that it is late.
LEMMA ReplyInv == ASSUME TicketInv, NEW p \in TicketCalls, CommitReply(p) PROVE TicketInv'
<1> DEFINE c == matter[p]
<1>1. matter[p] # NoMatter /\ c.op = "reply"
  BY DEF CommitReply, NoMatter
<1>2. c.of \in Tickets /\ ticket[c.of] # Unopened /\ ticket[c.of] \in Ticket
  BY <1>1, OfTicket
<1>3. ticket[c.of].late = FALSE
  BY <1>2 DEF TicketInv, TicketsFit
<1>4. ~c.stale => ticket[c.of].status \notin ResolvedStatuses
  BY <1>1 DEF TicketInv, MattersFit
<1>5. ticket' = [ticket EXCEPT ![c.of].late = FALSE]
  BY <1>3, <1>4 DEF CommitReply
<1>6. [ticket[c.of] EXCEPT !.late = FALSE] = ticket[c.of]
  BY <1>2, <1>3 DEF Ticket
<1>7. ticket' = ticket
  <2>1. ticket' = [t \in Tickets |-> IF t = c.of THEN [ticket[c.of] EXCEPT !.late = FALSE] ELSE ticket[t]]
    BY <1>2, <1>5 DEF TicketInv, TicketDomains
  <2>2. ticket' = [t \in Tickets |-> ticket[t]]
    BY <1>6, <2>1
  <2> QED BY <2>2 DEF TicketInv, TicketDomains
<1> QED BY <1>7, MattersInv DEF CommitReply

\* CommitMove
LEMMA MoveInv == ASSUME TicketInv, NEW p \in TicketCalls, CommitMove(p) PROVE TicketInv'
<1> DEFINE c == matter[p]
           new == Updated(ticket[c.of], c.seen, Moved(c.seen, c.status, c.agent))
<1>1. matter[p] # NoMatter /\ c.op = "update"
  BY DEF CommitMove, NoMatter
<1>2. /\ c \in Matter /\ c.of \in Tickets /\ ticket[c.of] # Unopened /\ ticket[c.of] \in Ticket
      /\ c.seen \in Ticket /\ c.status \in TicketStatus /\ c.agent \in Agents
  BY <1>1, OfTicket DEF TicketInv, MattersFit, Matter
<1>3. new \in Ticket /\ new.late = FALSE /\ (c.seen = ticket[c.of] => TicketSettled(new))
  <2>1. ticket[c.of].late = FALSE
    BY <1>2 DEF TicketInv, TicketsFit
  <2> QED BY <1>2, <2>1, MoveSettles
<1>4. ~c.stale => c.seen = ticket[c.of]
  BY <1>1 DEF TicketInv, MattersFit
<1>5. ticket' = [ticket EXCEPT ![c.of] = new]
  BY DEF CommitMove
<1>6. \A q \in TicketCalls :
        \/ matter'[q] = NoMatter
        \/ /\ matter[q] # NoMatter
           /\ \/ matter[q].of = c.of /\ matter'[q] = [matter[q] EXCEPT !.stale = TRUE]
              \/ matter[q].of # c.of /\ matter'[q] = matter[q]
  BY DEF CommitMove
<1>7. DOMAIN matter' = TicketCalls
  BY DEF CommitMove
<1>8. contested' = IF c.stale THEN contested \cup {c.of} ELSE contested \ {c.of}
  BY DEF CommitMove
<1>9. new # Unopened
  BY <1>3 DEF Ticket, TicketStatus, Unopened
<1> DEFINE at == c.of
<1> HIDE DEF new
<1>10. TicketTypeOK'
  <2>1. \A t \in Tickets : ticket'[t] = Unopened \/ ticket'[t] \in Ticket
    BY <1>3, <1>5 DEF TicketInv, TicketTypeOK, TicketDomains
  <2>2. \A q \in TicketCalls : matter'[q] = NoMatter \/ matter'[q] \in Matter
    <3> SUFFICES ASSUME NEW q \in TicketCalls, matter[q] \in Matter
                 PROVE  [matter[q] EXCEPT !.stale = TRUE] \in Matter
      BY <1>6 DEF TicketInv, TicketTypeOK
    <3> QED BY DEF Matter
  <2>3. contested' \subseteq Tickets
    BY <1>2, <1>8 DEF TicketInv, TicketTypeOK
  <2> QED BY <2>1, <2>2, <2>3 DEF TicketTypeOK
<1>11. TicketDomains'
  BY <1>5, <1>7 DEF TicketInv, TicketDomains
<1>12. MattersFit'
  <2> SUFFICES ASSUME NEW q \in TicketCalls, matter'[q] # NoMatter
               PROVE  LET d == matter'[q] IN
                      /\ ticket'[d.of] # Unopened
                      /\ ~d.stale => d.seen = ticket'[d.of]
                      /\ ~d.stale /\ d.op = "reply" => d.seen.status \notin ResolvedStatuses
                      /\ d.op = "update" => d.agent \in Agents
    BY DEF MattersFit
  <2>1. matter[q] # NoMatter /\ matter[q] \in Matter /\ matter[q].of \in Tickets
        /\ ticket[matter[q].of] # Unopened
    BY <1>6, OfTicket
  <2>2. CASE matter[q].of = c.of
    <3>1. matter'[q] = [matter[q] EXCEPT !.stale = TRUE]
      BY <1>6, <2>2
    <3>2. /\ matter'[q].of = c.of /\ matter'[q].stale
          /\ matter'[q].op = matter[q].op /\ matter'[q].agent = matter[q].agent
      BY <2>1, <2>2, <3>1 DEF Matter
    <3>3. ticket'[c.of] = new
      BY <1>2, <1>5 DEF TicketInv, TicketDomains
    <3>4. matter[q].op = "update" => matter[q].agent \in Agents
      BY <2>1 DEF TicketInv, MattersFit
    <3> QED BY <1>9, <3>2, <3>3, <3>4
  <2>3. CASE matter[q].of # c.of
    <3>1. matter'[q] = matter[q]
      BY <1>6, <2>3
    <3>2. ticket'[matter[q].of] = ticket[matter[q].of]
      BY <1>5, <2>1, <2>3 DEF TicketInv, TicketDomains
    <3> QED BY <2>1, <3>1, <3>2 DEF TicketInv, MattersFit
  <2> QED BY <2>2, <2>3
<1>13. TicketsFit'
  <2> SUFFICES ASSUME NEW t \in Tickets, ticket'[t] # Unopened
               PROVE  (t \notin contested' => TicketSettled(ticket'[t])) /\ ticket'[t].late = FALSE
    BY DEF TicketsFit, TicketSettled
  <2>1. CASE t = c.of
    <3>1. ticket'[t] = new
      BY <1>2, <1>5, <2>1 DEF TicketInv, TicketDomains
    <3> QED BY <1>3, <1>4, <1>8, <2>1, <3>1
  <2>2. CASE t # c.of
    <3>1. ticket'[t] = ticket[t] /\ (t \in contested' <=> t \in contested)
      BY <1>5, <1>8, <2>2 DEF TicketInv, TicketDomains
    <3> QED BY <3>1 DEF TicketInv, TicketsFit
  <2> QED BY <2>1, <2>2
<1> QED BY <1>10, <1>11, <1>12, <1>13 DEF TicketInv

\* The inductive invariant is one.
LEMMA TicketNextInv == TicketInv /\ [TicketNext]_ticketVars => TicketInv'
<1> SUFFICES ASSUME TicketInv, [TicketNext]_ticketVars PROVE TicketInv'
  OBVIOUS
<1>1. ASSUME NEW t \in Tickets, OpenTicket(t) PROVE TicketInv'
  BY <1>1, OpenTicketInv
<1>2. ASSUME NEW p \in TicketCalls, NEW t \in Tickets,
             \/ \E status \in TicketStatus, agent \in Agents : ReadForMove(p, t, status, agent)
             \/ ReadForReply(p, t)
      PROVE  TicketInv'
  BY <1>2, ReadTicketInv
<1>3. ASSUME NEW p \in TicketCalls, CommitMove(p) \/ CommitReply(p) \/ TicketRollBack(p)
      PROVE  TicketInv'
  BY <1>3, MoveInv, ReplyInv, TicketRollBackInv
<1>4. CASE UNCHANGED ticketVars
  BY <1>4 DEF ticketVars, TicketInv, TicketTypeOK, TicketDomains, MattersFit, TicketsFit, TicketSettled
<1> QED BY <1>1, <1>2, <1>3, <1>4 DEF TicketNext

\* The invariant holds in every state of every behaviour.
LEMMA TicketSpecInv == TicketSpec => []TicketInv
<1> QED BY TicketInitInv, TicketNextInv, PTL DEF TicketSpec

-----------------------------------------------------------------------------
\* update and assert_repliable: however administrators and replies interleave, the columns
\* that say when and by whom a ticket was resolved follow its status unless its last move was
\* made from a stale copy, and no reply that is checked after a resolution is taken.
THEOREM ResolutionIsKept == TicketSpec => []ResolutionKept
<1>1. TicketInv => ResolutionKept
  <2> SUFFICES ASSUME TicketInv, NEW t \in Tickets, ticket[t] # Unopened
               PROVE  /\ t \in contested
                           \/ LET resolved == ticket[t].status \in ResolvedStatuses IN
                                /\ ticket[t].resolvedAt = resolved
                                /\ (ticket[t].resolvedBy # NoAgent) = resolved
                      /\ ~ticket[t].late
    BY DEF ResolutionKept
  <2>1. ticket[t] \in Ticket /\ ticket[t].resolvedAt \in BOOLEAN
    BY DEF TicketInv, TicketTypeOK, Ticket
  <2>2. (t \notin contested => TicketSettled(ticket[t])) /\ ticket[t].late = FALSE
    BY DEF TicketInv, TicketsFit
  <2> QED BY <2>1, <2>2 DEF TicketSettled
<1> QED BY <1>1, TicketSpecInv, PTL

-----------------------------------------------------------------------------
(* Reviews                                                                    *)

\* A request is about a review that is there, or posts one.  One that only writes the
\* response leaves the status alone; one that decides or reports has the status from its
\* copy, and unless it is stale the copy has it from the row.
ReadingsFit ==
    \A p \in ReviewCalls : reading[p] # NoReading =>
        LET r == reading[p] IN
        /\ r.op # "create" => review[r.of] # NotReviewed
        /\ r.op \notin {"create"} \cup ModerationOps => r.new.status = r.seen.status
        /\ r.op \in ModerationOps =>
              /\ r.new.status = Outcome(r.op)
              /\ r.op = "report" => r.seen.status # "removed"
              /\ ~r.stale => r.seen.status = review[r.of].status

\* What was decided on is there, and what was removed stays so.
RulingsStand ==
    \A b \in Sessions :
        /\ ruling[b] # "none" => review[b] # NotReviewed
        /\ ruling[b] = "remove" /\ b \notin rivals => review[b].status = "removed"

ReviewDomains == DOMAIN review = Sessions /\ DOMAIN reading = ReviewCalls

ReviewInv == ReviewTypeOK /\ ReviewDomains /\ ReadingsFit /\ RulingsStand

\* Before the first review the inductive invariant holds.
LEMMA ReviewInitInv == ReviewInit => ReviewInv
BY DEF ReviewInit, ReviewInv, ReviewTypeOK, ReviewDomains, ReadingsFit, RulingsStand, NotReviewed

\* What a request does with the review it has read, and what its flush makes of the row
LEMMA FlushReview ==
    ASSUME NEW row \in Review, NEW seen \in Review, NEW new \in Review
    PROVE  /\ Flush(row, seen, new) \in Review /\ Flush(row, seen, new) # NotReviewed
           /\ Flush(row, seen, new).status = IF new.status = seen.status THEN row.status
                                             ELSE new.status
BY DEF Flush, Review, NotReviewed, ModerationStatus

\* What a request makes of its copy
LEMMA HandledFits ==
    ASSUME NEW op \in ReviewOps, NEW row \in Review
    PROVE  /\ Handled(op, row) \in Review
           /\ op \in ModerationOps => Handled(op, row).status = Outcome(op)
           /\ op \notin ModerationOps => Handled(op, row).status = row.status
<1>1. CASE op \in ModerationOps
  <2>1. Outcome(op) \in ModerationStatus
    BY <1>1 DEF ModerationOps, Outcome, ModerationStatus
  <2>2. Handled(op, row) = [row EXCEPT !.status = Outcome(op)]
    BY <1>1 DEF Handled, ModerationOps
  <2> QED BY <1>1, <2>1, <2>2 DEF Review
<1>2. CASE op \in {"respond", "amend", "withdraw"}
  BY <1>2 DEF Handled, Review, ModerationOps
<1> QED BY <1>1, <1>2 DEF ReviewOps

\* A request starts, or ends without writing.
LEMMA ReadingsInv ==
    ASSUME ReviewInv, NEW p \in ReviewCalls, NEW r, reading' = [reading EXCEPT ![p] = r],
           UNCHANGED <<review, ruling, rivals>>,
           r # NoReading =>
             /\ r \in Reading
             /\ r.op # "create" => review[r.of] # NotReviewed
             /\ r.op \notin {"create"} \cup ModerationOps => r.new.status = r.seen.status
             /\ r.op \in ModerationOps =>
                   /\ r.new.status = Outcome(r.op)
                   /\ r.op = "report" => r.seen.status # "removed"
                   /\ r.seen.status = review[r.of].status
    PROVE  ReviewInv'
<1>1. reading'[p] = r /\ \A q \in ReviewCalls \ {p} : reading'[q] = reading[q]
  BY DEF ReviewInv, ReviewDomains
<1>2. ReviewTypeOK' /\ ReviewDomains' /\ RulingsStand'
  BY <1>1 DEF ReviewInv, ReviewTypeOK, ReviewDomains, RulingsStand
<1>3. ReadingsFit'
  BY <1>1 DEF ReviewInv, ReadingsFit
<1> QED BY <1>2, <1>3 DEF ReviewInv

\* create, and the read of a request on a review
LEMMA ReadReviewInv ==
    ASSUME ReviewInv, NEW p \in ReviewCalls, NEW b \in Sessions,
           \/ \E paid \in BOOLEAN : ReadToReview(p, b, paid)
           \/ \E op \in ReviewOps : ReadReview(p, b, op)
    PROVE  ReviewInv'
<1>1. ASSUME NEW paid \in BOOLEAN, ReadToReview(p, b, paid) PROVE ReviewInv'
  <2> DEFINE new == [status |-> "visible", verified |-> paid, response |-> "none"]
             r == [op |-> "create", of |-> b, seen |-> new, new |-> new, stale |-> FALSE]
  <2>1. new \in Review
    BY DEF Review, ModerationStatus
  <2>2. r \in Reading /\ r.op = "create"
    BY <2>1 DEF Reading
  <2>3. reading' = [reading EXCEPT ![p] = r] /\ UNCHANGED <<review, ruling, rivals>>
    BY <1>1 DEF ReadToReview
  <2>4. "create" \notin ModerationOps
    BY DEF ModerationOps
  <2> HIDE DEF r
  <2> QED BY <2>2, <2>3, <2>4, ReadingsInv
<1>2. ASSUME NEW op \in ReviewOps, ReadReview(p, b, op) PROVE ReviewInv'
  <2> DEFINE r == [op |-> op, of |-> b, seen |-> review[b], new |-> Handled(op, review[b]),
                   stale |-> FALSE]
  <2>1. review[b] \in Review
    BY <1>2 DEF ReviewInv, ReviewTypeOK, ReadReview
  <2>2. /\ r \in Reading /\ r.of = b /\ r.op = op /\ r.op # "create" /\ r.seen = review[b]
        /\ r.new = Handled(op, review[b])
    BY <2>1, HandledFits DEF Reading, ReviewOps, ModerationOps
  <2>3. /\ reading' = [reading EXCEPT ![p] = r] /\ UNCHANGED <<review, ruling, rivals>>
        /\ review[b] # NotReviewed /\ MayHandle(op, review[b])
    BY <1>2 DEF ReadReview
  <2>4. op = "report" => review[b].status # "removed"
    BY <2>3 DEF MayHandle, MayModerate, ModerationOps
  <2>5. /\ op \in ModerationOps => Handled(op, review[b]).status = Outcome(op)
        /\ op \notin ModerationOps => Handled(op, review[b]).status = review[b].status
    BY <2>1, HandledFits
  <2> HIDE DEF r
  <2>6. r # NoReading =>
          /\ r \in Reading
          /\ r.op # "create" => review[r.of] # NotReviewed
          /\ r.op \notin {"create"} \cup ModerationOps => r.new.status = r.seen.status
          /\ r.op \in ModerationOps =>
                /\ r.new.status = Outcome(r.op)
                /\ r.op = "report" => r.seen.status # "removed"
                /\ r.seen.status = review[r.of].status
    BY <2>2, <2>3, <2>4, <2>5
  <2> QED BY <2>3, <2>6, ReadingsInv
<1> QED BY <1>1, <1>2

\* Posting a review, or writing its response, leaves every decision standing.
LEMMA PostReviewInv ==
    ASSUME ReviewInv, NEW p \in ReviewCalls, PostReview(p) \/ SettleResponse(p)
    PROVE  ReviewInv'
<1> PICK b \in Sessions : b = reading[p].of
  <2>1. reading[p] # NoReading
    BY DEF PostReview, SettleResponse, NoReading
  <2> QED BY <2>1 DEF ReviewInv, ReviewTypeOK, Reading
<1>1. /\ reading[p] \in Reading /\ reading' = [reading EXCEPT ![p] = NoReading]
      /\ UNCHANGED <<ruling, rivals>>
  BY DEF ReviewInv, ReviewTypeOK, PostReview, SettleResponse, NoReading
<1>2. PICK row \in Review :
        /\ review' = [review EXCEPT ![b] = row]
        /\ review[b] # NotReviewed => row.status = review[b].status
        /\ review[b] = NotReviewed => ruling[b] = "none"
  <2>1. review[b] = NotReviewed => ruling[b] = "none"
    BY DEF ReviewInv, RulingsStand
  <2>2. CASE PostReview(p)
    BY <1>1, <2>1, <2>2 DEF PostReview, Reading
  <2>3. CASE SettleResponse(p)
    <3>1. /\ reading[p].op \notin {"create"} \cup ModerationOps /\ reading[p] # NoReading
          /\ review' = [review EXCEPT ![b] = Flush(@, reading[p].seen, reading[p].new)]
      BY <2>3 DEF SettleResponse, ModerationOps, NoReading
    <3>2. review[b] # NotReviewed /\ reading[p].new.status = reading[p].seen.status
      BY <3>1 DEF ReviewInv, ReadingsFit
    <3>3. review[b] \in Review /\ reading[p].seen \in Review /\ reading[p].new \in Review
      BY <1>1, <3>2 DEF ReviewInv, ReviewTypeOK, Reading
    <3> DEFINE row == Flush(review[b], reading[p].seen, reading[p].new)
    <3>4. row \in Review /\ row.status = review[b].status
      BY <3>2, <3>3, FlushReview
    <3>5. review' = [review EXCEPT ![b] = row]
      BY <3>1
    <3> HIDE DEF row
    <3> QED BY <3>2, <3>4, <3>5
  <2> QED BY <2>2, <2>3
<1>3. /\ row # NotReviewed /\ review'[b] = row
      /\ \A c \in Sessions \ {b} : review'[c] = review[c]
  BY <1>2 DEF ReviewInv, ReviewDomains, Review, NotReviewed
<1>4. reading'[p] = NoReading /\ \A q \in ReviewCalls \ {p} : reading'[q] = reading[q]
  BY <1>1 DEF ReviewInv, ReviewDomains
<1>5. ReviewTypeOK' /\ ReviewDomains'
  BY <1>1, <1>2, <1>3, <1>4 DEF ReviewInv, ReviewTypeOK, ReviewDomains
<1>6. RulingsStand'
  BY <1>1, <1>2, <1>3 DEF ReviewInv, RulingsStand
<1>7. ReadingsFit'
  <2> SUFFICES ASSUME NEW q \in ReviewCalls \ {p}, reading[q] # NoReading
               PROVE  /\ reading[q].op # "create" =>
                            /\ review'[reading[q].of] # NotReviewed
                            /\ review'[reading[q].of].status = review[reading[q].of].status
    BY <1>4 DEF ReviewInv, ReadingsFit, ModerationOps
  <2>1. reading[q].of \in Sessions
    BY DEF ReviewInv, ReviewTypeOK, Reading
  <2> QED BY <1>2, <1>3, <2>1 DEF ReviewInv, ReadingsFit
<1> QED BY <1>5, <1>6, <1>7 DEF ReviewInv

\* A decision or a report
LEMMA SettleReportInv == ASSUME ReviewInv, NEW p \in ReviewCalls, SettleReport(p) PROVE ReviewInv'
<1> DEFINE r == reading[p]
<1>1. r # NoReading /\ r \in Reading /\ r.op \in ModerationOps
  BY DEF ReviewInv, ReviewTypeOK, SettleReport, NoReading, ModerationOps
<1>2. PICK b \in Sessions : b = r.of
  BY <1>1 DEF Reading
<1>3. /\ review[b] # NotReviewed /\ r.new.status = Outcome(r.op)
      /\ r.op = "report" => r.seen.status # "removed"
      /\ ~r.stale => r.seen.status = review[b].status
  BY <1>1, <1>2 DEF ReviewInv, ReadingsFit, ModerationOps
<1>4. review[b] \in Review /\ r.seen \in Review /\ r.new \in Review
  BY <1>1, <1>3 DEF ReviewInv, ReviewTypeOK, Reading
<1>5. PICK row \in Review :
        /\ review' = [review EXCEPT ![b] = row] /\ row # NotReviewed
        /\ row.status = IF r.new.status = r.seen.status THEN review[b].status ELSE r.new.status
  <2> DEFINE row == Flush(review[b], r.seen, r.new)
  <2>1. /\ row \in Review /\ row # NotReviewed
        /\ row.status = IF r.new.status = r.seen.status THEN review[b].status ELSE r.new.status
    BY <1>4, FlushReview
  <2>2. review' = [review EXCEPT ![b] = row]
    BY <1>2 DEF SettleReport
  <2> HIDE DEF row
  <2> QED BY <2>1, <2>2
<1>6. review'[b] = row /\ \A c \in Sessions \ {b} : review'[c] = review[c]
  BY <1>5 DEF ReviewInv, ReviewDomains
<1>7. /\ ruling' = IF r.op = "report" THEN ruling ELSE [ruling EXCEPT ![b] = r.op]
      /\ rivals' = IF r.stale THEN rivals \cup {b}
                   ELSE IF r.op = "report" THEN rivals ELSE rivals \ {b}
  BY <1>2 DEF SettleReport
<1>8. ASSUME NEW q \in ReviewCalls
      PROVE  reading'[q] = IF q = p THEN NoReading
                           ELSE IF reading[q].of = b /\ reading[q].op # "create"
                                THEN [reading[q] EXCEPT !.stale = TRUE] ELSE reading[q]
  BY <1>2 DEF SettleReport
<1>9. ReviewTypeOK' /\ ReviewDomains'
  <2>1. \A c \in Sessions : review'[c] = NotReviewed \/ review'[c] \in Review
    BY <1>6 DEF ReviewInv, ReviewTypeOK
  <2>2. ASSUME NEW q \in ReviewCalls PROVE reading'[q] = NoReading \/ reading'[q] \in Reading
    <3>1. CASE q = p
      BY <1>8, <3>1
    <3>2. CASE q # p /\ reading[q].of = b /\ reading[q].op # "create"
      <4>1. reading[q] \in Reading
        BY <3>2, <1>2, SessionAssumption DEF ReviewInv, ReviewTypeOK, NoReading
      <4> QED BY <1>8, <3>2, <4>1 DEF Reading
    <3>3. CASE q # p /\ ~(reading[q].of = b /\ reading[q].op # "create")
      <4>1. reading'[q] = reading[q]
        BY <1>8, <3>3
      <4> QED BY <4>1 DEF ReviewInv, ReviewTypeOK
    <3> QED BY <3>1, <3>2, <3>3
  <2>3. ruling' \in [Sessions -> {"none", "approve", "remove"}] /\ rivals' \subseteq Sessions
    BY <1>1, <1>7 DEF ReviewInv, ReviewTypeOK, ModerationOps
  <2>4. DOMAIN review' = Sessions /\ DOMAIN reading' = ReviewCalls
    BY <1>5 DEF SettleReport, ReviewInv, ReviewDomains
  <2> QED BY <2>1, <2>2, <2>3, <2>4 DEF ReviewTypeOK, ReviewDomains
<1>10. RulingsStand'
  <2>1. ASSUME NEW c \in Sessions \ {b}
        PROVE  ruling'[c] = ruling[c] /\ (c \in rivals' <=> c \in rivals) /\ review'[c] = review[c]
    BY <1>6, <1>7 DEF ReviewInv, ReviewTypeOK
  <2>2. ruling'[b] = IF r.op = "report" THEN ruling[b] ELSE r.op
    BY <1>7 DEF ReviewInv, ReviewTypeOK
  <2>3. ASSUME ruling'[b] = "remove", b \notin rivals' PROVE row.status = "removed"
    <3>1. ~r.stale
      BY <1>7, <2>3
    <3>2. CASE r.op = "report"
      <4>1. review[b].status = "removed"
        BY <1>7, <2>2, <2>3, <3>1, <3>2 DEF ReviewInv, RulingsStand
      <4> QED BY <1>3, <3>1, <3>2, <4>1
    <3>3. CASE r.op # "report"
      <4>1. Outcome(r.op) = "removed"
        BY <2>2, <2>3, <3>3 DEF Outcome
      <4> QED BY <1>3, <1>5, <3>1, <4>1
    <3> QED BY <3>2, <3>3
  <2> QED BY <1>5, <1>6, <2>1, <2>3 DEF ReviewInv, RulingsStand
<1>11. ReadingsFit'
  <2> SUFFICES ASSUME NEW q \in ReviewCalls, reading'[q] # NoReading
               PROVE  LET c == reading'[q] IN
                      /\ c.op # "create" => review'[c.of] # NotReviewed
                      /\ c.op \notin {"create"} \cup ModerationOps => c.new.status = c.seen.status
                      /\ c.op \in ModerationOps =>
                            /\ c.new.status = Outcome(c.op)
                            /\ c.op = "report" => c.seen.status # "removed"
                            /\ ~c.stale => c.seen.status = review'[c.of].status
    BY DEF ReadingsFit
  <2>1. q # p
    BY <1>8
  <2>2. CASE reading[q].of = b /\ reading[q].op # "create"
    <3>1. reading[q] \in Reading /\ reading[q] # NoReading
      BY <1>2, <2>2, SessionAssumption DEF ReviewInv, ReviewTypeOK, NoReading
    <3>2. reading'[q] = [reading[q] EXCEPT !.stale = TRUE]
      BY <1>8, <2>1, <2>2
    <3>3. /\ reading'[q].op = reading[q].op /\ reading'[q].of = b /\ reading'[q].stale
          /\ reading'[q].new = reading[q].new /\ reading'[q].seen = reading[q].seen
      BY <2>2, <3>1, <3>2 DEF Reading
    <3> QED BY <1>5, <1>6, <3>1, <3>3 DEF ReviewInv, ReadingsFit
  <2>3. CASE ~(reading[q].of = b /\ reading[q].op # "create")
    <3>1. reading'[q] = reading[q]
      BY <1>8, <2>1, <2>3
    <3>2. reading[q].of \in Sessions
      BY <3>1 DEF ReviewInv, ReviewTypeOK, Reading
    <3>3. "create" \notin ModerationOps
      BY DEF ModerationOps
    <3>4. reading[q].op # "create" => review'[reading[q].of] = review[reading[q].of]
      BY <1>6, <2>3, <3>2
    <3> QED BY <3>1, <3>3, <3>4 DEF ReviewInv, ReadingsFit
  <2> QED BY <2>2, <2>3
<1> QED BY <1>9, <1>10, <1>11 DEF ReviewInv

\* The inductive invariant is one.
LEMMA ReviewNextInv == ReviewInv /\ [ReviewNext]_reviewVars => ReviewInv'
<1> SUFFICES ASSUME ReviewInv, [ReviewNext]_reviewVars PROVE ReviewInv'
  OBVIOUS
<1>1. ASSUME NEW p \in ReviewCalls, ReviewRollBack(p) PROVE ReviewInv'
  BY <1>1, ReadingsInv DEF ReviewRollBack
<1>2. CASE UNCHANGED reviewVars
  BY <1>2 DEF reviewVars, ReviewInv, ReviewTypeOK, ReviewDomains, ReadingsFit, RulingsStand
<1> QED BY <1>1, <1>2, ReadReviewInv, PostReviewInv, SettleReportInv DEF ReviewNext

\* What an administrator has removed is hidden.
LEMMA RemovedAreHidden == ReviewSpec => []RemovedHidden
<1>1. ReviewInv => RemovedHidden
  BY DEF ReviewInv, RulingsStand, RemovedHidden, PublicStatuses
<1> QED BY <1>1, ReviewInitInv, ReviewNextInv, PTL DEF ReviewSpec

-----------------------------------------------------------------------------
(* Conversations                                                              *)

\* A set of numbers that is bounded and not empty has a greatest one.
LEMMA Greatest ==
    ASSUME NEW n \in Nat, NEW T \in SUBSET (1 .. n), T # {}
    PROVE  Max(T) \in T /\ \A y \in T : Max(T) >= y
<1> DEFINE less == OpToRel(<, Nat)
           gaps == {k \in Nat : \E y \in T : k = n - y}
<1>1. IsWellFoundedOn(less, Nat) /\ gaps \subseteq Nat /\ gaps # {}
  <2>1. PICK y \in T : TRUE
    OBVIOUS
  <2>2. n - y \in gaps
    OBVIOUS
  <2> QED BY <2>2, NatLessThanWellFounded
<1> HIDE DEF less
<1>2. PICK k \in gaps : \A j \in gaps : <<j, k>> \notin less
  BY <1>1, WFMin
<1>3. PICK x \in T : k = n - x
  OBVIOUS
<1>4. ASSUME NEW y \in T PROVE x >= y
  <2>1. n - y \in gaps
    OBVIOUS
  <2>2. <<n - y, k>> \notin less
    BY <1>2, <2>1
  <2>3. n - y >= k
    BY <2>1, <2>2 DEF less, OpToRel
  <2> QED BY <1>3, <2>3
<1> QED BY <1>4 DEF Max

\* The greatest is what all are at most.
LEMMA GreatestIs ==
    ASSUME NEW T \in SUBSET Int, NEW x \in T, \A y \in T : x >= y
    PROVE  Max(T) = x
<1>1. \A z \in T : (\A y \in T : z >= y) => z = x
  OBVIOUS
<1> QED BY <1>1 DEF Max

\* What last_message_at is set to is the time of a message, or none.
LEMMA NewestType == ASSUME NEW T \in SUBSET Times PROVE Newest(T) \in 0 .. MaxMessages
<1>1. CASE T = {}
  BY <1>1, MessageAssumption DEF Newest
<1>2. CASE T # {}
  <2>1. Max(T) \in T
    BY <1>2, Greatest, MessageAssumption DEF Times
  <2>2. Newest(T) = Max(T)
    BY <1>2 DEF Newest
  <2>3. Max(T) \in 1 .. MaxMessages
    BY <2>1 DEF Times
  <2> QED BY <2>2, <2>3, MessageAssumption
<1> QED BY <1>1, <1>2

ChatDomains == DOMAIN message = Times /\ DOMAIN chat = Chatters

\* A sending or deletion that is alone has the latest time, or what the conversation was and
\* the messages are without its own.
WritersFit ==
    \A p \in Chatters : Writing(p) /\ chat[p].alone =>
        /\ \A q \in Chatters \ {p} : ~Writing(q)
        /\ chat[p].op = "send" => \A t \in Times : message[t] # Unsent => t <= chat[p].of
        /\ chat[p].op = "delete" =>
              /\ chat[p].last = thread.last
              /\ chat[p].step = "listed" => chat[p].newest = Newest(Shown \ {chat[p].of})

\* Messages are numbered as they begin, and what is touched was sent.
SentInTime ==
    /\ \A t \in Times : message[t] # Unsent => t <= begun
    /\ \A p \in Chatters : chat[p] # NoChat /\ chat[p].op # "send" => message[chat[p].of] # Unsent
    /\ \A p \in Chatters : chat[p].op = "send" => chat[p].of <= begun

ChatInv == ChatTypeOK /\ ChatDomains /\ WritersFit /\ SentInTime /\ NewestListed

\* Before the first message the inductive invariant holds.
LEMMA ChatInitInv == ChatInit => ChatInv
<1> SUFFICES ASSUME ChatInit PROVE ChatInv
  OBVIOUS
<1>1. ChatTypeOK
  <2>1. [open |-> FALSE, last |-> 0] \in Thread
    BY MessageAssumption DEF Thread
  <2>2. 0 \in 0 .. MaxMessages
    BY MessageAssumption
  <2> QED BY <2>1, <2>2 DEF ChatInit, ChatTypeOK
<1>2. ChatDomains /\ WritersFit /\ SentInTime
  BY DEF ChatInit, ChatDomains, WritersFit, SentInTime, Writing, NoChat, Unsent
<1>3. NewestListed
  BY DEF ChatInit, NewestListed, Newest, Shown, Unsent, PublicStatuses
<1> QED BY <1>1, <1>2, <1>3 DEF ChatInv

\* What is read, opened or rolled back moves no message, and only a request that is not
\* writing is put in the place of another.
LEMMA ChatsInv ==
    ASSUME ChatInv, NEW p \in Chatters, NEW c, chat' = [chat EXCEPT ![p] = c],
           UNCHANGED <<thread, message, begun, unsettled>>,
           \/ c = NoChat
           \/ c \in Chat /\ c.op \notin {"send", "delete"} /\ message[c.of] # Unsent
    PROVE  ChatInv'
<1>1. chat'[p] = c /\ \A q \in Chatters \ {p} : chat'[q] = chat[q]
  BY DEF ChatInv, ChatDomains
<1>2. ChatTypeOK' /\ ChatDomains' /\ NewestListed'
  BY <1>1 DEF ChatInv, ChatTypeOK, ChatDomains, NewestListed, Shown
<1>3. c.op \notin {"send", "delete"}
  BY DEF NoChat
<1>4. \A q \in Chatters : Writing(q)' => q # p /\ Writing(q) /\ chat'[q] = chat[q]
  BY <1>1, <1>3 DEF Writing
<1>5. \A q \in Chatters : Writing(q)' => Writing(q)
  BY <1>4
<1>6. Shown' = Shown
  BY DEF Shown
<1>7. WritersFit'
  BY <1>4, <1>5, <1>6 DEF ChatInv, WritersFit
<1>8. SentInTime'
  BY <1>1, <1>3 DEF ChatInv, SentInTime
<1> QED BY <1>2, <1>7, <1>8 DEF ChatInv

\* OpenThread
LEMMA OpenThreadInv == ASSUME ChatInv, OpenThread PROVE ChatInv'
<1>1. /\ thread'.last = thread.last /\ thread' \in Thread
      /\ UNCHANGED <<message, chat, begun, unsettled>>
  BY DEF OpenThread, ChatInv, ChatTypeOK, Thread
<1>2. ChatTypeOK' /\ ChatDomains'
  BY <1>1 DEF ChatInv, ChatTypeOK, ChatDomains
<1>3. WritersFit' /\ SentInTime' /\ NewestListed'
  BY <1>1 DEF ChatInv, WritersFit, SentInTime, NewestListed, Shown, Writing
<1> QED BY <1>2, <1>3 DEF ChatInv

\* A sending or deletion begins.
LEMMA BeginInv ==
    ASSUME ChatInv, NEW p \in Chatters, StartSend(p) \/ \E t \in Times : StartDelete(p, t)
    PROVE  ChatInv'
<1>1. PICK op \in {"send", "delete"}, t \in Times :
        /\ BeginWriting(p, op, t) /\ UNCHANGED <<thread, message, unsettled>>
        /\ op = "delete" => message[t] # Unsent
        /\ begun' \in 0 .. MaxMessages /\ begun' >= begun
        /\ op = "send" => t > begun /\ t = begun'
  <2>1. CASE StartSend(p)
    <3>1. begun + 1 \in Times /\ begun + 1 \in 0 .. MaxMessages /\ begun + 1 > begun
      BY <2>1, MessageAssumption DEF StartSend, ChatInv, ChatTypeOK, Times
    <3>2. begun' = begun + 1 /\ BeginWriting(p, "send", begun + 1)
      BY <2>1 DEF StartSend
    <3>3. UNCHANGED <<thread, message, unsettled>>
      BY <2>1 DEF StartSend
    <3>4. PICK t \in Times : t = begun + 1
      BY <3>1
    <3>5. begun' = t /\ BeginWriting(p, "send", t) /\ t \in 0 .. MaxMessages /\ t > begun
      BY <3>1, <3>2, <3>4
    <3>6. t >= begun
      BY <3>4 DEF ChatInv, ChatTypeOK
    <3>7. /\ BeginWriting(p, "send", t) /\ UNCHANGED <<thread, message, unsettled>>
          /\ begun' \in 0 .. MaxMessages /\ begun' >= begun /\ t > begun /\ t = begun'
      BY <3>3, <3>5, <3>6
    <3> QED BY <3>7
  <2>2. CASE \E t \in Times : StartDelete(p, t)
    <3>1. begun' = begun /\ begun \in 0 .. MaxMessages
      BY <2>2 DEF StartDelete, ChatInv, ChatTypeOK
    <3> QED BY <2>2, <3>1, MessageAssumption DEF StartDelete
  <2> QED BY <2>1, <2>2
<1> DEFINE alone == \A r \in Chatters \ {p} : ~Writing(r)
           c == [op |-> op, step |-> "read", of |-> t, last |-> thread.last, newest |-> t,
                 alone |-> alone]
<1>2. /\ chat'[p] = c /\ DOMAIN chat' = Chatters
      /\ \A q \in Chatters \ {p} :
            chat'[q] = IF Writing(q) THEN [chat[q] EXCEPT !.alone = FALSE] ELSE chat[q]
  BY <1>1 DEF BeginWriting
<1>3. /\ c \in Chat /\ c.op = op /\ c.of = t /\ c.last = thread.last /\ c.step = "read"
      /\ c # NoChat /\ c.alone = alone
  <2>1. thread.last \in 0 .. MaxMessages /\ t \in 0 .. MaxMessages /\ alone \in BOOLEAN
    BY MessageAssumption DEF ChatInv, ChatTypeOK, Thread, Times
  <2> HIDE DEF alone
  <2> QED BY <2>1 DEF Chat, NoChat
<1> HIDE DEF c
<1>4. ASSUME NEW q \in Chatters \ {p}
      PROVE  /\ chat'[q] = NoChat \/ chat'[q] \in Chat
             /\ chat'[q].op = chat[q].op /\ chat'[q].of = chat[q].of
             /\ chat'[q] # NoChat => chat[q] # NoChat
             /\ chat'[q].op \in {"send", "delete"} => ~chat'[q].alone
  <2>1. CASE ~Writing(q)
    BY <1>2, <2>1 DEF ChatInv, ChatTypeOK, Writing
  <2>2. CASE Writing(q)
    <3>1. chat[q] \in Chat /\ chat[q].op \in {"send", "delete"} /\ chat[q] # NoChat
      BY <2>2 DEF ChatInv, ChatTypeOK, Writing, NoChat
    <3>2. chat[q] \in [op : {"send", "delete"}, step : {"read", "listed"}, of : Times,
                       last : 0 .. MaxMessages, newest : 0 .. MaxMessages, alone : BOOLEAN]
      BY <3>1 DEF Chat, ModerationOps
    <3>3. chat'[q] = [chat[q] EXCEPT !.alone = FALSE]
      BY <1>2, <2>2
    <3> QED BY <3>1, <3>2, <3>3 DEF Chat
  <2> QED BY <2>1, <2>2
<1>5. ChatTypeOK' /\ ChatDomains'
  BY <1>1, <1>2, <1>3, <1>4 DEF ChatInv, ChatTypeOK, ChatDomains
<1>6. SentInTime'
  <2>1. \A u \in Times : message'[u] # Unsent => u <= begun'
    BY <1>1 DEF ChatInv, SentInTime, ChatTypeOK, Times
  <2>2. ASSUME NEW q \in Chatters, chat'[q] # NoChat, chat'[q].op # "send"
        PROVE  message'[chat'[q].of] # Unsent
    BY <1>1, <1>2, <1>3, <1>4, <2>2 DEF ChatInv, SentInTime
  <2>3. ASSUME NEW q \in Chatters, chat'[q].op = "send" PROVE chat'[q].of <= begun'
    <3>1. CASE q = p
      BY <1>1, <1>2, <1>3, <2>3, <3>1 DEF Times
    <3>2. CASE q # p
      <4>1. Writing(q) /\ chat[q].op = "send" /\ chat'[q].of = chat[q].of
        BY <1>4, <2>3, <3>2 DEF Writing
      <4>2. chat[q].of \in Times /\ chat[q].of <= begun /\ begun \in Nat
        BY <4>1 DEF ChatInv, SentInTime, ChatTypeOK, Chat, NoChat, ModerationOps
      <4> QED BY <1>1, <4>1, <4>2 DEF Times
    <3> QED BY <3>1, <3>2
  <2> QED BY <2>1, <2>2, <2>3 DEF SentInTime
<1>7. NewestListed' /\ Shown' = Shown
  BY <1>1 DEF ChatInv, NewestListed, Shown
<1>8. WritersFit'
  <2> SUFFICES ASSUME NEW q \in Chatters, Writing(q)', chat'[q].alone
               PROVE  /\ \A r \in Chatters \ {q} : ~Writing(r)'
                      /\ chat'[q].op = "send" =>
                            \A u \in Times : message'[u] # Unsent => u <= chat'[q].of
                      /\ chat'[q].op = "delete" =>
                            /\ chat'[q].last = thread'.last
                            /\ chat'[q].step # "listed"
    BY DEF WritersFit
  <2>1. q = p
    BY <1>4 DEF Writing
  <2>2. \A r \in Chatters \ {q} : ~Writing(r)'
    BY <1>2, <1>3, <1>4, <2>1 DEF Writing
  <2>3. op = "send" => \A u \in Times : message[u] # Unsent => u <= t
    BY <1>1 DEF ChatInv, SentInTime, ChatTypeOK, Times
  <2> QED BY <1>1, <1>2, <1>3, <2>1, <2>2, <2>3
<1> QED BY <1>5, <1>6, <1>7, <1>8 DEF ChatInv

\* A request that writes is a sending or a deletion.
LEMMA WriterType ==
    ASSUME ChatInv, NEW p \in Chatters, Writing(p)
    PROVE  /\ chat[p] \in [op : {"send", "delete"}, step : {"read", "listed"}, of : Times,
                           last : 0 .. MaxMessages, newest : 0 .. MaxMessages, alone : BOOLEAN]
           /\ chat[p] # NoChat
BY DEF ChatInv, ChatTypeOK, Writing, NoChat, Chat, ModerationOps

\* ListLast
LEMMA ListLastInv == ASSUME ChatInv, NEW p \in Chatters, ListLast(p) PROVE ChatInv'
<1>1. Writing(p) /\ chat[p].op = "delete"
  BY DEF ListLast, Writing
<1> DEFINE new == Newest(Shown \ {chat[p].of})
<1>2. new \in 0 .. MaxMessages
  BY NewestType DEF Shown
<1>3. /\ chat' = [chat EXCEPT ![p].step = "listed", ![p].newest = new]
      /\ UNCHANGED <<thread, message, begun, unsettled>>
  BY DEF ListLast
<1>4. PICK n : n = new
  OBVIOUS
<1> HIDE DEF new
<1>5. /\ chat'[p] \in Chat /\ chat'[p].op = "delete" /\ chat'[p].of = chat[p].of
      /\ chat'[p].last = chat[p].last /\ chat'[p].alone = chat[p].alone /\ chat'[p].newest = n
      /\ chat'[p] # NoChat
  BY <1>1, <1>2, <1>3, <1>4, WriterType DEF Chat, ChatInv, ChatDomains, NoChat
<1>6. DOMAIN chat' = Chatters /\ \A q \in Chatters \ {p} : chat'[q] = chat[q]
  BY <1>3 DEF ChatInv, ChatDomains
<1>7. ChatTypeOK' /\ ChatDomains'
  BY <1>3, <1>5, <1>6 DEF ChatInv, ChatTypeOK, ChatDomains
<1>8. Shown' = Shown /\ NewestListed'
  BY <1>3 DEF ChatInv, NewestListed, Shown
<1>9. SentInTime'
  BY <1>1, <1>3, <1>5, <1>6, WriterType DEF ChatInv, SentInTime
<1>10. WritersFit'
  <2>1. \A q \in Chatters : Writing(q)' <=> Writing(q)
    BY <1>1, <1>5, <1>6 DEF Writing
  <2>2. chat[p].alone => \A q \in Chatters \ {p} : ~Writing(q)
    BY <1>1 DEF ChatInv, WritersFit
  <2>3. ASSUME NEW q \in Chatters \ {p}, Writing(q)', chat'[q].alone PROVE FALSE
    BY <1>1, <1>6, <2>1, <2>3 DEF ChatInv, WritersFit
  <2>4. chat[p].alone => chat[p].last = thread.last
    BY <1>1 DEF ChatInv, WritersFit
  <2>5. n = Newest(Shown \ {chat[p].of})'
    BY <1>4, <1>5, <1>8 DEF new
  <2> QED BY <1>3, <1>5, <1>8, <2>1, <2>2, <2>3, <2>4, <1>4 DEF WritersFit, new
<1> QED BY <1>7, <1>8, <1>9, <1>10 DEF ChatInv

\* A message is sent or deleted.
LEMMA WritesInv == ASSUME ChatInv, NEW p \in Chatters, Send(p) \/ Delete(p) PROVE ChatInv'
<1> DEFINE c == chat[p]
<1>1. Writing(p) /\ c.op \in {"send", "delete"} /\ (Delete(p) => c.op = "delete" /\ c.step = "listed")
      /\ (Send(p) => c.op = "send")
  BY DEF Send, Delete, Writing
<1>2. PICK t \in Times : t = c.of
  BY <1>1, WriterType
<1>3. /\ c.alone \in BOOLEAN /\ c.newest \in 0 .. MaxMessages /\ t \in 0 .. MaxMessages /\ c # NoChat
      /\ c.last \in 0 .. MaxMessages
  BY <1>1, <1>2, WriterType, MessageAssumption DEF Times
<1>4. /\ UNCHANGED begun /\ unsettled' = ~c.alone /\ chat' = [chat EXCEPT ![p] = NoChat]
  BY DEF Send, Delete
<1>5. chat'[p] = NoChat /\ DOMAIN chat' = Chatters /\ \A q \in Chatters \ {p} : chat'[q] = chat[q]
  BY <1>4 DEF ChatInv, ChatDomains
<1>6. PICK row \in MessageRow :
        /\ message' = [message EXCEPT ![t] = row]
        /\ Send(p) => row.status = "visible" /\ ~row.deleted
        /\ Delete(p) => row.deleted
  <2>1. CASE Send(p)
    BY <1>2, <2>1, <1>1 DEF Send, MessageRow, ModerationStatus
  <2>2. CASE Delete(p)
    <3>1. message[t] \in MessageRow
      BY <1>1, <1>2, <1>3, <2>2 DEF ChatInv, ChatTypeOK, SentInTime
    <3> DEFINE row == [message[t] EXCEPT !.deleted = TRUE]
    <3>2. row \in MessageRow /\ row.deleted
      BY <3>1 DEF MessageRow
    <3>3. message' = [message EXCEPT ![t] = row]
      BY <1>2, <2>2 DEF Delete
    <3> HIDE DEF row
    <3> QED BY <1>1, <2>2, <3>2, <3>3
  <2> QED BY <2>1, <2>2
<1>7. /\ row # Unsent /\ message'[t] = row /\ DOMAIN message' = Times
      /\ \A u \in Times \ {t} : message'[u] = message[u]
  BY <1>6 DEF ChatInv, ChatDomains, MessageRow, Unsent, ModerationStatus
<1>8. /\ thread' \in Thread
      /\ Send(p) => thread'.last = t
      /\ Delete(p) /\ c.last = thread.last => thread'.last = c.newest
  <2>1. CASE Send(p)
    <3>1. thread' = [thread EXCEPT !.last = t] /\ thread \in Thread
      BY <1>2, <2>1 DEF Send, ChatInv, ChatTypeOK
    <3> QED BY <1>1, <1>3, <2>1, <3>1 DEF Thread
  <2>2. CASE Delete(p) /\ ~Send(p)
    <3>1. thread' = IF c.newest # c.last THEN [thread EXCEPT !.last = c.newest] ELSE thread
      BY <2>2 DEF Delete
    <3>2. thread \in Thread
      BY DEF ChatInv, ChatTypeOK
    <3>3. thread' \in Thread
      BY <1>3, <3>1, <3>2 DEF Thread
    <3>4. c.newest # c.last => thread'.last = c.newest
      BY <3>1, <3>2 DEF Thread
    <3> QED BY <2>2, <3>1, <3>3, <3>4
  <2> QED BY <2>1, <2>2
<1>9. ChatTypeOK' /\ ChatDomains'
  BY <1>3, <1>4, <1>5, <1>6, <1>7, <1>8 DEF ChatInv, ChatTypeOK, ChatDomains
<1>10. SentInTime'
  <2>1. t <= begun
    BY <1>1, <1>2, <1>3 DEF ChatInv, SentInTime
  <2>2. ~(NoChat.op = "send")
    BY DEF NoChat
  <2>3. \A u \in Times : message'[u] # Unsent => u <= begun'
    BY <1>4, <1>7, <2>1 DEF ChatInv, SentInTime
  <2>4. \A q \in Chatters : chat'[q] # NoChat /\ chat'[q].op # "send" => message'[chat'[q].of] # Unsent
    <3> SUFFICES ASSUME NEW q \in Chatters, chat'[q] # NoChat, chat'[q].op # "send"
                 PROVE  message'[chat[q].of] # Unsent
      BY <1>5
    <3>1. chat'[q] = chat[q] /\ message[chat[q].of] # Unsent
      BY <1>5 DEF ChatInv, SentInTime
    <3>2. chat[q].of \in Times
      BY <1>5, <3>1 DEF ChatInv, ChatTypeOK, Chat, ModerationOps
    <3> QED BY <1>7, <3>1, <3>2
  <2>5. \A q \in Chatters : chat'[q].op = "send" => chat'[q].of <= begun'
    BY <1>4, <1>5, <2>2 DEF ChatInv, SentInTime
  <2> QED BY <2>3, <2>4, <2>5 DEF SentInTime
<1>11. WritersFit'
  <2> SUFFICES ASSUME NEW q \in Chatters, Writing(q)', chat'[q].alone PROVE FALSE
    BY DEF WritersFit
  <2>1. q # p /\ Writing(q) /\ chat[q].alone
    BY <1>5 DEF Writing, NoChat
  <2> QED BY <1>1, <2>1 DEF ChatInv, WritersFit
<1>12. NewestListed'
  <2> SUFFICES ASSUME c.alone PROVE thread'.last = Newest(Shown')
    BY <1>4 DEF NewestListed
  <2>1. CASE Send(p)
    <3>1. t \in Shown'
      BY <1>6, <1>7, <2>1 DEF Shown, PublicStatuses
    <3>2. \A u \in Shown' : u \in Times /\ u <= t
      <4>1. \A u \in Times : message[u] # Unsent => u <= t
        BY <1>1, <1>2, <2>1 DEF ChatInv, WritersFit
      <4>2. t <= t
        BY DEF Times
      <4> QED BY <1>7, <4>1, <4>2 DEF Shown, Unsent, PublicStatuses
    <3>3. Max(Shown') = t
      BY <3>1, <3>2, GreatestIs DEF Times
    <3> QED BY <1>8, <2>1, <3>1, <3>3 DEF Newest
  <2>2. CASE Delete(p) /\ ~Send(p)
    <3>1. c.newest = Newest(Shown \ {t})
      BY <1>1, <1>2, <2>2 DEF ChatInv, WritersFit
    <3>2. Shown' = Shown \ {t}
      BY <1>6, <1>7, <2>2 DEF Shown
    <3>3. c.last = thread.last
      BY <1>1, <2>2 DEF ChatInv, WritersFit
    <3> QED BY <1>8, <2>2, <3>1, <3>2, <3>3
  <2> QED BY <2>1, <2>2
<1> QED BY <1>9, <1>10, <1>11, <1>12 DEF ChatInv

\* A request that does not write a message is none of the sendings and deletions.
LEMMA ToucherType ==
    ASSUME ChatInv, NEW p \in Chatters, chat[p].op \in {"edit", "read"} \cup ModerationOps
    PROVE  /\ chat[p].of \in Times /\ chat[p].seen \in ModerationStatus
           /\ message[chat[p].of] \in MessageRow /\ ~Writing(p)
<1>1. chat[p] # NoChat /\ ~Writing(p) /\ chat[p].op # "send"
  BY DEF NoChat, Writing, ModerationOps
<1>2. chat[p].of \in Times /\ chat[p].seen \in ModerationStatus
  BY <1>1 DEF ChatInv, ChatTypeOK, Chat, Writing
<1>3. message[chat[p].of] \in MessageRow
  BY <1>1, <1>2 DEF ChatInv, SentInTime, ChatTypeOK
<1> QED BY <1>1, <1>2, <1>3

\* WriteMessage
LEMMA WriteMessageInv == ASSUME ChatInv, NEW p \in Chatters, WriteMessage(p) PROVE ChatInv'
<1> DEFINE c == chat[p]
           status == IF c.op \in ModerationOps /\ Outcome(c.op) # c.seen
                     THEN Outcome(c.op) ELSE message[c.of].status
           row == [message[c.of] EXCEPT !.edited = @ \/ c.op = "edit",
                                        !.read = @ \/ c.op = "read", !.status = status]
           moved == message'[c.of].status # message[c.of].status
<1>1. c.op \in {"edit", "read"} \cup ModerationOps
  BY DEF WriteMessage
<1>2. /\ c.of \in Times /\ c.seen \in ModerationStatus /\ message[c.of] \in MessageRow
      /\ ~Writing(p)
  BY <1>1, ToucherType
<1>3. status \in ModerationStatus
  BY <1>1, <1>2 DEF ModerationStatus, Outcome, MessageRow, ModerationOps
<1>4. row \in MessageRow /\ row.status = status /\ row.deleted = message[c.of].deleted
  BY <1>2, <1>3 DEF MessageRow
<1>5. message' = [message EXCEPT ![c.of] = row]
  BY <1>2 DEF WriteMessage, ChatInv, ChatDomains
<1> HIDE DEF row, status
<1>6. /\ message'[c.of] = row /\ DOMAIN message' = Times
      /\ \A t \in Times \ {c.of} : message'[t] = message[t]
  BY <1>2, <1>5 DEF ChatInv, ChatDomains
<1>7. \A t \in Times : (message'[t] = Unsent) <=> (message[t] = Unsent)
  BY <1>2, <1>4, <1>6 DEF MessageRow, Unsent, ModerationStatus
<1>8. UNCHANGED <<thread, begun>> /\ unsettled' = (unsettled \/ moved)
  BY DEF WriteMessage
<1>9. /\ chat'[p] = NoChat /\ DOMAIN chat' = Chatters
      /\ \A q \in Chatters \ {p} :
            chat'[q] = IF Writing(q) /\ moved THEN [chat[q] EXCEPT !.alone = FALSE] ELSE chat[q]
  BY DEF WriteMessage
<1>10. moved \in BOOLEAN /\ (~moved => Shown' = Shown)
  BY <1>2, <1>4, <1>6 DEF Shown
<1> HIDE DEF moved
<1>11. ASSUME NEW q \in Chatters \ {p}
       PROVE  /\ chat'[q] = NoChat \/ chat'[q] \in Chat
              /\ chat'[q].op = chat[q].op /\ chat'[q].of = chat[q].of
              /\ chat'[q] # NoChat => chat[q] # NoChat
              /\ moved /\ Writing(q) => ~chat'[q].alone
              /\ ~moved => chat'[q] = chat[q]
  <2>1. CASE ~(Writing(q) /\ moved)
    BY <1>9, <2>1 DEF ChatInv, ChatTypeOK
  <2>2. CASE Writing(q) /\ moved
    <3>1. /\ chat[q] \in [op : {"send", "delete"}, step : {"read", "listed"}, of : Times,
                          last : 0 .. MaxMessages, newest : 0 .. MaxMessages, alone : BOOLEAN]
          /\ chat[q] # NoChat
      BY <2>2, WriterType
    <3>2. chat'[q] = [chat[q] EXCEPT !.alone = FALSE]
      BY <1>9, <2>2
    <3> QED BY <2>2, <3>1, <3>2 DEF Chat
  <2> QED BY <2>1, <2>2
<1>12. ChatTypeOK' /\ ChatDomains'
  BY <1>4, <1>6, <1>8, <1>9, <1>10, <1>11 DEF ChatInv, ChatTypeOK, ChatDomains
<1>13. SentInTime'
  <2>1. NoChat.op # "send"
    BY DEF NoChat
  <2>2. \A q \in Chatters : chat'[q] # NoChat /\ chat'[q].op # "send" => message'[chat'[q].of] # Unsent
    <3> SUFFICES ASSUME NEW q \in Chatters, chat'[q] # NoChat, chat'[q].op # "send"
                 PROVE  message'[chat[q].of] # Unsent
      BY <1>9, <1>11
    <3>1. message[chat[q].of] # Unsent /\ chat[q].of \in Times
      BY <1>9, <1>11 DEF ChatInv, SentInTime, ChatTypeOK, Chat
    <3> QED BY <1>7, <3>1
  <2>3. \A q \in Chatters : chat'[q].op = "send" => chat'[q].of <= begun'
    BY <1>8, <1>9, <1>11, <2>1 DEF ChatInv, SentInTime
  <2> QED BY <1>7, <1>8, <2>2, <2>3 DEF ChatInv, SentInTime
<1>14. WritersFit'
  <2> SUFFICES ASSUME NEW q \in Chatters, Writing(q)', chat'[q].alone
               PROVE  /\ \A r \in Chatters \ {q} : ~Writing(r)'
                      /\ chat'[q].op = "send" =>
                            \A t \in Times : message'[t] # Unsent => t <= chat'[q].of
                      /\ chat'[q].op = "delete" =>
                            /\ chat'[q].last = thread'.last
                            /\ chat'[q].step = "listed" => chat'[q].newest = Newest(Shown \ {chat[q].of})'
    BY <1>9, <1>11 DEF WritersFit, Writing, NoChat
  <2>1. q # p /\ Writing(q) /\ ~moved
    BY <1>9, <1>11 DEF Writing, NoChat
  <2>2. chat'[q] = chat[q] /\ chat[q].alone
    BY <1>11, <2>1
  <2>3. \A r \in Chatters \ {q} : ~Writing(r)'
    <3>1. \A r \in Chatters \ {q} : ~Writing(r)
      BY <2>1, <2>2 DEF ChatInv, WritersFit
    <3>2. ASSUME NEW r \in Chatters \ {q} PROVE ~Writing(r)'
      BY <1>9, <1>11, <3>1 DEF Writing, NoChat
    <3> QED BY <3>2
  <2> QED BY <1>7, <1>8, <1>10, <2>1, <2>2, <2>3 DEF ChatInv, WritersFit
<1>15. NewestListed'
  BY <1>8, <1>10 DEF ChatInv, NewestListed
<1> QED BY <1>12, <1>13, <1>14, <1>15 DEF ChatInv

\* No step of a conversation breaks the inductive invariant.
LEMMA ChatNextInv == ChatInv /\ [ChatNext]_chatVars => ChatInv'
<1> SUFFICES ASSUME ChatInv, [ChatNext]_chatVars PROVE ChatInv'
  OBVIOUS
<1>1. CASE UNCHANGED chatVars
  BY <1>1 DEF chatVars, ChatInv, ChatTypeOK, ChatDomains, WritersFit, SentInTime, NewestListed,
              Shown, Writing
<1>2. CASE OpenThread
  BY <1>2, OpenThreadInv
<1>3. ASSUME NEW p \in Chatters, ChatRollBack(p) PROVE ChatInv'
  BY <1>3, ChatsInv DEF ChatRollBack
<1>4. ASSUME NEW p \in Chatters, NEW t \in Times, NEW op \in {"edit", "read"} \cup ModerationOps,
             ReadMessage(p, t, op)
      PROVE  ChatInv'
  <2> DEFINE c == [op |-> op, of |-> t, seen |-> message[t].status]
  <2>1. message[t] \in MessageRow
    BY <1>4 DEF ReadMessage, ChatInv, ChatTypeOK
  <2>2. c \in Chat /\ c.op \notin {"send", "delete"} /\ c.of = t
    BY <2>1 DEF Chat, MessageRow, ModerationOps
  <2>3. chat' = [chat EXCEPT ![p] = c] /\ UNCHANGED <<thread, message, begun, unsettled>>
    BY <1>4 DEF ReadMessage
  <2>4. message[t] # Unsent
    BY <1>4 DEF ReadMessage
  <2> HIDE DEF c
  <2> QED BY <2>2, <2>3, <2>4, ChatsInv
<1>5. ASSUME NEW p \in Chatters,
             \/ StartSend(p) \/ Send(p) \/ ListLast(p) \/ Delete(p) \/ WriteMessage(p)
             \/ \E t \in Times : StartDelete(p, t)
      PROVE  ChatInv'
  BY <1>5, BeginInv, WritesInv, ListLastInv, WriteMessageInv
<1> QED BY <1>1, <1>2, <1>3, <1>4, <1>5 DEF ChatNext

\* The list of conversations is ordered by the newest message that is shown.
LEMMA NewestIsListed == ChatSpec => []NewestListed
<1>1. ChatInv => NewestListed
  BY DEF ChatInv
<1> QED BY ChatInitInv, ChatNextInv, <1>1, PTL DEF ChatSpec

\* Whatever is sent, written, edited, deleted, reported and moderated side by side, by any
\* number of requests: a review that an administrator has removed is in no listing (reviews of
\* api/v1/advisors), and last_message_at is the time of the newest message that is shown
\* after a sending or a deletion that overlapped no other, until a message is moderated.
THEOREM ModerationIsKept == ReviewSpec /\ ChatSpec => []ModerationStands
<1>1. RemovedHidden /\ NewestListed => ModerationStands
  BY DEF ModerationStands
<1> QED BY RemovedAreHidden, NewestIsListed, <1>1, PTL

-----------------------------------------------------------------------------
(* The seeker's documents                                                     *)

DocumentDomains ==
    /\ DOMAIN portfolio = Documents /\ DOMAIN opinion = Documents /\ DOMAIN paper = PaperCalls
    /\ \A d \in Documents : DOMAIN opinion[d] = Advisors

\* What a request knows of the document it works on.  Nobody has replaced the file unless
\* `replaced` says so, and when its own replacement is written, the verdicts that are there
\* will be cleared or came late.
PapersFit ==
    \A p \in PaperCalls : paper[p] # NoPaper =>
        /\ portfolio[paper[p].document] # Absent
        /\ ~paper[p].replaced => paper[p].seen.file = portfolio[paper[p].document].file
        /\ paper[p].op = "review" => paper[p].advisor \in Advisors
        /\ Replaces(p) => paper[p].op = "update"
        /\ Replaces(p) /\ paper[p].step = "write" =>
              \A a \in Advisors : opinion[paper[p].document][a] # NoOpinion =>
                                      a \in paper[p].cleared \cup paper[p].late

\* The documents that a file is of, now, before or after a request
Claims(f, d) ==
    \/ portfolio[d] # Absent /\ portfolio[d].file = f
    \/ \E p \in PaperCalls : /\ paper[p] # NoPaper /\ paper[p].document = d
                             /\ f \in {paper[p].seen.file, paper[p].new.file}

\* No two documents have the same file.
FilesApart ==
    \A f \in Uploads, d \in Documents, e \in Documents : Claims(f, d) /\ Claims(f, e) => d = e

\* What the sweep has not found is in dropped.
SweepSees ==
    sweeping.running =>
        \A d \in Documents : portfolio[d] # Absent => portfolio[d].file \in sweeping.found \cup dropped

\* A verdict is on the file that the document has, whether it counts or not.
OpinionsFit ==
    \A d \in Documents, a \in Advisors : opinion[d][a] # NoOpinion =>
        /\ portfolio[d] # Absent
        /\ <<d, a>> \notin unseen => opinion[d][a].file = portfolio[d].file

DocInv ==
    /\ DocumentTypeOK /\ DocumentDomains /\ PapersFit /\ FilesApart /\ SweepSees /\ OpinionsFit
    /\ DocumentFileKept

\* The inductive invariant says that the portfolio is sound.
LEMMA DocSound == DocInv => PortfolioSound
<1> SUFFICES ASSUME DocInv PROVE ApprovedAsSeen
  BY DEF DocInv, PortfolioSound
<1>1. ASSUME NEW d \in Documents, NEW a \in Advisors, Effective(d, a) = "approved"
      PROVE  opinion[d][a] # NoOpinion
  BY <1>1 DEF Effective, EffectiveStatus
<1> QED BY <1>1 DEF ApprovedAsSeen, DocInv, OpinionsFit

\* refresh_expired_statuses keeps the file.
LEMMA RefreshedType ==
    ASSUME NEW row \in Document
    PROVE  Refreshed(row) \in Document /\ Refreshed(row).file = row.file
BY DEF Refreshed, Document, DocumentStatus

\* A document that is there is no absent one.
LEMMA DocumentThere == ASSUME NEW row \in Document PROVE row # Absent
BY DEF Document, Absent, DocumentStatus

\* So is a request that is in progress, and a verdict.
LEMMA PaperThere ==
    /\ \A x \in Paper : x # NoPaper
    /\ \A x \in Opinion : x # NoOpinion
BY DEF Paper, NoPaper, Opinion, NoOpinion, DocumentStatus

\* update_document gives the row another file, or leaves it its own.
LEMMA AmendedType ==
    ASSUME NEW row \in Document, NEW expiry \in {"kept", "clear", "set"},
           NEW f \in Uploads \cup {NoUpload}
    PROVE  /\ Amended(row, expiry, f) \in Document
           /\ Amended(row, expiry, f).file = IF f = NoUpload THEN row.file ELSE f
<1> DEFINE after == CASE expiry = "kept" -> row.expiry [] expiry = "clear" -> "none"
                      [] expiry = "set" -> "ahead"
           dated == [row EXCEPT
                    !.by = NoAdvisor,
                    !.expiry = CASE expiry = "kept" -> @ [] expiry = "clear" -> "none"
                                 [] expiry = "set" -> "ahead",
                    !.status = IF expiry = "set" /\ @ = "expired" THEN "under_review" ELSE @]
<1>1. after \in Expiry
  BY DEF Expiry, Document
<1>2. dated \in Document /\ dated.file = row.file
  BY <1>1 DEF Document, DocumentStatus
<1>3. Amended(row, expiry, f) =
         IF f = NoUpload THEN dated
         ELSE [dated EXCEPT !.file = f, !.status = "under_review",
                            !.expiry = IF expiry = "kept" /\ @ \in {"today", "past"} THEN "none"
                                       ELSE @]
  BY DEF Amended
<1> HIDE DEF dated
<1>4. CASE f = NoUpload
  BY <1>2, <1>3, <1>4
<1>5. CASE f # NoUpload
  <2>1. PICK later : later = IF expiry = "kept" /\ dated.expiry \in {"today", "past"} THEN "none"
                             ELSE dated.expiry
    OBVIOUS
  <2>2. later \in Expiry /\ "under_review" \in DocumentStatus /\ f \in Uploads
    BY <1>2, <1>5, <2>1 DEF Document, DocumentStatus, Expiry
  <2>3. Amended(row, expiry, f) = [dated EXCEPT !.file = f, !.status = "under_review", !.expiry = later]
    BY <1>2, <1>3, <1>5, <2>1 DEF Document
  <2>4. PICK new : new = Amended(row, expiry, f)
    OBVIOUS
  <2>5. new \in Document
    BY <1>2, <2>2, <2>3, <2>4 DEF Document
  <2>6. new.file = f
    BY <1>2, <2>3, <2>4 DEF Document
  <2> QED BY <1>5, <2>4, <2>5, <2>6
<1> QED BY <1>4, <1>5

\* The row that a request writes has the file it had, or the new one.
LEMMA RowAfterType ==
    ASSUME DocInv, NEW p \in PaperCalls, paper[p] # NoPaper
    PROVE  /\ RowAfter(p) \in Document
           /\ RowAfter(p).file = IF Replaces(p) THEN paper[p].new.file
                                 ELSE portfolio[paper[p].document].file
           /\ paper[p] \in Paper /\ portfolio[paper[p].document] \in Document
<1>1. /\ paper[p] \in Paper /\ paper[p].document \in Documents
      /\ paper[p].seen \in Document /\ paper[p].new \in Document /\ paper[p].start \in 0 .. MaxClock
  BY DEF DocInv, DocumentTypeOK, Paper
<1>2. portfolio[paper[p].document] \in Document
  BY <1>1 DEF DocInv, DocumentTypeOK, PapersFit
<1> DEFINE row == Flush(portfolio[paper[p].document], paper[p].seen, paper[p].new)
<1>3. /\ row \in Document
      /\ row.file = IF Replaces(p) THEN paper[p].new.file ELSE portfolio[paper[p].document].file
  BY <1>1, <1>2 DEF Flush, Document, Replaces
<1>4. RowAfter(p) = [row EXCEPT !.status = IF paper[p].lapsed THEN paper[p].new.status ELSE @,
                                !.updated = paper[p].start]
  BY DEF RowAfter
<1> HIDE DEF row
<1>5. paper[p].new.status \in DocumentStatus
  BY <1>1 DEF Document
<1> QED BY <1>1, <1>2, <1>3, <1>4, <1>5 DEF Document

\* Files that are claimed by their documents only remain so if at most one is claimed anew.
LEMMA ApartKept ==
    ASSUME FilesApart, NEW g, NEW h, \A e \in Documents : ~Claims(g, e),
           \A f \in Uploads, d \in Documents : Claims(f, d)' => Claims(f, d) \/ (f = g /\ d = h)
    PROVE  FilesApart'
BY DEF FilesApart

\* A file that may be attached is claimed by no document.
LEMMA AttachableFree ==
    ASSUME NEW f \in Attachable, NEW d \in Documents PROVE ~Claims(f, d)
BY DEF Attachable, Files, Claims

\* Before the first upload the inductive invariant holds.
LEMMA DocInitInv == DocumentInit => DocInv
<1> SUFFICES ASSUME DocumentInit PROVE DocInv
  OBVIOUS
<1>1. DocumentTypeOK
  BY ClockAssumption DEF DocumentInit, DocumentTypeOK, Listing
<1>2. DocumentDomains /\ PapersFit /\ SweepSees /\ OpinionsFit /\ DocumentFileKept /\ FilesApart
  BY DEF DocumentInit, DocumentDomains, PapersFit, SweepSees, OpinionsFit, DocumentFileKept,
         FilesApart, Claims
<1> QED BY <1>1, <1>2 DEF DocInv

\* What writes the rows of the documents and leaves them their files
LEMMA RowsKeepFiles ==
    ASSUME DocInv, UNCHANGED <<opinion, stored, recent, clock, paper, sweeping, used, dropped, unseen>>,
           DOMAIN portfolio' = Documents,
           \A d \in Documents :
              \/ portfolio'[d] = portfolio[d]
              \/ /\ portfolio[d] # Absent /\ portfolio'[d] \in Document
                 /\ portfolio'[d].file = portfolio[d].file
    PROVE  DocInv'
<1>1. \A d \in Documents : /\ (portfolio'[d] = Absent) <=> (portfolio[d] = Absent)
                           /\ portfolio'[d].file = portfolio[d].file
  BY DocumentThere
<1>2. DocumentTypeOK' /\ DocumentDomains'
  BY DEF DocInv, DocumentTypeOK, DocumentDomains
<1>3. \A p \in PaperCalls : paper[p] # NoPaper => paper[p].document \in Documents
  BY DEF DocInv, DocumentTypeOK, Paper
<1>4. PapersFit'
  BY <1>1, <1>3 DEF DocInv, PapersFit, Replaces
<1>5. FilesApart'
  BY <1>1 DEF DocInv, FilesApart, Claims
<1>6. SweepSees' /\ OpinionsFit' /\ DocumentFileKept'
  BY <1>1 DEF DocInv, SweepSees, OpinionsFit, DocumentFileKept
<1> QED BY <1>2, <1>4, <1>5, <1>6 DEF DocInv

\* What neither writes a row nor a request, and takes no file that is not dropped
LEMMA StorageInv ==
    ASSUME DocInv, UNCHANGED <<portfolio, opinion, paper, unseen>>, DocumentTypeOK', SweepSees',
           \A d \in Documents : portfolio[d] # Absent /\ portfolio[d].file \in stored \cup dropped
                                   => portfolio[d].file \in stored' \cup dropped'
    PROVE  DocInv'
<1>1. DocumentDomains' /\ PapersFit' /\ FilesApart' /\ OpinionsFit'
  BY DEF DocInv, DocumentDomains, PapersFit, FilesApart, OpinionsFit, Claims, Replaces
<1>2. DocumentFileKept'
  BY DEF DocInv, DocumentFileKept
<1> QED BY <1>1, <1>2 DEF DocInv

\* Upload, DeleteUpload, StartSweep, SweepUploads, Tick
LEMMA FilesInv ==
    ASSUME DocInv,
           \/ \E f \in Uploads : Upload(f) \/ DeleteUpload(f)
           \/ StartSweep \/ SweepUploads \/ Tick
    PROVE  DocInv'
<1>1. /\ stored \subseteq used /\ recent \subseteq used /\ used \subseteq Uploads
      /\ dropped \subseteq Uploads /\ clock \in 0 .. MaxClock /\ sweeping \in Listing
  BY DEF DocInv, DocumentTypeOK
<1>2. /\ UNCHANGED <<portfolio, opinion, paper, unseen>>
      /\ stored' \subseteq used' /\ recent' \subseteq used' /\ used' \subseteq Uploads
      /\ dropped' \subseteq Uploads
  BY <1>1 DEF Upload, DeleteUpload, StartSweep, SweepUploads, Tick, remnants
<1>3. clock' \in 0 .. MaxClock
  BY <1>1, ClockAssumption DEF Upload, DeleteUpload, StartSweep, SweepUploads, Tick
<1>4. \A d \in Documents : portfolio[d] # Absent => portfolio[d] \in Document
  BY DEF DocInv, DocumentTypeOK
<1>5. Files \subseteq Uploads
  BY <1>4 DEF Files, Document
<1>6. sweeping' \in Listing
  <2>1. [running |-> TRUE, found |-> Files] \in Listing /\ [running |-> FALSE, found |-> {}] \in Listing
    BY <1>5 DEF Listing
  <2> QED BY <1>1, <2>1 DEF Upload, DeleteUpload, StartSweep, SweepUploads, Tick, Referenced
<1>7. DocumentTypeOK'
  BY <1>2, <1>3, <1>6 DEF DocInv, DocumentTypeOK
<1>8. SweepSees'
  <2>1. CASE UNCHANGED sweeping
    <3>1. dropped \subseteq dropped'
      BY <2>1, <1>1 DEF Upload, DeleteUpload, StartSweep, SweepUploads, Tick, remnants
    <3> QED BY <1>2, <2>1, <3>1 DEF DocInv, SweepSees
  <2>2. CASE StartSweep
    BY <1>2, <2>2 DEF StartSweep, SweepSees, Referenced, Files
  <2>3. CASE SweepUploads
    BY <2>3 DEF SweepUploads, SweepSees
  <2> QED BY <2>1, <2>2, <2>3 DEF Upload, DeleteUpload, Tick
<1>9. ASSUME NEW d \in Documents, portfolio[d] # Absent, portfolio[d].file \in stored \cup dropped
      PROVE  portfolio[d].file \in stored' \cup dropped'
  <2>1. CASE SweepUploads
    <3>1. portfolio[d].file \in sweeping.found \cup dropped
      BY <1>9, <2>1 DEF DocInv, SweepSees, SweepUploads
    <3>2. PICK gone \in SUBSET (stored \ (sweeping.found \cup recent)) : stored' = stored \ gone
      BY <2>1 DEF SweepUploads
    <3>3. dropped' = dropped
      BY <2>1 DEF SweepUploads, remnants
    <3> QED BY <1>9, <3>1, <3>2, <3>3
  <2>2. CASE ~SweepUploads
    BY <1>9, <2>2 DEF Upload, DeleteUpload, StartSweep, Tick, remnants
  <2> QED BY <2>1, <2>2
<1> QED BY <1>2, <1>7, <1>8, <1>9, StorageInv

\* Attach
LEMMA AttachInv ==
    ASSUME DocInv, NEW d \in Documents, NEW f \in Uploads, NEW expiry \in Expiry,
           Attach(d, f, expiry)
    PROVE  DocInv'
<1> DEFINE row == [status |-> "under_review", expiry |-> expiry, file |-> f, by |-> NoAdvisor,
                   archived |-> FALSE, updated |-> clock]
<1>1. row \in Document /\ row.file = f
  BY DEF DocInv, DocumentTypeOK, Document, DocumentStatus
<1>2. /\ portfolio[d] = Absent /\ f \in Attachable /\ portfolio' = [portfolio EXCEPT ![d] = row]
      /\ dropped' = Missed(f)
      /\ UNCHANGED <<opinion, stored, recent, clock, paper, sweeping, used, unseen>>
  BY DEF Attach
<1> HIDE DEF row
<1>3. /\ portfolio'[d] = row /\ row # Absent /\ DOMAIN portfolio' = Documents
      /\ \A e \in Documents \ {d} : portfolio'[e] = portfolio[e]
  BY <1>1, <1>2, DocumentThere DEF DocInv, DocumentDomains
<1>4. DocumentTypeOK' /\ DocumentDomains'
  BY <1>1, <1>2, <1>3 DEF DocInv, DocumentTypeOK, DocumentDomains, Missed
<1>5. PapersFit'
  BY <1>2, <1>3 DEF DocInv, PapersFit, Replaces, DocumentTypeOK, Paper
<1>6. FilesApart'
  <2>1. \A e \in Documents : ~Claims(f, e)
    BY <1>2, AttachableFree
  <2>2. ASSUME NEW g \in Uploads, NEW e \in Documents, Claims(g, e)', ~Claims(g, e)
        PROVE  g = f /\ e = d
    BY <1>1, <1>2, <1>3, <2>2 DEF Claims
  <2> QED BY <2>1, <2>2, ApartKept DEF DocInv
<1>7. SweepSees' /\ OpinionsFit' /\ DocumentFileKept'
  BY <1>1, <1>2, <1>3 DEF DocInv, SweepSees, OpinionsFit, DocumentFileKept, Missed
<1> QED BY <1>4, <1>5, <1>6, <1>7 DEF DocInv

\* ListDocuments, DayPasses
LEMMA RowsInv ==
    ASSUME DocInv, ListDocuments \/ \E d \in Documents : DayPasses(d) PROVE DocInv'
<1>1. CASE ListDocuments
  <2>1. ASSUME NEW d \in Documents, portfolio'[d] # portfolio[d]
        PROVE  /\ portfolio[d] # Absent /\ portfolio'[d] \in Document
               /\ portfolio'[d].file = portfolio[d].file
    <3>1. /\ portfolio'[d] = [Refreshed(portfolio[d]) EXCEPT !.updated = clock]
          /\ portfolio[d] # Absent
      BY <1>1, <2>1 DEF ListDocuments, Active
    <3>2. portfolio[d] \in Document /\ clock \in 0 .. MaxClock
      BY <3>1 DEF DocInv, DocumentTypeOK
    <3>3. Refreshed(portfolio[d]) \in Document /\ Refreshed(portfolio[d]).file = portfolio[d].file
      BY <3>2, RefreshedType
    <3> QED BY <3>1, <3>2, <3>3 DEF Document
  <2>2. /\ UNCHANGED <<opinion, stored, recent, clock, paper, sweeping, used, dropped, unseen>>
        /\ DOMAIN portfolio' = Documents
    BY <1>1 DEF ListDocuments
  <2> QED BY <2>1, <2>2, RowsKeepFiles
<1>2. ASSUME NEW d \in Documents, DayPasses(d) PROVE DocInv'
  <2>1. portfolio[d] # Absent /\ portfolio[d] \in Document
    BY <1>2 DEF DocInv, DocumentTypeOK, DayPasses
  <2> DEFINE row == [portfolio[d] EXCEPT !.expiry = IF @ = "ahead" THEN "today" ELSE "past"]
  <2>2. row \in Document /\ row.file = portfolio[d].file
    BY <2>1 DEF Document, Expiry
  <2>3. /\ portfolio' = [portfolio EXCEPT ![d] = row]
        /\ UNCHANGED <<opinion, stored, recent, clock, paper, sweeping, used, dropped, unseen>>
    BY <1>2 DEF DayPasses, remnants
  <2> HIDE DEF row
  <2>4. /\ DOMAIN portfolio' = Documents /\ portfolio'[d] = row
        /\ \A e \in Documents \ {d} : portfolio'[e] = portfolio[e]
    BY <2>3 DEF DocInv, DocumentDomains
  <2> QED BY <2>1, <2>2, <2>3, <2>4, RowsKeepFiles
<1> QED BY <1>1, <1>2

\* A request begins, or learns something of its own.
LEMMA PaperInv ==
    ASSUME DocInv, NEW p \in PaperCalls, NEW c \in Paper, paper' = [paper EXCEPT ![p] = c],
           UNCHANGED <<portfolio, opinion, stored, recent, clock, sweeping, remnants>>,
           PapersFit',
           \/ c.new.file \in Attachable
           \/ Claims(c.new.file, c.document),
           Claims(c.seen.file, c.document)
    PROVE  DocInv'
<1>1. /\ paper'[p] = c /\ DOMAIN paper' = PaperCalls
      /\ \A q \in PaperCalls \ {p} : paper'[q] = paper[q]
  BY DEF DocInv, DocumentDomains
<1>2. UNCHANGED <<used, dropped, unseen>>
  BY DEF remnants
<1>3. DocumentTypeOK' /\ DocumentDomains'
  BY <1>1, <1>2 DEF DocInv, DocumentTypeOK, DocumentDomains
<1>4. FilesApart'
  <2>1. ASSUME NEW f \in Uploads, NEW e \in Documents, Claims(f, e)', ~Claims(f, e)
        PROVE  f = c.new.file /\ e = c.document
    BY <1>1, <2>1 DEF Claims
  <2>2. CASE \A e \in Documents : ~Claims(c.new.file, e)
    BY <2>1, <2>2, ApartKept DEF DocInv
  <2>3. CASE Claims(c.new.file, c.document)
    BY <2>1, <2>3 DEF DocInv, FilesApart
  <2> QED BY <2>2, <2>3, AttachableFree
<1>5. SweepSees' /\ OpinionsFit' /\ DocumentFileKept'
  BY <1>2 DEF DocInv, SweepSees, OpinionsFit, DocumentFileKept
<1> QED BY <1>3, <1>4, <1>5 DEF DocInv

\* get_for_seeker
LEMMA ReadInv ==
    ASSUME DocInv, NEW p \in PaperCalls, NEW d \in Documents, Active(d),
           NEW op \in {"update", "archive", "comments", "verdict", "review"},
           NEW step \in {"write", "cleared"}, NEW a \in Advisors \cup {NoAdvisor},
           NEW new \in Document, NEW status \in DocumentStatus,
           ReadDocument(p, op, d, step, a, new, status),
           op = "review" => a \in Advisors,
           \/ new.file = portfolio[d].file
           \/ op = "update" /\ step = "cleared" /\ new.file \in Attachable
    PROVE  DocInv'
<1> DEFINE seen == Refreshed(portfolio[d])
           had == IF a = NoAdvisor THEN FALSE ELSE opinion[d][a] # NoOpinion
           lapsed == seen # portfolio[d]
           c == [op |-> op, step |-> step, document |-> d, seen |-> seen, new |-> new,
                 lapsed |-> lapsed, advisor |-> a, status |-> status, had |-> had,
                 cleared |-> {}, replaced |-> FALSE, late |-> {}, start |-> clock]
<1>1. portfolio[d] \in Document /\ portfolio[d] # Absent
  BY DEF Active, DocInv, DocumentTypeOK
<1>2. seen \in Document /\ seen.file = portfolio[d].file
  BY <1>1, RefreshedType
<1>3. had \in BOOLEAN /\ lapsed \in BOOLEAN /\ clock \in 0 .. MaxClock
  BY DEF DocInv, DocumentTypeOK
<1>4. /\ paper' = [paper EXCEPT ![p] = c]
      /\ UNCHANGED <<portfolio, opinion, stored, recent, clock, sweeping, remnants>>
  BY DEF ReadDocument
<1> HIDE DEF seen, had, lapsed
<1>5. c \in Paper
  BY <1>2, <1>3 DEF Paper
<1>6. /\ c.document = d /\ c.seen = seen /\ c.new = new /\ c.op = op /\ c.step = step
      /\ c.advisor = a
  OBVIOUS
<1> HIDE DEF c
<1>7. paper'[p] = c /\ \A q \in PaperCalls \ {p} : paper'[q] = paper[q]
  BY <1>4 DEF DocInv, DocumentDomains
<1>8. PapersFit'
  <2>1. ASSUME NEW q \in PaperCalls \ {p}, paper[q] # NoPaper
        PROVE  Replaces(q)' <=> Replaces(q)
    BY <1>7 DEF Replaces
  <2>2. Replaces(p)' => op = "update" /\ step = "cleared"
    BY <1>2, <1>6, <1>7 DEF Replaces
  <2> QED BY <1>1, <1>2, <1>4, <1>6, <1>7, <2>1, <2>2 DEF DocInv, PapersFit
<1>9. Claims(c.seen.file, c.document) /\ (new.file = portfolio[d].file => Claims(c.new.file, c.document))
  BY <1>1, <1>2, <1>6 DEF Claims
<1> QED BY <1>4, <1>5, <1>6, <1>8, <1>9, PaperInv

\* ReadForUpdate, ReadForChange, ReadForReview
LEMMA ReadsInv ==
    ASSUME DocInv, NEW p \in PaperCalls, NEW d \in Documents,
           \/ \E expiry \in {"kept", "clear", "set"}, f \in Uploads \cup {NoUpload} :
                ReadForUpdate(p, d, expiry, f)
           \/ \E op \in {"archive", "comments", "verdict"}, s \in DocumentStatus :
                ReadForChange(p, d, op, s)
           \/ \E a \in Advisors, s \in DocumentStatus : ReadForReview(p, d, a, s)
    PROVE  DocInv'
<1>1. Active(d)
  BY DEF ReadForUpdate, ReadForChange, ReadForReview
<1>2. /\ portfolio[d] \in Document
      /\ Refreshed(portfolio[d]) \in Document /\ Refreshed(portfolio[d]).file = portfolio[d].file
  BY <1>1, RefreshedType DEF Active, DocInv, DocumentTypeOK
<1>3. PICK row \in Document : row = Refreshed(portfolio[d])
  BY <1>2
<1>4. row.file = portfolio[d].file /\ row.file \in Uploads /\ row.status \in DocumentStatus
  BY <1>2, <1>3 DEF Document
<1>5. ASSUME NEW expiry \in {"kept", "clear", "set"}, NEW f \in Uploads \cup {NoUpload},
             ReadForUpdate(p, d, expiry, f)
      PROVE  DocInv'
  <2> DEFINE step == IF Clears(row, expiry, f) THEN "cleared" ELSE "write"
  <2>1. PICK new \in Document : /\ new = Amended(row, expiry, f)
                                /\ new.file = IF f = NoUpload THEN row.file ELSE f
    BY AmendedType
  <2>2. f \in Attachable \cup {NoUpload} /\ (f # NoUpload => step = "cleared")
    BY <1>3, <1>5 DEF ReadForUpdate, Clears
  <2>3. ReadDocument(p, "update", d, step, NoAdvisor, new, row.status)
    BY <1>3, <1>5, <2>1 DEF ReadForUpdate
  <2>4. step \in {"write", "cleared"}
    OBVIOUS
  <2> HIDE DEF step
  <2> QED BY <1>1, <1>4, <2>1, <2>2, <2>3, <2>4, ReadInv
<1>6. ASSUME NEW op \in {"archive", "comments", "verdict"}, NEW s \in DocumentStatus,
             ReadForChange(p, d, op, s)
      PROVE  DocInv'
  <2> DEFINE new == [row EXCEPT !.by = NoAdvisor, !.status = s, !.archived = op = "archive"]
  <2>1. new \in Document /\ new.file = row.file
    BY DEF Document
  <2>2. ReadDocument(p, op, d, "write", NoAdvisor, new, s)
    BY <1>3, <1>6 DEF ReadForChange
  <2> HIDE DEF new
  <2> QED BY <1>1, <1>4, <2>1, <2>2, ReadInv
<1>7. ASSUME NEW a \in Advisors, NEW s \in DocumentStatus, ReadForReview(p, d, a, s)
      PROVE  DocInv'
  <2> DEFINE new == IF s = "under_review" THEN row ELSE [row EXCEPT !.by = a]
  <2>1. new \in Document /\ new.file = row.file
    BY DEF Document
  <2>2. ReadDocument(p, "review", d, "write", a, new, s)
    BY <1>3, <1>7 DEF ReadForReview
  <2> HIDE DEF new
  <2> QED BY <1>1, <1>4, <2>1, <2>2, ReadInv
<1> QED BY <1>5, <1>6, <1>7

\* ClearOpinions
LEMMA ClearInv == ASSUME DocInv, NEW p \in PaperCalls, ClearOpinions(p) PROVE DocInv'
<1>1. paper[p] # NoPaper /\ paper[p].op = "update"
  BY DEF ClearOpinions, NoPaper
<1>2. paper[p] \in Paper
  BY <1>1 DEF DocInv, DocumentTypeOK
<1> DEFINE gone == {a \in Advisors : opinion[paper[p].document][a] # NoOpinion}
           c == [paper[p] EXCEPT !.step = "write", !.cleared = gone]
<1>3. paper' = [paper EXCEPT ![p] = c]
  BY DEF ClearOpinions
<1>4. UNCHANGED <<portfolio, opinion, stored, recent, clock, sweeping, remnants>>
  BY DEF ClearOpinions
<1> HIDE DEF gone
<1>5. gone \subseteq Advisors
  BY DEF gone
<1>6. /\ c \in Paper /\ c.op = "update" /\ c.cleared = gone /\ c.seen = paper[p].seen
      /\ c.new = paper[p].new /\ c.document = paper[p].document /\ c.replaced = paper[p].replaced
  BY <1>1, <1>2, <1>5 DEF Paper
<1> HIDE DEF c
<1>7. paper'[p] = c /\ \A q \in PaperCalls \ {p} : paper'[q] = paper[q]
  BY <1>3 DEF DocInv, DocumentDomains
<1>8. PapersFit'
  <2>1. \A q \in PaperCalls : Replaces(q)' <=> Replaces(q)
    BY <1>6, <1>7 DEF Replaces
  <2> QED BY <1>1, <1>4, <1>6, <1>7, <2>1 DEF DocInv, PapersFit, gone
<1>9. Claims(c.seen.file, c.document) /\ Claims(c.new.file, c.document)
  BY <1>1, <1>6 DEF Claims
<1> QED BY <1>3, <1>4, <1>6, <1>8, <1>9, PaperInv

\* LoseReplacement, PaperRollBack
LEMMA RollBackInv ==
    ASSUME DocInv, NEW p \in PaperCalls, LoseReplacement(p) \/ PaperRollBack(p) PROVE DocInv'
<1>1. /\ paper[p] # NoPaper /\ paper' = [paper EXCEPT ![p] = NoPaper]
      /\ UNCHANGED <<portfolio, opinion, recent, clock, sweeping, used, unseen>>
      /\ stored' \subseteq stored /\ dropped \subseteq dropped' /\ stored \subseteq stored' \cup dropped'
  BY DEF LoseReplacement, PaperRollBack, remnants
<1>2. /\ paper'[p] = NoPaper /\ DOMAIN paper' = PaperCalls
      /\ \A q \in PaperCalls \ {p} : paper'[q] = paper[q]
  BY <1>1 DEF DocInv, DocumentDomains
<1>3. dropped' \subseteq Uploads
  <2>1. paper[p].seen.file \in Uploads
    BY <1>1 DEF DocInv, DocumentTypeOK, Paper, Document
  <2> QED BY <2>1 DEF DocInv, DocumentTypeOK, LoseReplacement, PaperRollBack, remnants
<1>4. DocumentTypeOK' /\ DocumentDomains'
  BY <1>1, <1>2, <1>3 DEF DocInv, DocumentTypeOK, DocumentDomains
<1>5. PapersFit'
  BY <1>1, <1>2 DEF DocInv, PapersFit, Replaces
<1>6. FilesApart'
  <2>1. ASSUME NEW f \in Uploads, NEW d \in Documents, Claims(f, d)' PROVE Claims(f, d)
    BY <1>1, <1>2, <2>1 DEF Claims
  <2> QED BY <2>1 DEF DocInv, FilesApart
<1>7. SweepSees' /\ OpinionsFit' /\ DocumentFileKept'
  BY <1>1 DEF DocInv, SweepSees, OpinionsFit, DocumentFileKept
<1> QED BY <1>4, <1>5, <1>6, <1>7 DEF DocInv

\* What a request that writes means for the others on the same document
LEMMA PapersAfterType ==
    ASSUME DocInv, NEW p \in PaperCalls, paper[p] # NoPaper, paper' = PapersAfter(p)
    PROVE  /\ paper'[p] = NoPaper /\ DOMAIN paper' = PaperCalls
           /\ \A q \in PaperCalls : paper'[q] # NoPaper =>
                 /\ q # p /\ paper[q] # NoPaper /\ paper'[q] \in Paper /\ paper[q] \in Paper
                 /\ paper'[q].document = paper[q].document /\ paper'[q].seen = paper[q].seen
                 /\ paper'[q].new = paper[q].new /\ paper'[q].op = paper[q].op
                 /\ paper'[q].step = paper[q].step /\ paper'[q].cleared = paper[q].cleared
                 /\ paper'[q].advisor = paper[q].advisor
                 /\ paper[q].document # paper[p].document => paper'[q] = paper[q]
                 /\ paper[q].document = paper[p].document =>
                       /\ paper'[q].replaced = (paper[q].replaced \/ Replaces(p))
                       /\ paper'[q].late = IF paper[p].op = "review"
                                           THEN paper[q].late \cup {paper[p].advisor}
                                           ELSE paper[q].late
           /\ \A q \in PaperCalls : paper'[q] = NoPaper \/ paper'[q] \in Paper
<1>1. paper'[p] = NoPaper /\ DOMAIN paper' = PaperCalls
  BY DEF PapersAfter
<1>2. paper[p].op = "review" => paper[p].advisor \in Advisors
  BY DEF DocInv, PapersFit
<1>3. ASSUME NEW q \in PaperCalls, paper'[q] # NoPaper
      PROVE  /\ q # p /\ paper[q] # NoPaper /\ paper[q] \in Paper
             /\ paper'[q] = IF paper[q].document # paper[p].document THEN paper[q]
                            ELSE [paper[q] EXCEPT !.replaced = @ \/ Replaces(p),
                                    !.late = IF paper[p].op = "review" THEN @ \cup {paper[p].advisor}
                                             ELSE @]
  BY <1>3 DEF PapersAfter, DocInv, DocumentTypeOK
<1>4. Replaces(p) \in BOOLEAN
  BY DEF Replaces
<1>5. ASSUME NEW q \in PaperCalls, paper'[q] # NoPaper,
             paper[q].document = paper[p].document
      PROVE  /\ paper'[q] \in Paper
             /\ paper'[q].document = paper[q].document /\ paper'[q].seen = paper[q].seen
             /\ paper'[q].new = paper[q].new /\ paper'[q].op = paper[q].op
             /\ paper'[q].step = paper[q].step /\ paper'[q].cleared = paper[q].cleared
             /\ paper'[q].advisor = paper[q].advisor
             /\ paper'[q].replaced = (paper[q].replaced \/ Replaces(p))
             /\ paper'[q].late = IF paper[p].op = "review" THEN paper[q].late \cup {paper[p].advisor}
                                 ELSE paper[q].late
  <2> DEFINE late == IF paper[p].op = "review" THEN paper[q].late \cup {paper[p].advisor}
                     ELSE paper[q].late
             replaced == paper[q].replaced \/ Replaces(p)
  <2>1. paper[q] \in Paper
    BY <1>3, <1>5
  <2>2. late \in SUBSET Advisors /\ replaced \in BOOLEAN
    BY <1>2, <1>4, <2>1 DEF Paper
  <2>3. paper'[q] = [paper[q] EXCEPT !.replaced = replaced, !.late = late]
    BY <1>3, <1>5
  <2> HIDE DEF late, replaced
  <2>4. /\ paper'[q] \in Paper
        /\ paper'[q].document = paper[q].document /\ paper'[q].seen = paper[q].seen
        /\ paper'[q].new = paper[q].new /\ paper'[q].op = paper[q].op
        /\ paper'[q].step = paper[q].step /\ paper'[q].cleared = paper[q].cleared
        /\ paper'[q].advisor = paper[q].advisor
        /\ paper'[q].replaced = replaced /\ paper'[q].late = late
    BY <2>1, <2>2, <2>3 DEF Paper
  <2> QED BY <2>4 DEF late, replaced
<1>6. ASSUME NEW q \in PaperCalls, paper'[q] # NoPaper,
             paper[q].document # paper[p].document
      PROVE  paper'[q] = paper[q] /\ paper'[q] \in Paper
  BY <1>3, <1>6
<1> QED BY <1>1, <1>3, <1>5, <1>6

\* After a write of the row of p's document, the documents claim no files but those they did.
LEMMA WriteApart ==
    ASSUME DocInv, NEW p \in PaperCalls, paper[p] # NoPaper, paper' = PapersAfter(p),
           \A e \in Documents \ {paper[p].document} : portfolio'[e] = portfolio[e],
           portfolio'[paper[p].document].file \in
              {portfolio[paper[p].document].file, paper[p].new.file}
    PROVE  FilesApart'
<1>1. ASSUME NEW f \in Uploads, NEW e \in Documents, Claims(f, e)' PROVE Claims(f, e)
  <2>1. CASE \E q \in PaperCalls : /\ paper'[q] # NoPaper /\ paper'[q].document = e
                                   /\ f \in {paper'[q].seen.file, paper'[q].new.file}
    <3>1. PICK q \in PaperCalls : /\ paper'[q] # NoPaper /\ paper'[q].document = e
                                  /\ f \in {paper'[q].seen.file, paper'[q].new.file}
      BY <2>1
    <3>2. /\ paper[q] # NoPaper /\ paper'[q].document = paper[q].document
          /\ paper'[q].seen = paper[q].seen /\ paper'[q].new = paper[q].new
      BY <3>1, PapersAfterType
    <3> QED BY <3>1, <3>2 DEF Claims
  <2>2. CASE portfolio'[e] # Absent /\ portfolio'[e].file = f
    <3>1. CASE e = paper[p].document
      <4>1. portfolio[e] # Absent
        BY <3>1 DEF DocInv, PapersFit
      <4> QED BY <2>2, <3>1, <4>1 DEF Claims
    <3>2. CASE e # paper[p].document
      BY <2>2, <3>2 DEF Claims
    <3> QED BY <3>1, <3>2
  <2> QED BY <1>1, <2>1, <2>2 DEF Claims
<1> QED BY <1>1 DEF DocInv, FilesApart

\* WriteDocument
LEMMA WriteDocumentInv == ASSUME DocInv, NEW p \in PaperCalls, WriteDocument(p) PROVE DocInv'
<1> DEFINE d == paper[p].document
<1>1. /\ paper[p] # NoPaper /\ paper[p].op # "review" /\ paper[p].step = "write"
      /\ portfolio' = [portfolio EXCEPT ![d] = RowAfter(p)]
      /\ opinion' = [opinion EXCEPT ![d] = [a \in Advisors |-> IF a \in paper[p].cleared
                                                               THEN NoOpinion ELSE @[a]]]
      /\ stored' \in {stored} \cup (IF Replaces(p) THEN {stored \ {paper[p].seen.file}} ELSE {})
      /\ dropped' = IF Replaces(p) THEN Missed(paper[p].new.file) ELSE dropped
      /\ unseen' = IF Replaces(p) THEN unseen \cup ({d} \X paper[p].late) ELSE unseen
      /\ paper' = PapersAfter(p)
      /\ UNCHANGED <<recent, clock, sweeping, used>>
  BY DEF WriteDocument
<1>2. /\ RowAfter(p) \in Document /\ paper[p] \in Paper
      /\ RowAfter(p).file = IF Replaces(p) THEN paper[p].new.file ELSE portfolio[d].file
      /\ portfolio[d] \in Document /\ d \in Documents
  BY <1>1, RowAfterType DEF Paper
<1>3. /\ paper[p].new.file \in Uploads /\ paper[p].seen.file \in Uploads
      /\ paper[p].late \subseteq Advisors /\ paper[p].cleared \subseteq Advisors
  BY <1>2 DEF Paper, Document
<1>4. PICK row \in Document : row = RowAfter(p)
  BY <1>2
<1>5. /\ portfolio'[d] = row /\ row # Absent /\ portfolio[d] # Absent
      /\ \A e \in Documents \ {d} : portfolio'[e] = portfolio[e]
      /\ DOMAIN portfolio' = Documents
  BY <1>1, <1>2, <1>4, DocumentThere DEF DocInv, DocumentDomains
<1>6. /\ DOMAIN opinion' = Documents /\ \A e \in Documents : DOMAIN opinion'[e] = Advisors
      /\ \A e \in Documents \ {d} : opinion'[e] = opinion[e]
      /\ \A a \in Advisors : opinion'[d][a] = IF a \in paper[p].cleared THEN NoOpinion
                                              ELSE opinion[d][a]
  BY <1>1, <1>2 DEF DocInv, DocumentDomains
<1>7. stored' \subseteq stored /\ dropped \subseteq dropped' /\ dropped' \subseteq Uploads
  BY <1>1, <1>3 DEF Missed, DocInv, DocumentTypeOK
<1>8. unseen \subseteq unseen' /\ unseen' \subseteq Documents \X Advisors
  BY <1>1, <1>2, <1>3 DEF DocInv, DocumentTypeOK
<1>9. \A q \in PaperCalls : paper'[q] = NoPaper \/ paper'[q] \in Paper
  BY <1>1, PapersAfterType
<1>10. DocumentTypeOK'
  <2>1. \A e \in Documents : portfolio'[e] = Absent \/ portfolio'[e] \in Document
    BY <1>5 DEF DocInv, DocumentTypeOK
  <2>2. \A e \in Documents, a \in Advisors : opinion'[e][a] = NoOpinion \/ opinion'[e][a] \in Opinion
    BY <1>6 DEF DocInv, DocumentTypeOK
  <2> QED BY <1>1, <1>7, <1>8, <1>9, <2>1, <2>2 DEF DocInv, DocumentTypeOK
<1>11. DocumentDomains'
  BY <1>1, <1>5, <1>6, PapersAfterType DEF DocumentDomains
<1>12. PapersFit'
  <2> SUFFICES ASSUME NEW q \in PaperCalls, paper'[q] # NoPaper
               PROVE  /\ portfolio'[paper'[q].document] # Absent
                      /\ ~paper'[q].replaced => paper'[q].seen.file = portfolio'[paper'[q].document].file
                      /\ paper'[q].op = "review" => paper'[q].advisor \in Advisors
                      /\ Replaces(q)' => paper'[q].op = "update"
                      /\ Replaces(q)' /\ paper'[q].step = "write" =>
                            \A a \in Advisors : opinion'[paper'[q].document][a] # NoOpinion =>
                                                   a \in paper'[q].cleared \cup paper'[q].late
    BY DEF PapersFit
  <2>1. /\ paper[q] # NoPaper /\ paper'[q].document = paper[q].document /\ paper'[q].seen = paper[q].seen
        /\ paper'[q].new = paper[q].new /\ paper'[q].op = paper[q].op /\ paper[q] \in Paper
        /\ paper'[q].step = paper[q].step /\ paper'[q].cleared = paper[q].cleared
        /\ paper'[q].advisor = paper[q].advisor
        /\ paper[q].document # d => paper'[q] = paper[q]
        /\ paper[q].document = d => /\ paper'[q].replaced = (paper[q].replaced \/ Replaces(p))
                                    /\ paper'[q].late = paper[q].late
    <3>1. /\ paper[q] # NoPaper /\ paper[q] \in Paper
          /\ paper'[q].document = paper[q].document /\ paper'[q].seen = paper[q].seen
          /\ paper'[q].new = paper[q].new /\ paper'[q].op = paper[q].op
          /\ paper'[q].step = paper[q].step /\ paper'[q].cleared = paper[q].cleared
          /\ paper'[q].advisor = paper[q].advisor
      BY <1>1, PapersAfterType
    <3>2. /\ paper[q].document # paper[p].document => paper'[q] = paper[q]
          /\ paper[q].document = paper[p].document =>
                /\ paper'[q].replaced = (paper[q].replaced \/ Replaces(p))
                /\ paper'[q].late = IF paper[p].op = "review" THEN paper[q].late \cup {paper[p].advisor}
                                    ELSE paper[q].late
      BY <1>1, PapersAfterType
    <3> HIDE DEF d
    <3>3. paper[p].op # "review" /\ paper[p].document = d
      BY <1>1 DEF d
    <3> QED BY <3>1, <3>2, <3>3
  <2>2. /\ portfolio[paper[q].document] # Absent
        /\ ~paper[q].replaced => paper[q].seen.file = portfolio[paper[q].document].file
        /\ paper[q].op = "review" => paper[q].advisor \in Advisors
        /\ Replaces(q) => paper[q].op = "update"
        /\ Replaces(q) /\ paper[q].step = "write" =>
              \A a \in Advisors : opinion[paper[q].document][a] # NoOpinion =>
                                     a \in paper[q].cleared \cup paper[q].late
    BY <2>1 DEF DocInv, PapersFit
  <2>3. Replaces(q)' <=> Replaces(q)
    BY <2>1 DEF Replaces
  <2>4. paper[q].document \in Documents
    BY <2>1 DEF Paper
  <2>5. CASE paper[q].document = d
    <3>1. ~paper'[q].replaced => paper'[q].seen.file = portfolio'[d].file
      BY <1>2, <1>4, <1>5, <2>1, <2>2, <2>5
    <3>2. \A a \in Advisors : opinion'[d][a] # NoOpinion => opinion[d][a] # NoOpinion
      BY <1>6
    <3> QED BY <1>5, <2>1, <2>2, <2>3, <2>5, <3>1, <3>2
  <2>6. CASE paper[q].document # d
    BY <1>5, <1>6, <2>1, <2>2, <2>3, <2>4, <2>6
  <2> QED BY <2>5, <2>6
<1>13. FilesApart'
  BY <1>1, <1>2, <1>4, <1>5, WriteApart
<1>14. SweepSees'
  <2> SUFFICES ASSUME sweeping.running, NEW e \in Documents, portfolio'[e] # Absent
               PROVE  portfolio'[e].file \in sweeping.found \cup dropped'
    BY <1>1 DEF SweepSees
  <2>1. CASE e = d /\ Replaces(p)
    BY <1>1, <1>2, <1>4, <1>5, <2>1 DEF Missed
  <2>2. CASE ~(e = d /\ Replaces(p))
    <3>1. portfolio[e] # Absent /\ portfolio'[e].file = portfolio[e].file
      BY <1>2, <1>4, <1>5, <2>2
    <3> QED BY <1>7, <3>1 DEF DocInv, SweepSees
  <2> QED BY <2>1, <2>2
<1>15. OpinionsFit'
  <2> SUFFICES ASSUME NEW e \in Documents, NEW a \in Advisors, opinion'[e][a] # NoOpinion
               PROVE  /\ portfolio'[e] # Absent
                      /\ <<e, a>> \notin unseen' => opinion'[e][a].file = portfolio'[e].file
    BY DEF OpinionsFit
  <2>1. /\ opinion[e][a] # NoOpinion /\ opinion'[e][a] = opinion[e][a]
        /\ e = d => a \notin paper[p].cleared
    BY <1>6
  <2>2. /\ portfolio[e] # Absent
        /\ <<e, a>> \notin unseen => opinion[e][a].file = portfolio[e].file
    BY <2>1 DEF DocInv, OpinionsFit
  <2>3. CASE e = d /\ Replaces(p)
    <3>1. a \in paper[p].late
      BY <1>1, <2>1, <2>3 DEF DocInv, PapersFit
    <3>2. <<e, a>> \in unseen'
      BY <1>1, <2>3, <3>1
    <3> QED BY <1>5, <2>3, <3>2
  <2>4. CASE ~(e = d /\ Replaces(p))
    <3>1. portfolio'[e] # Absent /\ portfolio'[e].file = portfolio[e].file
      BY <1>2, <1>4, <1>5, <2>2, <2>4
    <3> QED BY <1>8, <2>1, <2>2, <3>1
  <2> QED BY <2>3, <2>4
<1>16. DocumentFileKept'
  <2> SUFFICES ASSUME NEW e \in Documents, portfolio'[e] # Absent
               PROVE  portfolio'[e].file \in stored' \cup dropped'
    BY DEF DocumentFileKept
  <2>1. CASE e = d /\ Replaces(p)
    <3>1. portfolio'[e].file = paper[p].new.file /\ paper[p].new.file # paper[p].seen.file
      BY <1>2, <1>4, <1>5, <2>1 DEF Replaces
    <3> QED BY <1>1, <2>1, <3>1 DEF Missed
  <2>2. CASE ~(e = d /\ Replaces(p))
    <3>1. portfolio[e] # Absent /\ portfolio'[e].file = portfolio[e].file
      BY <1>2, <1>4, <1>5, <2>2
    <3>2. portfolio[e].file \in stored \cup dropped /\ portfolio[e].file \in Uploads
      BY <3>1 DEF DocInv, DocumentFileKept, DocumentTypeOK, Document
    <3>3. Replaces(p) => portfolio[e].file # paper[p].seen.file
      <4>1. Claims(portfolio[e].file, e)
        BY <3>1 DEF Claims
      <4>2. Claims(paper[p].seen.file, d)
        BY <1>1 DEF Claims
      <4> QED BY <1>2, <1>3, <2>2, <4>1, <4>2 DEF DocInv, FilesApart
    <3> QED BY <1>1, <1>7, <3>1, <3>2, <3>3
  <2> QED BY <2>1, <2>2
<1> QED BY <1>10, <1>11, <1>12, <1>13, <1>14, <1>15, <1>16 DEF DocInv

\* WriteReview
LEMMA WriteReviewInv == ASSUME DocInv, NEW p \in PaperCalls, WriteReview(p) PROVE DocInv'
<1> DEFINE d == paper[p].document
           a == paper[p].advisor
           given == [status |-> paper[p].status, reviewed |-> clock, file |-> paper[p].seen.file]
<1>1. /\ paper[p] # NoPaper /\ paper[p].op = "review"
      /\ \/ opinion' = [opinion EXCEPT ![d] = [b \in Advisors |-> NoOpinion]]
         \/ opinion' = [opinion EXCEPT ![d][a] = given]
      /\ \/ portfolio' = [portfolio EXCEPT ![d] = RowAfter(p)]
         \/ portfolio' = portfolio
      /\ unseen' = IF paper[p].replaced THEN unseen \cup {<<d, a>>} ELSE unseen \ {<<d, a>>}
      /\ paper' = PapersAfter(p)
      /\ UNCHANGED <<stored, recent, clock, sweeping, used, dropped>>
  BY DEF WriteReview
<1>2. /\ RowAfter(p) \in Document /\ paper[p] \in Paper
      /\ RowAfter(p).file = IF Replaces(p) THEN paper[p].new.file ELSE portfolio[d].file
      /\ portfolio[d] \in Document /\ d \in Documents
  BY <1>1, RowAfterType DEF Paper
<1>3. ~Replaces(p) /\ a \in Advisors /\ (~paper[p].replaced => paper[p].seen.file = portfolio[d].file)
  BY <1>1 DEF DocInv, PapersFit
<1>4. given \in Opinion /\ given # NoOpinion /\ given.file = paper[p].seen.file
  <2>1. given \in Opinion
    BY <1>2 DEF Opinion, Paper, Document, DocInv, DocumentTypeOK
  <2> HIDE DEF given
  <2> QED BY <2>1, PaperThere DEF given
<1> HIDE DEF given
<1>5. /\ portfolio'[d] \in Document /\ portfolio'[d].file = portfolio[d].file
      /\ portfolio'[d] # Absent /\ portfolio[d] # Absent
      /\ \A e \in Documents \ {d} : portfolio'[e] = portfolio[e]
      /\ DOMAIN portfolio' = Documents
  <2>1. CASE portfolio' = portfolio
    BY <1>2, <2>1, DocumentThere DEF DocInv, DocumentDomains
  <2>2. CASE portfolio' = [portfolio EXCEPT ![d] = RowAfter(p)]
    <3>1. PICK row \in Document : row = RowAfter(p)
      BY <1>2
    <3> QED BY <1>2, <1>3, <2>2, <3>1, DocumentThere DEF DocInv, DocumentDomains
  <2> QED BY <1>1, <2>1, <2>2
<1>6. /\ DOMAIN opinion' = Documents /\ \A e \in Documents : DOMAIN opinion'[e] = Advisors
      /\ \A e \in Documents \ {d} : opinion'[e] = opinion[e]
      /\ \A b \in Advisors : opinion'[d][b] = NoOpinion \/ opinion'[d][b] = opinion[d][b]
                               \/ (b = a /\ opinion'[d][b] = given)
  <2>1. CASE opinion' = [opinion EXCEPT ![d] = [b \in Advisors |-> NoOpinion]]
    BY <1>2, <2>1 DEF DocInv, DocumentDomains
  <2>2. CASE opinion' = [opinion EXCEPT ![d][a] = given]
    BY <1>2, <1>3, <2>2 DEF DocInv, DocumentDomains
  <2> QED BY <1>1, <2>1, <2>2
<1>7. \A b \in Advisors : b # a =>
         opinion'[d][b] = NoOpinion \/ opinion'[d][b] = opinion[d][b]
  BY <1>6
<1>8. unseen' \subseteq Documents \X Advisors
  BY <1>1, <1>2, <1>3 DEF DocInv, DocumentTypeOK
<1>9. \A q \in PaperCalls : paper'[q] = NoPaper \/ paper'[q] \in Paper
  BY <1>1, PapersAfterType
<1>10. DocumentTypeOK'
  <2>1. \A e \in Documents : portfolio'[e] = Absent \/ portfolio'[e] \in Document
    BY <1>5 DEF DocInv, DocumentTypeOK
  <2>2. \A e \in Documents, b \in Advisors : opinion'[e][b] = NoOpinion \/ opinion'[e][b] \in Opinion
    BY <1>4, <1>6 DEF DocInv, DocumentTypeOK
  <2> QED BY <1>1, <1>8, <1>9, <2>1, <2>2 DEF DocInv, DocumentTypeOK
<1>11. DocumentDomains'
  BY <1>1, <1>5, <1>6, PapersAfterType DEF DocumentDomains
<1>12. PapersFit'
  <2> SUFFICES ASSUME NEW q \in PaperCalls, paper'[q] # NoPaper
               PROVE  /\ portfolio'[paper'[q].document] # Absent
                      /\ ~paper'[q].replaced => paper'[q].seen.file = portfolio'[paper'[q].document].file
                      /\ paper'[q].op = "review" => paper'[q].advisor \in Advisors
                      /\ Replaces(q)' => paper'[q].op = "update"
                      /\ Replaces(q)' /\ paper'[q].step = "write" =>
                            \A b \in Advisors : opinion'[paper'[q].document][b] # NoOpinion =>
                                                   b \in paper'[q].cleared \cup paper'[q].late
    BY DEF PapersFit
  <2>1. /\ paper[q] # NoPaper /\ paper'[q].document = paper[q].document /\ paper'[q].seen = paper[q].seen
        /\ paper'[q].new = paper[q].new /\ paper'[q].op = paper[q].op /\ paper[q] \in Paper
        /\ paper'[q].step = paper[q].step /\ paper'[q].cleared = paper[q].cleared
        /\ paper'[q].advisor = paper[q].advisor
        /\ paper[q].document # d => paper'[q] = paper[q]
        /\ paper[q].document = d => /\ paper'[q].replaced = (paper[q].replaced \/ Replaces(p))
                                    /\ paper'[q].late = paper[q].late \cup {a}
    <3>1. /\ paper[q] # NoPaper /\ paper[q] \in Paper
          /\ paper'[q].document = paper[q].document /\ paper'[q].seen = paper[q].seen
          /\ paper'[q].new = paper[q].new /\ paper'[q].op = paper[q].op
          /\ paper'[q].step = paper[q].step /\ paper'[q].cleared = paper[q].cleared
          /\ paper'[q].advisor = paper[q].advisor
      BY <1>1, PapersAfterType
    <3>2. /\ paper[q].document # paper[p].document => paper'[q] = paper[q]
          /\ paper[q].document = paper[p].document =>
                /\ paper'[q].replaced = (paper[q].replaced \/ Replaces(p))
                /\ paper'[q].late = IF paper[p].op = "review" THEN paper[q].late \cup {paper[p].advisor}
                                    ELSE paper[q].late
      BY <1>1, PapersAfterType
    <3> HIDE DEF d, a
    <3>3. paper[p].op = "review" /\ paper[p].document = d /\ paper[p].advisor = a
      BY <1>1 DEF d, a
    <3> QED BY <3>1, <3>2, <3>3
  <2>2. /\ portfolio[paper[q].document] # Absent
        /\ ~paper[q].replaced => paper[q].seen.file = portfolio[paper[q].document].file
        /\ paper[q].op = "review" => paper[q].advisor \in Advisors
        /\ Replaces(q) => paper[q].op = "update"
        /\ Replaces(q) /\ paper[q].step = "write" =>
              \A b \in Advisors : opinion[paper[q].document][b] # NoOpinion =>
                                     b \in paper[q].cleared \cup paper[q].late
    BY <2>1 DEF DocInv, PapersFit
  <2>3. Replaces(q)' <=> Replaces(q)
    BY <2>1 DEF Replaces
  <2>4. paper[q].document \in Documents
    BY <2>1 DEF Paper
  <2>5. CASE paper[q].document = d
    <3>1. ~paper'[q].replaced => paper'[q].seen.file = portfolio'[d].file
      BY <1>3, <1>5, <2>1, <2>2, <2>5
    <3>2. \A b \in Advisors : opinion'[d][b] # NoOpinion => opinion[d][b] # NoOpinion \/ b = a
      BY <1>7
    <3>3. Replaces(q) /\ paper[q].step = "write" =>
              \A b \in Advisors : opinion'[d][b] # NoOpinion =>
                                     b \in paper'[q].cleared \cup paper'[q].late
      BY <2>1, <2>2, <2>5, <3>2
    <3> QED BY <1>5, <2>1, <2>2, <2>3, <2>5, <3>1, <3>3
  <2>6. CASE paper[q].document # d
    BY <1>5, <1>6, <2>1, <2>2, <2>3, <2>4, <2>6
  <2> QED BY <2>5, <2>6
<1>13. FilesApart'
  BY <1>1, <1>5, WriteApart
<1>14. \A e \in Documents : /\ portfolio'[e] # Absent <=> portfolio[e] # Absent
                            /\ portfolio'[e].file = portfolio[e].file
  BY <1>5
<1>15. SweepSees' /\ DocumentFileKept'
  BY <1>1, <1>14 DEF DocInv, SweepSees, DocumentFileKept
<1>16. OpinionsFit'
  <2> SUFFICES ASSUME NEW e \in Documents, NEW b \in Advisors, opinion'[e][b] # NoOpinion
               PROVE  /\ portfolio'[e] # Absent
                      /\ <<e, b>> \notin unseen' => opinion'[e][b].file = portfolio'[e].file
    BY DEF OpinionsFit
  <2>1. CASE e = d /\ b = a
    <3>1. <<e, b>> \notin unseen' => ~paper[p].replaced
      BY <1>1, <2>1
    <3>2. ~paper[p].replaced => <<e, b>> \notin unseen'
      BY <1>1, <2>1
    <3>3. opinion'[e][b] = given \/ opinion'[d][a] = NoOpinion
      <4>1. CASE opinion' = [opinion EXCEPT ![d] = [c \in Advisors |-> NoOpinion]]
        BY <1>2, <1>3, <4>1 DEF DocInv, DocumentDomains
      <4>2. CASE opinion' = [opinion EXCEPT ![d][a] = given]
        BY <1>2, <1>3, <2>1, <4>2 DEF DocInv, DocumentDomains
      <4> QED BY <1>1, <4>1, <4>2
    <3> QED BY <1>3, <1>4, <1>5, <2>1, <3>1, <3>3
  <2>2. CASE ~(e = d /\ b = a)
    <3>1. opinion'[e][b] = opinion[e][b]
      BY <1>6, <1>7, <2>2
    <3>2. <<e, b>> \notin unseen' => <<e, b>> \notin unseen
      BY <1>1, <2>2
    <3>3. /\ portfolio[e] # Absent
          /\ <<e, b>> \notin unseen => opinion[e][b].file = portfolio[e].file
      BY <3>1 DEF DocInv, OpinionsFit
    <3> QED BY <1>14, <3>1, <3>2, <3>3
  <2> QED BY <2>1, <2>2
<1> QED BY <1>10, <1>11, <1>12, <1>13, <1>15, <1>16 DEF DocInv

\* No step of the portfolio breaks the inductive invariant.
LEMMA DocNextInv == DocInv /\ [DocumentNext]_documentVars => DocInv'
<1> SUFFICES ASSUME DocInv, [DocumentNext]_documentVars PROVE DocInv'
  OBVIOUS
<1>1. CASE UNCHANGED documentVars
  <2>1. UNCHANGED <<portfolio, opinion, stored, recent, clock, paper, sweeping, used, dropped, unseen>>
    BY <1>1 DEF documentVars, remnants
  <2>2. DOMAIN portfolio' = Documents
    BY <2>1 DEF DocInv, DocumentDomains
  <2> QED BY <2>1, <2>2, RowsKeepFiles
<1>2. CASE (\E f \in Uploads : Upload(f) \/ DeleteUpload(f)) \/ StartSweep \/ SweepUploads \/ Tick
  BY <1>2, FilesInv
<1>3. ASSUME NEW d \in Documents, NEW f \in Uploads, NEW expiry \in Expiry, Attach(d, f, expiry)
      PROVE  DocInv'
  BY <1>3, AttachInv
<1>4. CASE ListDocuments \/ \E d \in Documents : DayPasses(d)
  BY <1>4, RowsInv
<1>5. ASSUME NEW p \in PaperCalls, NEW d \in Documents,
             \/ \E expiry \in {"kept", "clear", "set"}, f \in Uploads \cup {NoUpload} :
                  ReadForUpdate(p, d, expiry, f)
             \/ \E op \in {"archive", "comments", "verdict"}, s \in DocumentStatus :
                  ReadForChange(p, d, op, s)
             \/ \E a \in Advisors, s \in DocumentStatus : ReadForReview(p, d, a, s)
      PROVE  DocInv'
  BY <1>5, ReadsInv
<1>6. ASSUME NEW p \in PaperCalls,
             \/ ClearOpinions(p) \/ WriteDocument(p) \/ LoseReplacement(p) \/ WriteReview(p)
             \/ PaperRollBack(p)
      PROVE  DocInv'
  BY <1>6, ClearInv, WriteDocumentInv, RollBackInv, WriteReviewInv
<1> QED BY <1>1, <1>2, <1>3, <1>4, <1>5, <1>6 DEF DocumentNext

\* However uploads, replacements, expiries, verdicts and sweeps interleave, and for every set
\* of documents, files, advisors and requests (seeker_document_service, upload_cleanup_service):
\* an approval that counts was given on the file the document has, unless the file was
\* replaced while it was being written, and every document has its file, unless it was
\* deleted under it by its owner, by a replacement that rolled back, or by a sweep that had
\* listed the documents before.
THEOREM PortfolioIsSound == DocumentSpec => []PortfolioSound
BY DocInitInv, DocNextInv, DocSound, PTL DEF DocumentSpec

-----------------------------------------------------------------------------
(* Payout requests                                                            *)

Amounts == [x \in Payouts |-> payout[x].amount]

\* The requests that neither raced another nor were overruled
Undisputed == Reserving \ (raced \cup overruled)

\* What stands is covered by what was ever earned, and with it what a request in progress
\* has found to be available, if nothing was inserted since it looked.
PayoutInv ==
    /\ PayoutTypeOK
    /\ \A e \in Earnings : earning[e].status = "succeeded" => e \in everPaid
    /\ \A c \in PayoutCalls : errand[c].op \in Decisions =>
          /\ errand[c].beside /\ errand[c].payout \in Payouts
          /\ payout[errand[c].payout].status # "absent"
    /\ TotalOf(Amounts, Undisputed) <= Worth * Cardinality(everPaid)
    /\ \A c \in PayoutCalls : errand[c].op = "request" /\ ~errand[c].beside =>
          errand[c].amount + TotalOf(Amounts, Undisputed) <= Worth * Cardinality(everPaid)

\* Sums of payouts
LEMMA SumOfIs == ASSUME NEW rows \in SUBSET Payouts PROVE SumOf(rows) = TotalOf(Amounts, rows)
<1> DEFINE w == [x \in rows |-> payout[x].amount]
<1>1. IsFiniteSet(rows)
  BY PayoutAssumption, FS_Subset
<1>2. PICK f : Sums(w, SUBSET rows, f)
  BY <1>1, SumsExist
<1> DEFINE Takes(g) == g = [s \in SUBSET rows |-> IF s = {} THEN 0
                            ELSE payout[CHOOSE x \in s : TRUE].amount + g[s \ {CHOOSE x \in s : TRUE}]]
<1>3. ASSUME NEW g PROVE Takes(g) <=> Sums(w, SUBSET rows, g)
  <2>1. ASSUME NEW s \in SUBSET rows
        PROVE  (IF s = {} THEN 0
                ELSE payout[CHOOSE x \in s : TRUE].amount + g[s \ {CHOOSE x \in s : TRUE}])
               = (IF s = {} THEN 0 ELSE w[CHOOSE x \in s : TRUE] + g[s \ {CHOOSE x \in s : TRUE}])
    <3>1. s # {} => (CHOOSE x \in s : TRUE) \in rows
      OBVIOUS
    <3> QED BY <3>1
  <2> HIDE DEF w
  <2> QED BY <2>1 DEF Sums
<1>4. SumOf(rows) = (CHOOSE g : Takes(g))[rows]
  BY DEF SumOf, MapThenSumSet, MapThenFoldSet
<1> HIDE DEF Takes, w
<1>5. Takes(CHOOSE g : Takes(g))
  BY <1>2, <1>3
<1>6. SumOf(rows) = TotalOf(w, rows)
  BY <1>1, <1>3, <1>4, <1>5, TotalIs
<1>7. \A x \in rows : w[x] = Amounts[x]
  BY DEF w, Amounts
<1> QED BY <1>1, <1>6, <1>7, TotalAlike

LEMMA StandingFinite ==
    /\ IsFiniteSet(Undisputed) /\ Undisputed \in SUBSET Reserving
    /\ IsFiniteSet(Reserving) /\ Reserving \in SUBSET Payouts
<1>1. Undisputed \in SUBSET Reserving /\ Reserving \in SUBSET Payouts
  BY DEF Undisputed, Reserving
<1> QED BY <1>1, PayoutAssumption, FS_Subset

LEMMA EarnedType ==
    ASSUME PayoutTypeOK
    PROVE  /\ Cardinality(everPaid) \in Nat /\ Cardinality(Earnings) \in Nat
           /\ Total \in Nat /\ Worth * Cardinality(everPaid) \in Nat /\ Worth \in Nat
<1>1. IsFiniteSet(everPaid)
  BY PayoutAssumption, FS_Subset DEF PayoutTypeOK
<1>2. Cardinality(everPaid) \in Nat /\ Cardinality(Earnings) \in Nat
  BY <1>1, PayoutAssumption, FS_CardinalityType
<1> QED BY <1>2, WorthAssumption DEF Total

\* The amounts are those of a table that is as it should be.
LEMMA AmountsType ==
    ASSUME PayoutTypeOK PROVE \A x \in Payouts : Amounts[x] = payout[x].amount /\ Amounts[x] \in Nat
BY EarnedType DEF PayoutTypeOK, Payout, Amounts

LEMMA HeldType ==
    ASSUME PayoutTypeOK
    PROVE  /\ TotalOf(Amounts, Undisputed) \in Nat /\ TotalOf(Amounts, Reserving) \in Nat
           /\ TotalOf(Amounts, Undisputed) <= TotalOf(Amounts, Reserving)
<1>1. \A x \in Reserving : Amounts[x] \in Nat
  BY AmountsType, StandingFinite
<1> QED BY <1>1, StandingFinite, TotalNat, TotalPart

LEMMA PayoutInitInv == PayoutInit => PayoutInv
<1> SUFFICES ASSUME PayoutInit PROVE PayoutInv
  OBVIOUS
<1>1. Cardinality(Earnings) \in Nat /\ Total \in Nat
  BY PayoutAssumption, WorthAssumption, FS_CardinalityType DEF Total
<1>2. 0 \in 0 .. Total
  BY <1>1
<1>3. /\ earning \in [Earnings -> Earning] /\ payout \in [Payouts -> Payout]
      /\ errand \in [PayoutCalls -> Errand]
      /\ everPaid = {} /\ raced = {} /\ overruled = {}
  BY <1>2 DEF PayoutInit, Earning, Payout, Errand, NoErrand
<1>4. PayoutTypeOK
  BY <1>3 DEF PayoutTypeOK
<1>5. Undisputed = {}
  BY DEF PayoutInit, Undisputed, Reserving
<1>6. TotalOf(Amounts, Undisputed) = 0
  BY <1>5, TotalEmpty
<1>7. Worth * Cardinality(everPaid) \in Nat
  BY <1>4, EarnedType
<1>8. \A c \in PayoutCalls : errand[c].op = "idle"
  BY DEF PayoutInit, NoErrand
<1> QED BY <1>4, <1>6, <1>7, <1>8 DEF PayoutInit, PayoutInv, Decisions

\* A sum after a step, by the amounts and the requests that stand before and after it
LEMMA HeldOnly ==
    ASSUME PayoutInv, PayoutTypeOK', Undisputed' \subseteq Undisputed,
           \A x \in Undisputed' : payout'[x].amount = payout[x].amount
    PROVE  TotalOf(Amounts, Undisputed)' <= TotalOf(Amounts, Undisputed)
<1>1. PICK a : a = Amounts'
  OBVIOUS
<1>2. PICK T : T = Undisputed'
  OBVIOUS
<1>3. T \in SUBSET Undisputed /\ IsFiniteSet(T) /\ T \in SUBSET Payouts
  BY <1>2, StandingFinite, FS_Subset
<1>4. \A x \in Payouts : Amounts[x] = payout[x].amount /\ Amounts[x] \in Nat
  BY AmountsType DEF PayoutInv
<1>5. \A x \in T : a[x] = Amounts[x]
  BY <1>1, <1>2, <1>3, <1>4 DEF Amounts
<1>6. TotalOf(a, T) = TotalOf(Amounts, T)
  BY <1>3, <1>5, TotalAlike
<1>7. TotalOf(Amounts, T) <= TotalOf(Amounts, Undisputed)
  BY <1>3, <1>4, StandingFinite, TotalPart
<1> QED BY <1>1, <1>2, <1>6, <1>7

\* What takes nothing from what was earned, and adds nothing to what stands
LEMMA ReleasedInv ==
    ASSUME PayoutInv, PayoutTypeOK',
           TotalOf(Amounts, Undisputed)' <= TotalOf(Amounts, Undisputed),
           everPaid \subseteq everPaid',
           \A e \in Earnings : earning'[e].status = "succeeded" => e \in everPaid',
           \A c \in PayoutCalls : errand'[c].op \in Decisions =>
              /\ errand'[c].beside /\ errand'[c].payout \in Payouts
              /\ payout'[errand'[c].payout].status # "absent",
           \A c \in PayoutCalls : errand'[c].op = "request" /\ ~errand'[c].beside =>
              \/ errand'[c] = errand[c]
              \/ errand'[c].amount + TotalOf(Amounts, Undisputed) <= Worth * Cardinality(everPaid)
    PROVE  PayoutInv'
<1>1. PICK held \in Nat : held = TotalOf(Amounts, Undisputed)
  BY HeldType DEF PayoutInv
<1>2. TotalOf(Amounts, Undisputed)' \in Nat
  <2>1. \A x \in Payouts : Amounts'[x] \in Nat
    <3>1. \A x \in Payouts : payout'[x].amount \in 0 .. Total
      BY DEF PayoutTypeOK, Payout
    <3>2. Total \in Nat
      BY EarnedType DEF PayoutInv
    <3> QED BY <3>1, <3>2 DEF Amounts
  <2>2. Undisputed' \in SUBSET Payouts
    BY DEF Undisputed, Reserving
  <2>3. PICK a, T : a = Amounts' /\ T = Undisputed'
    OBVIOUS
  <2>4. IsFiniteSet(T) /\ \A x \in T : a[x] \in Nat
    BY <2>1, <2>2, <2>3, PayoutAssumption, FS_Subset
  <2>5. TotalOf(a, T) \in Nat
    BY <2>4, TotalNat
  <2> QED BY <2>3, <2>5
<1>3. PICK now \in Nat : now = TotalOf(Amounts, Undisputed)'
  BY <1>2
<1>4. PICK paid \in Nat : paid = Worth * Cardinality(everPaid)
  BY EarnedType DEF PayoutInv
<1>5. PICK later \in Nat : later = Worth * Cardinality(everPaid')
  <2>1. IsFiniteSet(everPaid')
    BY PayoutAssumption, FS_Subset DEF PayoutTypeOK
  <2> QED BY <2>1, FS_CardinalityType, WorthAssumption
<1>6. paid <= later
  <2>1. everPaid' \in SUBSET Earnings /\ everPaid \in SUBSET everPaid'
    BY DEF PayoutTypeOK
  <2>2. IsFiniteSet(everPaid')
    BY <2>1, PayoutAssumption, FS_Subset
  <2>3. Cardinality(everPaid) <= Cardinality(everPaid')
    BY <2>1, <2>2, FS_Subset
  <2>4. Cardinality(everPaid) \in Nat /\ Cardinality(everPaid') \in Nat /\ Worth \in Nat
    BY <2>1, <2>2, FS_Subset, FS_CardinalityType, WorthAssumption
  <2> QED BY <1>4, <1>5, <2>3, <2>4
<1>7. held <= paid /\ now <= held
  BY <1>1, <1>3, <1>4 DEF PayoutInv
<1>8. TotalOf(Amounts, Undisputed)' <= (Worth * Cardinality(everPaid))'
  BY <1>3, <1>5, <1>6, <1>7
<1>9. ASSUME NEW c \in PayoutCalls, errand'[c].op = "request" /\ ~errand'[c].beside
      PROVE  errand'[c].amount + TotalOf(Amounts, Undisputed)' <= (Worth * Cardinality(everPaid))'
  <2>1. errand'[c].amount + held <= paid
    BY <1>1, <1>4, <1>9 DEF PayoutInv
  <2>2. errand'[c].amount \in Nat
    <3>1. errand'[c] \in Errand' /\ Total \in Nat
      BY EarnedType DEF PayoutTypeOK, PayoutInv
    <3> QED BY <3>1 DEF Errand
  <2> QED BY <1>3, <1>5, <1>6, <1>7, <2>1, <2>2
<1> QED BY <1>8, <1>9 DEF PayoutInv

\* A balance is read: what is asked for is earned beside what is reserved.
LEMMA RequestPayoutInv ==
    ASSUME PayoutInv, NEW c \in PayoutCalls, NEW amount \in 1 .. Total, RequestPayout(c, amount)
    PROVE  PayoutInv'
<1> DEFINE new == [NoErrand EXCEPT !.op = "request", !.amount = amount]
<1>1. new \in Errand /\ new.op = "request" /\ new.amount = amount /\ new.beside = FALSE
  <2>1. Total \in Nat /\ 0 \in 0 .. Total /\ amount \in 0 .. Total
    BY EarnedType DEF PayoutInv
  <2>2. PICK none \in Errand : none = NoErrand
    BY <2>1 DEF NoErrand, Errand
  <2>3. new = [none EXCEPT !.op = "request", !.amount = amount] /\ none.beside = FALSE
    BY <2>2 DEF NoErrand
  <2> HIDE DEF new
  <2> QED BY <2>1, <2>2, <2>3 DEF Errand
<1>2. /\ errand' = [errand EXCEPT ![c] = new] /\ amount <= Available
      /\ UNCHANGED <<earning, payout, everPaid, raced, overruled>>
  BY DEF RequestPayout
<1> HIDE DEF new
<1>3. /\ errand' \in [PayoutCalls -> Errand] /\ errand'[c] = new
      /\ \A d \in PayoutCalls \ {c} : errand'[d] = errand[d]
  BY <1>1, <1>2 DEF PayoutInv, PayoutTypeOK
<1>4. PayoutTypeOK'
  BY <1>2, <1>3 DEF PayoutInv, PayoutTypeOK, Errand
<1>5. Undisputed' = Undisputed
  BY <1>2 DEF Undisputed, Reserving
<1>6. TotalOf(Amounts, Undisputed)' <= TotalOf(Amounts, Undisputed)
  BY <1>2, <1>4, <1>5, HeldOnly
<1>7. amount + TotalOf(Amounts, Undisputed) <= Worth * Cardinality(everPaid)
  <2> DEFINE earned == {e \in Earnings : earning[e].status = "succeeded"}
  <2>1. earned \in SUBSET everPaid /\ IsFiniteSet(everPaid)
    BY PayoutAssumption, FS_Subset DEF PayoutInv, PayoutTypeOK
  <2>2. Cardinality(earned) <= Cardinality(everPaid) /\ Cardinality(earned) \in Nat
        /\ Cardinality(everPaid) \in Nat
    BY <2>1, FS_Subset, FS_CardinalityType
  <2>3. Earned = Worth * Cardinality(earned)
    BY DEF Earned
  <2> HIDE DEF earned
  <2>4. Earned \in Nat /\ Earned <= Worth * Cardinality(everPaid)
    BY <2>2, <2>3, WorthAssumption
  <2>5. SumOf(Reserving) = TotalOf(Amounts, Reserving)
    BY SumOfIs, StandingFinite
  <2>6. PICK held \in Nat : held = TotalOf(Amounts, Undisputed)
    BY HeldType DEF PayoutInv
  <2>7. PICK reserved \in Nat : reserved = SumOf(Reserving)
    BY <2>5, HeldType DEF PayoutInv
  <2>8. held <= reserved
    BY <2>5, <2>6, <2>7, HeldType DEF PayoutInv
  <2>9. amount + reserved <= Earned
    <3>1. Earned >= reserved /\ Available = Earned - reserved
      BY <1>2, <2>4, <2>7 DEF Available
    <3> QED BY <1>2, <2>4, <3>1
  <2>10. Worth * Cardinality(everPaid) \in Nat
    BY EarnedType DEF PayoutInv
  <2> QED BY <2>4, <2>6, <2>8, <2>9, <2>10
<1> QED BY <1>1, <1>2, <1>3, <1>4, <1>6, <1>7, ReleasedInv DEF PayoutInv, Decisions

\* A request is inserted: it stands if it looked after all the others that do.
LEMMA InsertPayoutInv ==
    ASSUME PayoutInv, NEW c \in PayoutCalls, NEW x \in Payouts, InsertPayout(c, x)
    PROVE  PayoutInv'
<1> DEFINE amount == errand[c].amount
           new == [status |-> "pending", amount |-> amount]
<1>1. /\ errand[c].op = "request" /\ payout[x].status = "absent"
      /\ payout' = [payout EXCEPT ![x] = new]
      /\ raced' = IF errand[c].beside THEN raced \cup {x} ELSE raced
      /\ errand' = [d \in PayoutCalls |->
                      CASE d = c -> NoErrand
                        [] d # c /\ errand[d].op = "request" -> [errand[d] EXCEPT !.beside = TRUE]
                        [] OTHER -> errand[d]]
      /\ UNCHANGED <<earning, everPaid, overruled>>
  BY DEF InsertPayout
<1>2. errand[c] \in Errand /\ amount \in 0 .. Total /\ Total \in Nat
  BY EarnedType DEF PayoutInv, PayoutTypeOK, Errand
<1>3. new \in Payout /\ new.status = "pending" /\ new.amount = amount
  BY <1>2 DEF Payout, PayoutStatus
<1> HIDE DEF amount, new
<1>4. /\ payout' \in [Payouts -> Payout] /\ payout'[x] = new
      /\ \A y \in Payouts \ {x} : payout'[y] = payout[y]
  BY <1>1, <1>3 DEF PayoutInv, PayoutTypeOK
<1>5. ASSUME NEW d \in PayoutCalls
      PROVE  /\ errand'[d] \in Errand
             /\ errand'[d].op = "request" => errand'[d].beside
             /\ errand'[d].op \in Decisions => errand'[d] = errand[d]
  <2>1. errand[d] \in Errand
    BY DEF PayoutInv, PayoutTypeOK
  <2>2. CASE d = c
    BY <1>1, <1>2, <2>2 DEF NoErrand, Errand, Decisions
  <2>3. CASE d # c /\ errand[d].op = "request"
    <3>1. errand'[d] = [errand[d] EXCEPT !.beside = TRUE]
      BY <1>1, <2>3
    <3> QED BY <2>1, <2>3, <3>1 DEF Errand, Decisions
  <2>4. CASE d # c /\ errand[d].op # "request"
    <3>1. errand'[d] = errand[d]
      BY <1>1, <2>4
    <3> QED BY <2>1, <2>4, <3>1
  <2> QED BY <2>2, <2>3, <2>4
<1>6. errand' \in [PayoutCalls -> Errand]
  BY <1>1, <1>5
<1>7. PayoutTypeOK'
  BY <1>1, <1>4, <1>6 DEF PayoutInv, PayoutTypeOK, Payout, Errand
<1>8. x \notin Reserving /\ Reserving' = Reserving \cup {x}
  BY <1>1, <1>3, <1>4 DEF Reserving
<1>9. Undisputed' \subseteq Undisputed \cup {x}
  BY <1>1, <1>8 DEF Undisputed
<1>10. \A e \in Earnings : earning'[e].status = "succeeded" => e \in everPaid'
  BY <1>1 DEF PayoutInv
<1>11. ASSUME NEW d \in PayoutCalls, errand'[d].op \in Decisions
      PROVE  /\ errand'[d].beside /\ errand'[d].payout \in Payouts
             /\ payout'[errand'[d].payout].status # "absent"
  <2>1. errand'[d] = errand[d]
    BY <1>5, <1>11
  <2>2. /\ errand[d].beside /\ errand[d].payout \in Payouts
        /\ payout[errand[d].payout].status # "absent"
    BY <1>11, <2>1 DEF PayoutInv
  <2> QED BY <1>1, <1>4, <2>1, <2>2
<1>12. CASE x \notin Undisputed'
  <2>1. Undisputed' \subseteq Undisputed /\ \A y \in Undisputed' : payout'[y].amount = payout[y].amount
    BY <1>4, <1>9, <1>12 DEF Undisputed, Reserving
  <2>2. TotalOf(Amounts, Undisputed)' <= TotalOf(Amounts, Undisputed)
    BY <1>7, <2>1, HeldOnly
  <2> QED BY <1>1, <1>5, <1>7, <1>10, <1>11, <2>2, ReleasedInv
<1>13. CASE x \in Undisputed'
  <2>1. ~errand[c].beside
    BY <1>1, <1>13 DEF Undisputed
  <2>2. amount + TotalOf(Amounts, Undisputed) <= Worth * Cardinality(everPaid)
    BY <1>1, <2>1 DEF PayoutInv, amount
  <2>3. PICK a, T : a = Amounts' /\ T = Undisputed'
    OBVIOUS
  <2>4. T \ {x} = Undisputed
    BY <1>1, <1>8, <1>13, <2>1, <2>3 DEF Undisputed
  <2>5. IsFiniteSet(T) /\ T \in SUBSET Payouts /\ x \in T
    <3>1. T = Undisputed \cup {x} /\ Undisputed \in SUBSET Payouts
      BY <1>13, <2>3, <2>4, StandingFinite
    <3> QED BY <3>1, StandingFinite, FS_AddElement
  <2>6. \A y \in Payouts : a[y] = payout'[y].amount /\ a[y] \in Nat
    <3>1. \A y \in Payouts : payout'[y].amount \in 0 .. Total
      BY <1>4 DEF Payout
    <3> QED BY <1>2, <2>3, <3>1 DEF Amounts
  <2>7. TotalOf(a, T) = a[x] + TotalOf(a, T \ {x})
    <3>1. \A y \in T : a[y] \in Int
      BY <2>5, <2>6
    <3> QED BY <2>5, <3>1, TotalSplit
  <2>8. TotalOf(a, Undisputed) = TotalOf(Amounts, Undisputed)
    <3>1. \A y \in Undisputed : a[y] = Amounts[y]
      BY <1>4, <1>8, <2>6, StandingFinite DEF Amounts
    <3> QED BY <3>1, StandingFinite, TotalAlike
  <2>9. TotalOf(Amounts, Undisputed)' = amount + TotalOf(Amounts, Undisputed)
    BY <1>3, <1>4, <2>3, <2>4, <2>6, <2>7, <2>8
  <2>10. TotalOf(Amounts, Undisputed)' <= (Worth * Cardinality(everPaid))'
    BY <1>1, <2>2, <2>9
  <2> QED BY <1>5, <1>7, <1>10, <1>11, <2>10 DEF PayoutInv
<1> QED BY <1>12, <1>13

\* An administrator decides what was pending, or overrules another.
LEMMA DecideInv ==
    ASSUME PayoutInv, NEW c \in PayoutCalls, Decide(c)
    PROVE  /\ PayoutInv'
           /\ \A x \in Payouts : payout[x].status \in Decisions =>
                 payout'[x].status = payout[x].status \/ x \in overruled'
<1>1. PICK x : x = errand[c].payout
  OBVIOUS
<1>2. /\ errand[c].op \in Decisions
      /\ payout' = [payout EXCEPT ![x].status = errand[c].op]
      /\ overruled' = IF errand[c].beside /\ payout[x].status # "pending"
                      THEN overruled \cup {x} ELSE overruled
      /\ errand' = [errand EXCEPT ![c] = NoErrand]
      /\ UNCHANGED <<earning, everPaid, raced>>
  BY <1>1 DEF Decide
<1>3. x \in Payouts /\ errand[c].beside /\ payout[x].status # "absent"
  BY <1>1, <1>2 DEF PayoutInv
<1>4. PICK decision \in Decisions : decision = errand[c].op
  BY <1>2
<1>5. payout[x] \in Payout /\ payout \in [Payouts -> Payout]
  BY <1>3 DEF PayoutInv, PayoutTypeOK
<1>6. /\ payout' \in [Payouts -> Payout] /\ payout'[x].status = decision
      /\ payout'[x].amount = payout[x].amount
      /\ \A y \in Payouts \ {x} : payout'[y] = payout[y]
  BY <1>2, <1>3, <1>4, <1>5 DEF Payout, PayoutStatus, Decisions
<1>7. /\ errand' \in [PayoutCalls -> Errand]
      /\ \A d \in PayoutCalls : errand'[d] = NoErrand \/ errand'[d] = errand[d]
  <2>1. NoErrand \in Errand
    BY EarnedType DEF PayoutInv, NoErrand, Errand
  <2> QED BY <1>2, <2>1 DEF PayoutInv, PayoutTypeOK
<1>8. PayoutTypeOK'
  BY <1>2, <1>3, <1>6, <1>7 DEF PayoutInv, PayoutTypeOK, Payout, Errand
<1>9. \A y \in Payouts : payout[y].status \in Decisions =>
         payout'[y].status = payout[y].status \/ y \in overruled'
  BY <1>2, <1>3, <1>6 DEF Decisions
<1>10. Undisputed' \subseteq Undisputed
  <2>1. ASSUME NEW y \in Undisputed' PROVE y \in Undisputed
    <3>1. y \in Payouts /\ payout'[y].status \in {"pending", "completed"} /\ y \notin raced /\ y \notin overruled'
      BY <1>2 DEF Undisputed, Reserving
    <3>2. y \notin overruled
      BY <1>2, <3>1
    <3>3. CASE y = x
      <4>1. payout[x].status = "pending"
        BY <1>2, <1>3, <3>1, <3>3
      <4> QED BY <3>1, <3>2, <3>3, <4>1 DEF Undisputed, Reserving
    <3>4. CASE y # x
      BY <1>6, <3>1, <3>2, <3>4 DEF Undisputed, Reserving
    <3> QED BY <3>3, <3>4
  <2> QED BY <2>1
<1>11. \A y \in Payouts : payout'[y].amount = payout[y].amount
  BY <1>6
<1>12. TotalOf(Amounts, Undisputed)' <= TotalOf(Amounts, Undisputed)
  BY <1>8, <1>10, <1>11, StandingFinite, HeldOnly
<1>13. \A d \in PayoutCalls : errand'[d].op \in Decisions \cup {"request"} => errand'[d] = errand[d]
  BY <1>7 DEF NoErrand, Decisions
<1>14. \A y \in Payouts : payout[y].status # "absent" => payout'[y].status # "absent"
  BY <1>6 DEF Decisions
<1>15. \A d \in PayoutCalls : errand'[d].op \in Decisions =>
          /\ errand'[d].beside /\ errand'[d].payout \in Payouts
          /\ payout'[errand'[d].payout].status # "absent"
  BY <1>13, <1>14 DEF PayoutInv
<1>16. PayoutInv'
  BY <1>2, <1>8, <1>12, <1>13, <1>15, ReleasedInv DEF PayoutInv
<1> QED BY <1>9, <1>16

\* No step of the ledger breaks the inductive invariant, or a decision.
LEMMA PayoutNextInv ==
    ASSUME PayoutInv, [PayoutNext]_payoutVars
    PROVE  /\ PayoutInv'
           /\ \A x \in Payouts : payout[x].status \in Decisions =>
                 payout'[x].status = payout[x].status \/ x \in overruled'
<1>1. ASSUME PayoutTypeOK', UNCHANGED <<payout, raced, overruled>>, everPaid \subseteq everPaid',
             \A e \in Earnings : earning'[e].status = "succeeded" => e \in everPaid',
             \A c \in PayoutCalls : errand'[c].op \in Decisions =>
                \/ errand'[c] = errand[c]
                \/ /\ errand'[c].beside /\ errand'[c].payout \in Payouts
                   /\ payout[errand'[c].payout].status # "absent",
             \A c \in PayoutCalls : errand'[c].op = "request" => errand'[c] = errand[c]
      PROVE  PayoutInv' /\ \A x \in Payouts : payout'[x].status = payout[x].status
  <2>1. Undisputed' = Undisputed
    BY <1>1 DEF Undisputed, Reserving
  <2>2. TotalOf(Amounts, Undisputed)' <= TotalOf(Amounts, Undisputed)
    BY <1>1, <2>1, HeldOnly
  <2>3. \A c \in PayoutCalls : errand'[c].op \in Decisions =>
           /\ errand'[c].beside /\ errand'[c].payout \in Payouts
           /\ payout'[errand'[c].payout].status # "absent"
    BY <1>1 DEF PayoutInv
  <2> QED BY <1>1, <2>2, <2>3, ReleasedInv
<1>2. CASE UNCHANGED payoutVars
  BY <1>1, <1>2 DEF payoutVars, PayoutInv, PayoutTypeOK, Payout, Errand
<1>3. ASSUME NEW c \in PayoutCalls, NEW x \in Payouts, InsertPayout(c, x)
      PROVE  \A y \in Payouts : payout[y].status \in Decisions => payout'[y].status = payout[y].status
  BY <1>3 DEF InsertPayout, PayoutInv, PayoutTypeOK, Decisions
<1>4. ASSUME NEW c \in PayoutCalls, NEW amount \in 1 .. Total, RequestPayout(c, amount)
      PROVE  PayoutInv' /\ \A y \in Payouts : payout'[y].status = payout[y].status
  BY <1>4, RequestPayoutInv DEF RequestPayout
<1>5. ASSUME NEW c \in PayoutCalls, NEW x \in Payouts, NEW decision \in Decisions, ReadPayout(c, x, decision)
      PROVE  PayoutInv' /\ \A y \in Payouts : payout'[y].status = payout[y].status
  <2> DEFINE new == [NoErrand EXCEPT !.op = decision, !.payout = x, !.beside = TRUE]
  <2>1. new \in Errand /\ new.op = decision /\ new.payout = x /\ new.beside = TRUE
    <3>1. Total \in Nat /\ 0 \in 0 .. Total
      BY EarnedType DEF PayoutInv
    <3>2. PICK none \in Errand : none = NoErrand
      BY <3>1 DEF NoErrand, Errand
    <3>3. new = [none EXCEPT !.op = decision, !.payout = x, !.beside = TRUE]
      BY <3>2
    <3> HIDE DEF new
    <3> QED BY <3>2, <3>3 DEF Errand
  <2>2. /\ errand' = [errand EXCEPT ![c] = new] /\ payout[x].status = "pending"
        /\ UNCHANGED <<earning, payout, everPaid, raced, overruled>>
    BY <1>5 DEF ReadPayout, MayDecide
  <2> HIDE DEF new
  <2>3. /\ errand' \in [PayoutCalls -> Errand] /\ errand'[c] = new
        /\ \A d \in PayoutCalls \ {c} : errand'[d] = errand[d]
    BY <2>1, <2>2 DEF PayoutInv, PayoutTypeOK
  <2>4. PayoutTypeOK'
    BY <2>2, <2>3 DEF PayoutInv, PayoutTypeOK, Errand
  <2>5. new.op # "request"
    BY <2>1 DEF Decisions
  <2> QED BY <1>1, <2>1, <2>2, <2>3, <2>4, <2>5 DEF PayoutInv
<1>6. ASSUME NEW c \in PayoutCalls, PayoutRollBack(c)
      PROVE  PayoutInv' /\ \A y \in Payouts : payout'[y].status = payout[y].status
  <2>1. NoErrand \in Errand /\ NoErrand.op \notin Decisions \cup {"request"}
    BY EarnedType DEF PayoutInv, NoErrand, Errand, Decisions
  <2>2. errand' = [errand EXCEPT ![c] = NoErrand] /\ UNCHANGED <<earning, payout, everPaid, raced, overruled>>
    BY <1>6 DEF PayoutRollBack
  <2>3. /\ errand' \in [PayoutCalls -> Errand] /\ errand'[c] = NoErrand
        /\ \A d \in PayoutCalls \ {c} : errand'[d] = errand[d]
    BY <2>1, <2>2 DEF PayoutInv, PayoutTypeOK
  <2>4. PayoutTypeOK'
    BY <2>2, <2>3 DEF PayoutInv, PayoutTypeOK, Errand
  <2> QED BY <1>1, <2>1, <2>2, <2>3, <2>4 DEF PayoutInv
<1>7. ASSUME NEW e \in Earnings, Earn(e) \/ Refund(e) \/ Transfer(e)
      PROVE  PayoutInv' /\ \A y \in Payouts : payout'[y].status = payout[y].status
  <2>1. earning \in [Earnings -> Earning] /\ earning[e] \in Earning
    BY DEF PayoutInv, PayoutTypeOK
  <2>2. PICK new \in Earning : /\ earning' = [earning EXCEPT ![e] = new]
                               /\ new.status = "succeeded" => e \in everPaid'
    <3>1. CASE Earn(e)
      <4>1. [earning[e] EXCEPT !.status = "succeeded"] \in Earning
        BY <2>1 DEF Earning
      <4>2. earning' = [earning EXCEPT ![e] = [earning[e] EXCEPT !.status = "succeeded"]] /\ e \in everPaid'
        BY <2>1, <3>1 DEF Earn
      <4> QED BY <4>1, <4>2
    <3>2. CASE Refund(e)
      <4>1. /\ [earning[e] EXCEPT !.status = "void"] \in Earning
            /\ [earning[e] EXCEPT !.status = "void"].status # "succeeded"
        BY <2>1 DEF Earning
      <4>2. earning' = [earning EXCEPT ![e] = [earning[e] EXCEPT !.status = "void"]]
        BY <2>1, <3>2 DEF Refund
      <4> QED BY <4>1, <4>2
    <3>3. CASE Transfer(e)
      <4>1. /\ [earning[e] EXCEPT !.transferred = TRUE] \in Earning /\ e \in everPaid /\ everPaid' = everPaid
        BY <2>1, <3>3 DEF Transfer, Earning, PayoutInv
      <4>2. earning' = [earning EXCEPT ![e] = [earning[e] EXCEPT !.transferred = TRUE]]
        BY <2>1, <3>3 DEF Transfer
      <4> QED BY <4>1, <4>2
    <3> QED BY <1>7, <3>1, <3>2, <3>3
  <2>3. UNCHANGED <<payout, errand, raced, overruled>> /\ everPaid \subseteq everPaid' /\ everPaid' \subseteq Earnings
    BY <1>7 DEF Earn, Refund, Transfer, PayoutInv, PayoutTypeOK
  <2>4. /\ earning' \in [Earnings -> Earning]
        /\ \A d \in Earnings : earning'[d].status = "succeeded" => d \in everPaid'
    BY <2>1, <2>2, <2>3 DEF PayoutInv
  <2>5. PayoutTypeOK'
    BY <2>3, <2>4 DEF PayoutInv, PayoutTypeOK, Payout, Errand
  <2> QED BY <1>1, <2>3, <2>4, <2>5
<1> QED BY <1>1, <1>2, <1>3, <1>4, <1>5, <1>6, <1>7, InsertPayoutInv, DecideInv DEF PayoutNext, payoutVars

\* For every number of bookings, payouts and requests: what requests hold back or have paid
\* out was once earned, save for the requests that were inserted beside another
\* (create_request checks the balance without a lock) and those decided twice over, and a
\* decision is final unless an administrator had read the payout as pending (_assert_pending).
THEOREM PayoutsAreSound == PayoutSpec => PayoutsSound
<1>1. PayoutInv => NeverOverdrawn
  <2>1. SUFFICES ASSUME PayoutInv PROVE SumOf(Undisputed) <= Worth * Cardinality(everPaid)
    BY DEF NeverOverdrawn, Undisputed
  <2>2. Undisputed \in SUBSET Payouts
    BY StandingFinite
  <2> QED BY <2>1, <2>2, SumOfIs DEF PayoutInv
<1>2. PayoutInv /\ [PayoutNext]_payoutVars => PayoutInv'
  BY PayoutNextInv
<1>3. PayoutInv /\ [PayoutNext]_payoutVars =>
        [\A x \in Payouts : payout[x].status \in Decisions =>
              payout'[x].status = payout[x].status \/ x \in overruled']_payoutVars
  BY PayoutNextInv
<1> QED BY PayoutInitInv, <1>1, <1>2, <1>3, PTL DEF PayoutSpec, PayoutsSound, DecisionStands

-----------------------------------------------------------------------------
(* The country rules                                                          *)

USE RuleAssumption

\* A flush of a well-typed policy is one, attribute by attribute.
LEMMA FlushRule ==
    ASSUME NEW row \in Rule, NEW seen \in Rule, NEW new \in Rule
    PROVE  /\ Flush(row, seen, new) \in Rule
           /\ Flush(row, seen, new).status = IF new.status = seen.status
                                             THEN row.status ELSE new.status
BY DEF Flush, Rule

\* The values a variable starts from, or returns to, are well typed.
LEMMA RuleTyping == NewRule \in Rule /\ NoDesk \in Desk
BY DEF NewRule, Rule, RulePublishStatus, NoDesk, Desk

-----------------------------------------------------------------------------
(* The inductive invariant                                                   *)

\* A request is about a policy that was generated.  The row is what the request has
\* checked, unless another has written it since; while it is a placeholder it is only
\* drafted or deleted, and what it is drafted as nobody else decides.
DesksFit ==
    \A c \in Desks :
        LET r == desk[c].rule IN
        /\ desk[c].op # "idle" => r \in Rules /\ rule[r].status # "absent"
        /\ desk[c].op \in DeskOps /\ ~desk[c].stale =>
               /\ MayDo(desk[c].op, rule[r])
               /\ desk[c].op = "edit" => desk[c].seen = rule[r]
        /\ desk[c].op \in DeskOps /\ rule[r].status = "generating" => desk[c].op = "delete"
        /\ desk[c].op = "draft" => rule[r].status \in {"generating", "deleted"}
        /\ desk[c].op = "edit" => desk[c].new.status = desk[c].seen.status
        /\ desk[c].step = "list" => desk[c].op = "publish"
        /\ desk[c].op = "publish" /\ desk[c].current # NoRule =>
               /\ desk[c].current # desk[c].rule
               /\ rule[desk[c].current].status \notin {"absent", "generating"}

\* A placeholder is drafted by one request.
DraftsApart ==
    \A c, d \in Desks : c # d /\ desk[c].op = "draft" /\ desk[d].op = "draft"
                           => desk[c].rule # desk[d].rule

\* OneLivePolicy without its cardinalities.
OneEach ==
    /\ \A q, r \in Rules : rule[q].status = "published" /\ rule[r].status = "published" => q = r
    /\ \A q, r \in Rules : rule[q].status = "generating" /\ rule[r].status = "generating" => q = r

\* What is published is complete.
Complete ==
    \A r \in Rules \ overtaken : rule[r].status = "published" => rule[r].source /\ rule[r].requirements

CountryInv == CountryTypeOK /\ DesksFit /\ DraftsApart /\ OneEach /\ Complete /\ PlaceholdersEnd

\* Before the first generation the inductive invariant holds.
LEMMA CountryInitInv == CountryInit => CountryInv
<1> SUFFICES ASSUME CountryInit PROVE CountryInv
  OBVIOUS
<1>1. CountryTypeOK
  BY RuleTyping DEF CountryInit, CountryTypeOK
<1>2. DesksFit /\ DraftsApart
  BY DEF CountryInit, DesksFit, DraftsApart, NoDesk, DeskOps
<1>3. OneEach /\ Complete /\ PlaceholdersEnd
  BY DEF CountryInit, OneEach, Complete, PlaceholdersEnd, Placeholders, NewRule
<1> QED BY <1>1, <1>2, <1>3 DEF CountryInv

-----------------------------------------------------------------------------
(* Requests                                                                  *)

\* The other desks keep what they are about, and learn that their row was written.
DesksLeft(c, rows) ==
    /\ desk' \in [Desks -> Desk]
    /\ desk'[c] = NoDesk
    /\ \A d \in Desks \ {c} :
          /\ desk'[d].op = desk[d].op /\ desk'[d].step = desk[d].step
          /\ desk'[d].rule = desk[d].rule /\ desk'[d].seen = desk[d].seen
          /\ desk'[d].new = desk[d].new /\ desk'[d].given = desk[d].given
          /\ desk'[d].current = desk[d].current
          /\ desk[d].rule \in rows => desk'[d].stale
          /\ desk[d].rule \notin rows => (desk'[d].stale <=> desk[d].stale)

\* What DesksAfter makes of the desks.
LEMMA DesksAfterTyped ==
    ASSUME CountryTypeOK, NEW c \in Desks, NEW rows, desk' = DesksAfter(c, rows)
    PROVE  DesksLeft(c, rows)
<1> DEFINE after(d) == [desk[d] EXCEPT !.stale = @ \/ desk[d].rule \in rows]
<1>1. ASSUME NEW d \in Desks
      PROVE  /\ after(d) \in Desk
             /\ after(d).op = desk[d].op /\ after(d).step = desk[d].step
             /\ after(d).rule = desk[d].rule /\ after(d).seen = desk[d].seen
             /\ after(d).new = desk[d].new /\ after(d).given = desk[d].given
             /\ after(d).current = desk[d].current
             /\ desk[d].rule \in rows => after(d).stale
             /\ desk[d].rule \notin rows => (after(d).stale <=> desk[d].stale)
  <2>1. desk[d] \in Desk
    BY DEF CountryTypeOK
  <2>2. after(d) = [desk[d] EXCEPT !.stale = desk[d].stale \/ desk[d].rule \in rows]
    BY <2>1 DEF Desk
  <2> QED BY <2>1, <2>2 DEF Desk
<1> DEFINE left(d) == IF d = c THEN NoDesk ELSE after(d)
<1>2. desk' = [d \in Desks |-> left(d)]
  BY DEF DesksAfter
<1> HIDE DEF after
<1>3. left(c) = NoDesk /\ \A d \in Desks \ {c} : left(d) = after(d)
  OBVIOUS
<1>4. \A d \in Desks : left(d) \in Desk
  BY <1>1, <1>3, RuleTyping
<1> HIDE DEF left
<1>5. desk' \in [Desks -> Desk] /\ \A d \in Desks : desk'[d] = left(d)
  BY <1>2, <1>4
<1> QED BY <1>1, <1>3, <1>5 DEF DesksLeft

\* A request that begins with a check, or goes on reading, breaks nothing.
LEMMA ReadPolicyInv ==
    ASSUME CountryInv, NEW c \in Desks, NEW n \in Desk, desk[c].op # "draft",
           desk' = [desk EXCEPT ![c] = n], UNCHANGED <<rule, orphaned, overtaken>>,
           n.op \in DeskOps, n.rule \in Rules, rule[n.rule].status # "absent",
           ~n.stale => /\ MayDo(n.op, rule[n.rule])
                       /\ n.op = "edit" => n.seen = rule[n.rule],
           rule[n.rule].status = "generating" => n.op = "delete",
           n.op = "edit" => n.new.status = n.seen.status, n.step = "list" => n.op = "publish",
           n.op = "publish" /\ n.current # NoRule =>
               /\ n.current # n.rule
               /\ rule[n.current].status \notin {"absent", "generating"}
    PROVE  CountryInv'
<1>1. /\ desk' \in [Desks -> Desk] /\ desk'[c] = n
      /\ \A d \in Desks \ {c} : desk'[d] = desk[d]
  BY DEF CountryInv, CountryTypeOK
<1>2. n.op # "draft" /\ n.op # "idle"
  BY DEF DeskOps
<1>3. CountryTypeOK'
  BY <1>1 DEF CountryInv, CountryTypeOK
<1>4. DesksFit'
  BY <1>1, <1>2 DEF CountryInv, DesksFit
<1>5. DraftsApart'
  BY <1>1, <1>2 DEF CountryInv, DraftsApart
<1>6. OneEach' /\ Complete'
  BY DEF CountryInv, OneEach, Complete
<1>7. PlaceholdersEnd'
  BY <1>1 DEF CountryInv, PlaceholdersEnd, Placeholders
<1> QED BY <1>3, <1>4, <1>5, <1>6, <1>7 DEF CountryInv

\* A commit writes rows that are not placeholders afterwards; a row that somebody else is
\* drafting it may only delete.
LEMMA WriteInv ==
    ASSUME CountryInv, NEW c \in Desks, NEW rows, desk' = DesksAfter(c, rows),
           rule' \in [Rules -> Rule], UNCHANGED orphaned, overtaken' \subseteq Rules,
           desk[c].op = "draft" => desk[c].rule \in rows,
           \A q \in Rules : q \notin rows => rule'[q] = rule[q],
           \A q \in Rules : q \in rows => rule'[q].status \notin {"absent", "generating"},
           \A d \in Desks : desk[d].op = "draft" /\ desk[d].rule \in rows /\ d # c
                               => rule'[desk[d].rule].status = "deleted",
           \A q, r \in Rules : rule'[q].status = "published" /\ rule'[r].status = "published" => q = r,
           \A r \in Rules \ overtaken' :
               rule'[r].status = "published" => rule'[r].source /\ rule'[r].requirements
    PROVE  CountryInv'
<1>1. CountryTypeOK
  BY DEF CountryInv
<1>2. DesksLeft(c, rows)
  BY <1>1, DesksAfterTyped
<1>3. CountryTypeOK'
  BY <1>1, <1>2 DEF CountryTypeOK, DesksLeft
<1>4. NoDesk.op = "idle" /\ NoDesk.step = "idle"
  BY DEF NoDesk
<1>5. DesksFit'
  <2> SUFFICES ASSUME NEW d \in Desks, d # c
               PROVE  LET r == desk[d].rule IN
                      /\ desk[d].op # "idle" => r \in Rules /\ rule'[r].status # "absent"
                      /\ desk[d].op \in DeskOps /\ ~desk'[d].stale =>
                            /\ MayDo(desk[d].op, rule'[r])
                            /\ desk[d].op = "edit" => desk[d].seen = rule'[r]
                      /\ desk[d].op \in DeskOps /\ rule'[r].status = "generating" => desk[d].op = "delete"
                      /\ desk[d].op = "draft" => rule'[r].status \in {"generating", "deleted"}
                      /\ desk[d].op = "edit" => desk[d].new.status = desk[d].seen.status
                      /\ desk[d].step = "list" => desk[d].op = "publish"
                      /\ desk[d].op = "publish" /\ desk[d].current # NoRule =>
                            /\ desk[d].current # desk[d].rule
                            /\ rule'[desk[d].current].status \notin {"absent", "generating"}
    BY <1>2, <1>4 DEF DesksFit, DesksLeft, DeskOps
  <2>1. /\ desk[d].op # "idle" => desk[d].rule \in Rules /\ rule[desk[d].rule].status # "absent"
        /\ desk[d].current \in Rules \cup {NoRule}
    BY <1>1 DEF CountryInv, DesksFit, CountryTypeOK, Desk
  <2>2. desk[d].op \in DeskOps \/ desk[d].op = "draft" \/ desk[d].op = "edit" \/ desk[d].op = "publish"
           => desk[d].op # "idle"
    BY DEF DeskOps
  <2>3. CASE desk[d].rule \in rows
    BY <1>2, <2>1, <2>2, <2>3 DEF CountryInv, DesksFit, DesksLeft
  <2>4. CASE desk[d].rule \notin rows
    BY <1>2, <2>1, <2>2, <2>4 DEF CountryInv, DesksFit, DesksLeft
  <2> QED BY <2>3, <2>4
<1>6. DraftsApart'
  BY <1>2, <1>4 DEF CountryInv, DraftsApart, DesksLeft
<1>7. OneEach'
  BY DEF CountryInv, OneEach
<1>8. Complete'
  BY DEF Complete
<1>9. PlaceholdersEnd'
  BY <1>2 DEF CountryInv, PlaceholdersEnd, Placeholders, DesksLeft
<1> QED BY <1>3, <1>5, <1>6, <1>7, <1>8, <1>9 DEF CountryInv

\* A placeholder is inserted only where there is none, under a key no request knows.
LEMMA StartInv == ASSUME CountryInv, NEW c \in Desks, NEW r \in Rules, StartDraft(c, r) PROVE CountryInv'
<1> DEFINE row == [rule[r] EXCEPT !.status = "generating"]
           n == [NoDesk EXCEPT !.op = "draft", !.rule = r]
<1>1. /\ desk[c] = NoDesk /\ Placeholders = {} /\ rule[r].status = "absent"
      /\ rule' = [rule EXCEPT ![r] = row] /\ desk' = [desk EXCEPT ![c] = n]
      /\ UNCHANGED <<orphaned, overtaken>>
  BY DEF StartDraft, CountryInv, CountryTypeOK
<1>2. row \in Rule /\ row.status = "generating"
  BY DEF CountryInv, CountryTypeOK, Rule, RulePublishStatus
<1>3. n \in Desk /\ n.op = "draft" /\ n.step = "idle" /\ n.rule = r /\ "draft" \notin DeskOps
  BY RuleTyping DEF NoDesk, Desk, DeskOps
<1> HIDE DEF row, n
<1>4. /\ rule' \in [Rules -> Rule] /\ rule'[r] = row
      /\ \A q \in Rules \ {r} : rule'[q] = rule[q] /\ rule[q].status # "generating"
  BY <1>1, <1>2 DEF CountryInv, CountryTypeOK, Placeholders
<1>5. /\ desk' \in [Desks -> Desk] /\ desk'[c] = n
      /\ \A d \in Desks \ {c} : desk'[d] = desk[d]
  BY <1>1, <1>3 DEF CountryInv, CountryTypeOK
<1>6. \A d \in Desks \ {c} :
         /\ desk[d].op # "idle" => desk[d].rule # r
         /\ desk[d].op = "publish" => desk[d].current # r
  BY <1>1 DEF CountryInv, DesksFit
<1>7. CountryTypeOK'
  BY <1>1, <1>4, <1>5 DEF CountryInv, CountryTypeOK
<1>8. DesksFit'
  <2>1. \A d \in Desks \ {c} : desk[d].op \in DeskOps \/ desk[d].op \in {"draft", "edit", "publish"}
                                  => desk[d].op # "idle"
    BY DEF DeskOps
  <2>2. \A d \in Desks : desk[d].current \in Rules \cup {NoRule}
    BY DEF CountryInv, CountryTypeOK, Desk
  <2> QED BY <1>2, <1>3, <1>4, <1>5, <1>6, <2>1, <2>2 DEF CountryInv, DesksFit
<1>9. DraftsApart'
  BY <1>3, <1>5, <1>6 DEF CountryInv, DraftsApart
<1>10. OneEach' /\ Complete'
  BY <1>1, <1>2, <1>4 DEF CountryInv, OneEach, Complete
<1>11. PlaceholdersEnd'
  BY <1>1, <1>3, <1>4, <1>5 DEF PlaceholdersEnd, Placeholders
<1> QED BY <1>7, <1>8, <1>9, <1>10, <1>11 DEF CountryInv

\* A draft lands on its placeholder, or on nothing.
LEMMA LandInv == ASSUME CountryInv, NEW c \in Desks, LandDraft(c) PROVE CountryInv'
<1> DEFINE r == desk[c].rule
<1>1. /\ desk[c].op = "draft" /\ desk' = DesksAfter(c, {r})
      /\ IF Exists(r) THEN \E outcome \in Outcomes : rule' = [rule EXCEPT ![r] = outcome]
         ELSE UNCHANGED rule
      /\ UNCHANGED <<orphaned, overtaken>>
  BY DEF LandDraft
<1>2. /\ r \in Rules /\ rule \in [Rules -> Rule] /\ overtaken \subseteq Rules
      /\ rule[r].status \in {"generating", "deleted"}
  BY <1>1 DEF CountryInv, CountryTypeOK, DesksFit
<1>3. \A outcome \in Outcomes : outcome \in Rule /\ outcome.status \in {"draft", "deleted"}
  BY DEF Outcomes, Drafted, Failed, NewRule, Rule, RulePublishStatus
<1> HIDE DEF r
<1>4. /\ rule' \in [Rules -> Rule] /\ rule'[r].status \in {"draft", "deleted"}
      /\ \A q \in Rules \ {r} : rule'[q] = rule[q]
  BY <1>1, <1>2, <1>3 DEF Exists
<1>5. \A d \in Desks : desk[d].op = "draft" /\ d # c => desk[d].rule # r
  BY <1>1 DEF CountryInv, DraftsApart, r
<1> QED BY <1>1, <1>2, <1>4, <1>5, WriteInv DEF CountryInv, OneEach, Complete, r

\* A generation that stops leaves its placeholder, which is remembered.
LEMMA LoseInv == ASSUME CountryInv, NEW c \in Desks, LoseDraft(c) PROVE CountryInv'
<1>1. /\ desk[c].op = "draft" /\ orphaned' = orphaned \cup {desk[c].rule}
      /\ desk' = [desk EXCEPT ![c] = NoDesk] /\ UNCHANGED <<rule, overtaken>>
  BY DEF LoseDraft
<1>2. /\ desk' \in [Desks -> Desk] /\ desk'[c] = NoDesk
      /\ \A d \in Desks \ {c} : desk'[d] = desk[d]
      /\ desk[c].rule \in Rules
  BY <1>1, RuleTyping DEF CountryInv, CountryTypeOK, DesksFit
<1>3. NoDesk.op = "idle" /\ NoDesk.step = "idle" /\ "idle" \notin DeskOps
  BY DEF NoDesk, DeskOps
<1>4. CountryTypeOK'
  BY <1>1, <1>2 DEF CountryInv, CountryTypeOK
<1>5. DesksFit' /\ DraftsApart'
  BY <1>1, <1>2, <1>3 DEF CountryInv, DesksFit, DraftsApart
<1>6. OneEach' /\ Complete' /\ PlaceholdersEnd'
  BY <1>1, <1>2 DEF CountryInv, OneEach, Complete, PlaceholdersEnd, Placeholders
<1> QED BY <1>4, <1>5, <1>6 DEF CountryInv

\* What every request in progress is about, once it is not a generation.
LEMMA Asked ==
    ASSUME CountryInv, NEW c \in Desks, desk[c].op \in DeskOps, Exists(desk[c].rule)
    PROVE  /\ desk[c] \in Desk /\ desk[c].rule \in Rules /\ rule[desk[c].rule] \in Rule
           /\ desk[c].op # "draft" /\ desk[c].op # "idle"
           /\ rule[desk[c].rule].status \notin {"absent", "deleted"}
           /\ desk[c].op # "delete" =>
                  /\ rule[desk[c].rule].status # "generating"
                  /\ \A d \in Desks : desk[d].op = "draft" => desk[d].rule # desk[c].rule
<1>1. desk[c].op # "draft" /\ desk[c].op # "idle"
  BY DEF DeskOps
<1>2. desk[c] \in Desk /\ desk[c].rule \in Rules /\ rule[desk[c].rule] \in Rule
  BY <1>1 DEF CountryInv, CountryTypeOK, DesksFit
<1> QED BY <1>1, <1>2 DEF CountryInv, DesksFit, Exists

\* A check that passes.
LEMMA ReadRuleInv ==
    ASSUME CountryInv, NEW c \in Desks, NEW r \in Rules, NEW op \in DeskOps \ {"edit"}, ReadRule(c, r, op)
    PROVE  CountryInv'
<1> DEFINE n == [NoDesk EXCEPT !.op = op, !.step = IF op = "publish" THEN "list" ELSE "write",
                               !.rule = r]
<1>1. /\ desk[c].op # "draft" /\ Exists(r) /\ MayDo(op, rule[r])
      /\ desk' = [desk EXCEPT ![c] = n] /\ UNCHANGED <<rule, orphaned, overtaken>>
  BY DEF ReadRule, NoDesk
<1>2. /\ n \in Desk /\ n.op = op /\ n.rule = r /\ ~n.stale /\ n.current = NoRule
      /\ n.step = "list" => n.op = "publish"
  BY RuleTyping DEF NoDesk, Desk
<1> HIDE DEF n
<1>3. rule[r].status # "absent" /\ (rule[r].status = "generating" => op = "delete")
  BY <1>1 DEF Exists, MayDo, DeskOps
<1> QED BY <1>1, <1>2, <1>3, ReadPolicyInv

\* An edit that has read its rule.
LEMMA ReadForEditInv ==
    ASSUME CountryInv, NEW c \in Desks, NEW r \in Rules, ReadForEdit(c, r) PROVE CountryInv'
<1>1. PICK source \in BOOLEAN, given \in {"kept", "filled", "emptied"} :
          desk' = [desk EXCEPT ![c] =
                     [NoDesk EXCEPT !.op = "edit", !.step = "write", !.rule = r, !.given = given,
                                    !.seen = rule[r], !.new = [rule[r] EXCEPT !.source = source]]]
  BY DEF ReadForEdit
<1> DEFINE row == [rule[r] EXCEPT !.source = source]
<1>2. rule[r] \in Rule /\ row \in Rule /\ row.status = rule[r].status
  BY DEF CountryInv, CountryTypeOK, Rule
<1> HIDE DEF row
<1> DEFINE n == [NoDesk EXCEPT !.op = "edit", !.step = "write", !.rule = r, !.given = given,
                               !.seen = rule[r], !.new = row]
<1>3. /\ n \in Desk /\ n.op = "edit" /\ n.step = "write" /\ n.rule = r /\ n.seen = rule[r]
      /\ n.new.status = n.seen.status
  BY <1>2, RuleTyping DEF NoDesk, Desk, DeskOps
<1>4. desk' = [desk EXCEPT ![c] = n]
  BY <1>1 DEF row
<1> HIDE DEF n
<1>5. /\ desk[c].op # "draft" /\ MayDo("edit", rule[r]) /\ rule[r].status = "draft"
      /\ UNCHANGED <<rule, orphaned, overtaken>>
  BY DEF ReadForEdit, NoDesk, MayDo
<1> QED BY <1>3, <1>4, <1>5, ReadPolicyInv DEF DeskOps

\* A publication that has read which policy it replaces.
LEMMA ListCurrentInv == ASSUME CountryInv, NEW c \in Desks, ListCurrent(c) PROVE CountryInv'
<1>1. PICK current \in Rules \cup {NoRule} :
          /\ current # NoRule => current # desk[c].rule /\ rule[current].status = "published"
          /\ desk' = [desk EXCEPT ![c].step = "write", ![c].current = current]
  BY DEF ListCurrent, Published
<1>2. UNCHANGED <<rule, orphaned, overtaken>> /\ desk[c] \in Desk /\ desk[c].op = "publish"
  BY DEF ListCurrent, CountryInv, CountryTypeOK, DesksFit
<1> DEFINE n == [desk[c] EXCEPT !.step = "write", !.current = current]
<1>3. /\ n \in Desk /\ n.op = "publish" /\ n.rule = desk[c].rule /\ n.current = current
      /\ n.step = "write"
      /\ n.seen = desk[c].seen /\ n.new = desk[c].new /\ (n.stale <=> desk[c].stale)
  BY <1>2 DEF Desk
<1>4. desk' = [desk EXCEPT ![c] = n]
  BY <1>1 DEF CountryInv, CountryTypeOK
<1> HIDE DEF n
<1>5. /\ desk[c].rule \in Rules /\ rule[desk[c].rule].status # "absent"
      /\ ~desk[c].stale => MayDo("publish", rule[desk[c].rule])
      /\ rule[desk[c].rule].status # "generating"
  BY <1>2 DEF CountryInv, DesksFit, DeskOps
<1>6. n.op \in DeskOps /\ desk[c].op # "draft"
  BY <1>2, <1>3 DEF DeskOps
<1>7. n.current # NoRule => /\ n.current # n.rule
                            /\ rule[n.current].status \notin {"absent", "generating"}
  BY <1>1, <1>3
<1>8. ~n.stale => MayDo(n.op, rule[n.rule])
  BY <1>3, <1>5
<1> QED BY <1>2, <1>3, <1>4, <1>5, <1>6, <1>7, <1>8, ReadPolicyInv

\* An edit keeps the status that the rule has.
LEMMA EditRule ==
    ASSUME CountryInv, NEW c \in Desks, Edit(c)
    PROVE  /\ rule' \in [Rules -> Rule]
           /\ rule'[desk[c].rule].status = rule[desk[c].rule].status
           /\ \A q \in Rules \ {desk[c].rule} : rule'[q] = rule[q]
<1> DEFINE r == desk[c].rule
<1>1. Exists(r) /\ desk[c].op \in DeskOps /\ desk[c].op = "edit"
  BY DEF Edit, DeskOps
<1>2. r \in Rules /\ rule[r] \in Rule /\ desk[c] \in Desk
  BY <1>1, Asked
<1>3. PICK requirements \in RequirementsAfter(c) :
          rule' = [rule EXCEPT ![r] = [Flush(rule[r], desk[c].seen, desk[c].new)
                                        EXCEPT !.requirements = requirements]]
  BY DEF Edit
<1>4. requirements \in BOOLEAN
  BY <1>2 DEF RequirementsAfter, Rule, Desk
<1>5. desk[c].seen \in Rule /\ desk[c].new \in Rule /\ desk[c].new.status = desk[c].seen.status
  BY <1>1, <1>2 DEF Desk, CountryInv, DesksFit
<1> DEFINE row == Flush(rule[r], desk[c].seen, desk[c].new)
           written == [row EXCEPT !.requirements = requirements]
<1>6. row \in Rule /\ row.status = rule[r].status
  BY <1>2, <1>5, FlushRule
<1> HIDE DEF row
<1>7. written \in Rule /\ written.status = rule[r].status
  BY <1>4, <1>6 DEF Rule
<1>8. rule' = [rule EXCEPT ![r] = written]
  BY <1>3 DEF row
<1> HIDE DEF written
<1> QED BY <1>2, <1>7, <1>8 DEF CountryInv, CountryTypeOK

\* An edit lands on whatever the rule has become, but never on a placeholder.
LEMMA EditInv == ASSUME CountryInv, NEW c \in Desks, Edit(c) PROVE CountryInv'
<1> DEFINE r == desk[c].rule
<1>1. /\ desk[c].op = "edit" /\ Exists(r) /\ desk' = DesksAfter(c, {r}) /\ UNCHANGED orphaned
      /\ overtaken' = IF desk[c].stale THEN overtaken \cup {r} ELSE overtaken
  BY DEF Edit
<1>2. "edit" \in DeskOps /\ "edit" # "delete"
  BY DEF DeskOps
<1>3. /\ r \in Rules /\ rule[r].status \notin {"absent", "generating"}
      /\ \A d \in Desks : desk[d].op = "draft" => desk[d].rule # r
      /\ desk[c].op # "draft"
  BY <1>1, <1>2, Asked
<1>4. ~desk[c].stale => rule[r].status = "draft"
  BY <1>1, <1>2 DEF CountryInv, DesksFit, MayDo
<1>5. /\ rule' \in [Rules -> Rule] /\ rule'[r].status = rule[r].status
      /\ \A q \in Rules \ {r} : rule'[q] = rule[q]
  BY EditRule
<1>6. overtaken' \subseteq Rules /\ overtaken \subseteq overtaken'
  BY <1>1, <1>3 DEF CountryInv, CountryTypeOK
<1>7. \A q, s \in Rules : rule'[q].status = "published" /\ rule'[s].status = "published" => q = s
  BY <1>5 DEF CountryInv, OneEach
<1>8. \A q \in Rules \ overtaken' :
         rule'[q].status = "published" => rule'[q].source /\ rule'[q].requirements
  BY <1>1, <1>4, <1>5, <1>6 DEF CountryInv, Complete
<1> HIDE DEF r
<1> QED BY <1>1, <1>3, <1>5, <1>6, <1>7, <1>8, WriteInv

\* A publication puts the draft in the place of the policy it archives.
LEMMA PublishRule ==
    ASSUME CountryInv, NEW c \in Desks, Publish(c)
    PROVE  LET r == desk[c].rule
               current == desk[c].current
           IN  /\ rule' \in [Rules -> Rule] /\ r \in Rules
               /\ rule'[r] = [rule[r] EXCEPT !.status = "published"]
               /\ \A q \in Rules \ {r} :
                     /\ q = current => rule'[q] = [rule[q] EXCEPT !.status = "archived"]
                     /\ q # current => rule'[q] = rule[q] /\ rule[q].status # "published"
<1> DEFINE r == desk[c].rule
           current == desk[c].current
           written(q) == CASE q = r -> [rule[q] EXCEPT !.status = "published"]
                           [] q = current -> [rule[q] EXCEPT !.status = "archived"]
                           [] OTHER -> rule[q]
<1>1. /\ Published \subseteq {r, current} /\ rule' = [q \in Rules |-> written(q)]
      /\ Exists(r) /\ desk[c].op \in DeskOps /\ (current # NoRule => Exists(current))
  BY DEF Publish, DeskOps
<1>2. r \in Rules /\ \A q \in Rules : rule[q] \in Rule
  BY <1>1, Asked DEF CountryInv, CountryTypeOK
<1>7. r # current
  BY <1>1, <1>2 DEF CountryInv, DesksFit, Publish
<1> HIDE DEF r, current
<1>3. ASSUME NEW q \in Rules
      PROVE  /\ q = r => written(q) = [rule[q] EXCEPT !.status = "published"]
             /\ q # r /\ q = current => written(q) = [rule[q] EXCEPT !.status = "archived"]
             /\ q # r /\ q # current => written(q) = rule[q]
  <2>1. CASE q = r
    BY <1>7, <2>1
  <2>2. CASE q # r /\ q = current
    BY <2>2
  <2>3. CASE q # r /\ q # current
    BY <2>3
  <2> QED BY <2>1, <2>2, <2>3
<1> HIDE DEF written
<1>4. \A q \in Rules : written(q) \in Rule
  BY <1>2, <1>3 DEF Rule, RulePublishStatus
<1>5. rule' \in [Rules -> Rule] /\ \A q \in Rules : rule'[q] = written(q)
  BY <1>1, <1>4
<1>6. \A q \in Rules \ {r} : q # current => rule[q].status # "published"
  BY <1>1 DEF Published
<1> QED BY <1>2, <1>3, <1>5, <1>6 DEF r, current

\* A publication leaves one policy published.
LEMMA PublishInv == ASSUME CountryInv, NEW c \in Desks, Publish(c) PROVE CountryInv'
<1> DEFINE r == desk[c].rule
           current == desk[c].current
<1>1. /\ desk[c].op = "publish" /\ Exists(r) /\ (current # NoRule => Exists(current))
      /\ desk' = DesksAfter(c, {r, current}) /\ UNCHANGED orphaned
      /\ overtaken' = IF desk[c].stale THEN overtaken \cup {r} ELSE overtaken
  BY DEF Publish
<1>2. "publish" \in DeskOps /\ "publish" # "delete"
  BY DEF DeskOps
<1>3. /\ desk[c] \in Desk /\ r \in Rules /\ rule[r] \in Rule
      /\ \A d \in Desks : desk[d].op = "draft" => desk[d].rule # r
      /\ desk[c].op # "draft"
  BY <1>1, <1>2, Asked
<1>4. /\ rule' \in [Rules -> Rule]
      /\ rule'[r] = [rule[r] EXCEPT !.status = "published"]
      /\ \A q \in Rules \ {r} :
            /\ q = current => rule'[q] = [rule[q] EXCEPT !.status = "archived"]
            /\ q # current => rule'[q] = rule[q] /\ rule[q].status # "published"
  BY PublishRule
<1>5. rule'[r].status = "published" /\ rule'[r].source = rule[r].source
      /\ rule'[r].requirements = rule[r].requirements
  BY <1>3, <1>4 DEF Rule
<1>6. \A q \in Rules \ {r} : q = current => rule'[q].status = "archived"
  BY <1>4 DEF CountryInv, CountryTypeOK, Rule
<1>7. ~desk[c].stale => rule[r].source /\ rule[r].requirements
  BY <1>1, <1>2 DEF CountryInv, DesksFit, MayDo
<1>8. overtaken' \subseteq Rules
  BY <1>1, <1>3 DEF CountryInv, CountryTypeOK
<1>9. \A d \in Desks : desk[d].op = "draft" => desk[d].rule # current
  <2>1. current # NoRule => rule[current].status \notin {"absent", "generating", "deleted"}
    BY <1>1 DEF CountryInv, DesksFit, Exists
  <2>2. \A d \in Desks : desk[d].op = "draft" =>
           desk[d].rule # NoRule /\ rule[desk[d].rule].status \in {"generating", "deleted"}
    BY DEF CountryInv, DesksFit
  <2> QED BY <2>1, <2>2
<1>10. \A q, s \in Rules : rule'[q].status = "published" /\ rule'[s].status = "published" => q = s
  BY <1>4, <1>6
<1>11. \A q \in Rules \ overtaken' :
         rule'[q].status = "published" => rule'[q].source /\ rule'[q].requirements
  <2> SUFFICES ASSUME NEW q \in Rules, q \notin overtaken', rule'[q].status = "published"
               PROVE  rule'[q].source /\ rule'[q].requirements
    OBVIOUS
  <2>1. q = r
    BY <1>4, <1>6
  <2>2. ~desk[c].stale
    BY <1>1, <2>1
  <2> QED BY <1>5, <1>7, <2>1, <2>2
<1>12. \A q \in Rules : q \in {r, current} => rule'[q].status \notin {"absent", "generating"}
  BY <1>5, <1>6
<1> HIDE DEF r, current
<1> QED BY <1>1, <1>3, <1>4, <1>8, <1>9, <1>10, <1>11, <1>12, WriteInv

\* An archived, restored or deleted rule leaves the others alone.
LEMMA ShelveRule ==
    ASSUME CountryInv, NEW c \in Desks, Shelve(c)
    PROVE  LET r == desk[c].rule IN
           /\ rule' \in [Rules -> Rule] /\ r \in Rules
           /\ rule'[r] = [rule[r] EXCEPT !.status = StatusAfter(desk[c].op)]
           /\ rule'[r].status \in {"archived", "draft", "deleted"}
           /\ desk[c].op = "delete" => rule'[r].status = "deleted"
           /\ \A q \in Rules \ {r} : rule'[q] = rule[q]
<1> DEFINE r == desk[c].rule
           status == StatusAfter(desk[c].op)
           row == [rule[r] EXCEPT !.status = status]
<1>1. /\ desk[c].op \in DeskOps /\ Exists(r) /\ desk[c].op \in {"archive", "restore", "delete"}
      /\ rule' = [rule EXCEPT ![r] = row]
  BY DEF Shelve, DeskOps, CountryInv, CountryTypeOK
<1>2. r \in Rules /\ rule[r] \in Rule
  BY <1>1, Asked
<1>3. status \in {"archived", "draft", "deleted"} /\ (desk[c].op = "delete" => status = "deleted")
  BY <1>1 DEF StatusAfter
<1> HIDE DEF status
<1>4. row \in Rule /\ row.status = status
  BY <1>2, <1>3 DEF Rule, RulePublishStatus
<1> HIDE DEF row
<1>5. rule' \in [Rules -> Rule] /\ rule'[r] = row /\ \A q \in Rules \ {r} : rule'[q] = rule[q]
  BY <1>1, <1>2, <1>4 DEF CountryInv, CountryTypeOK
<1> QED BY <1>2, <1>3, <1>4, <1>5 DEF row, status

\* A shelved rule is not published, whatever it was.
LEMMA ShelveInv == ASSUME CountryInv, NEW c \in Desks, Shelve(c) PROVE CountryInv'
<1> DEFINE r == desk[c].rule
<1>1. /\ desk[c].op \in DeskOps /\ Exists(r) /\ desk' = DesksAfter(c, {r}) /\ UNCHANGED orphaned
      /\ overtaken' = IF desk[c].stale THEN overtaken \cup {r} ELSE overtaken
  BY DEF Shelve, DeskOps
<1>2. /\ r \in Rules /\ desk[c].op # "draft"
      /\ desk[c].op # "delete" => \A d \in Desks : desk[d].op = "draft" => desk[d].rule # r
  BY <1>1, Asked
<1>3. /\ rule' \in [Rules -> Rule]
      /\ rule'[r].status \in {"archived", "draft", "deleted"}
      /\ desk[c].op = "delete" => rule'[r].status = "deleted"
      /\ \A q \in Rules \ {r} : rule'[q] = rule[q]
  BY ShelveRule
<1>4. overtaken' \subseteq Rules /\ overtaken \subseteq overtaken'
  BY <1>1, <1>2 DEF CountryInv, CountryTypeOK
<1>5. \A q, s \in Rules : rule'[q].status = "published" /\ rule'[s].status = "published" => q = s
  BY <1>3 DEF CountryInv, OneEach
<1>6. \A q \in Rules \ overtaken' :
         rule'[q].status = "published" => rule'[q].source /\ rule'[q].requirements
  BY <1>3, <1>4 DEF CountryInv, Complete
<1> HIDE DEF r
<1> QED BY <1>1, <1>2, <1>3, <1>4, <1>5, <1>6, WriteInv

\* A request that fails leaves no trace.
LEMMA DeskRollBackInv == ASSUME CountryInv, NEW c \in Desks, DeskRollBack(c) PROVE CountryInv'
<1>1. /\ desk[c].op # "draft" /\ desk' = [desk EXCEPT ![c] = NoDesk]
      /\ UNCHANGED <<rule, orphaned, overtaken>>
  BY DEF DeskRollBack, DeskOps
<1>2. /\ desk' \in [Desks -> Desk] /\ desk'[c] = NoDesk
      /\ \A d \in Desks \ {c} : desk'[d] = desk[d]
  BY <1>1, RuleTyping DEF CountryInv, CountryTypeOK
<1>3. NoDesk.op = "idle" /\ NoDesk.step = "idle" /\ "idle" \notin DeskOps
  BY DEF NoDesk, DeskOps
<1>4. CountryTypeOK' /\ OneEach' /\ Complete'
  BY <1>1, <1>2 DEF CountryInv, CountryTypeOK, OneEach, Complete
<1>5. DesksFit' /\ DraftsApart'
  BY <1>1, <1>2, <1>3 DEF CountryInv, DesksFit, DraftsApart
<1>6. PlaceholdersEnd'
  BY <1>1, <1>2 DEF CountryInv, PlaceholdersEnd, Placeholders
<1> QED BY <1>4, <1>5, <1>6 DEF CountryInv

\* Every step keeps the inductive invariant.
LEMMA CountryNextInv == CountryInv /\ [CountryNext]_countryVars => CountryInv'
<1> SUFFICES ASSUME CountryInv, [CountryNext]_countryVars PROVE CountryInv'
  OBVIOUS
<1>1. CASE UNCHANGED countryVars
  BY <1>1 DEF countryVars, CountryInv, CountryTypeOK, DesksFit, DraftsApart, OneEach, Complete,
              PlaceholdersEnd, Placeholders
<1>2. CASE CountryNext
  <2>1. PICK c \in Desks :
           \/ \E r \in Rules : StartDraft(c, r) \/ ReadForEdit(c, r)
           \/ \E r \in Rules, op \in DeskOps \ {"edit"} : ReadRule(c, r, op)
           \/ LandDraft(c) \/ LoseDraft(c) \/ ListCurrent(c)
           \/ Edit(c) \/ Publish(c) \/ Shelve(c) \/ DeskRollBack(c)
    BY <1>2 DEF CountryNext
  <2>2. CASE \E r \in Rules : StartDraft(c, r) \/ ReadForEdit(c, r)
    BY <2>2, StartInv, ReadForEditInv
  <2>3. CASE \E r \in Rules, op \in DeskOps \ {"edit"} : ReadRule(c, r, op)
    BY <2>3, ReadRuleInv
  <2>4. CASE LandDraft(c) \/ LoseDraft(c) \/ ListCurrent(c)
    BY <2>4, LandInv, LoseInv, ListCurrentInv
  <2>5. CASE Edit(c) \/ Publish(c) \/ Shelve(c) \/ DeskRollBack(c)
    BY <2>5, EditInv, PublishInv, ShelveInv, DeskRollBackInv
  <2> QED BY <2>1, <2>2, <2>3, <2>4, <2>5
<1> QED BY <1>1, <1>2

\* The inductive invariant holds in every reachable state.
LEMMA CountrySpecInv == CountrySpec => []CountryInv
BY CountryInitInv, CountryNextInv, PTL DEF CountrySpec

-----------------------------------------------------------------------------
(* What administrators and assessments rely on                               *)

\* A set without two elements has at most one.
LEMMA AtMostOne ==
    ASSUME NEW S, \A x, y \in S : x = y
    PROVE  Cardinality(S) <= 1
<1>1. CASE S = {}
  BY <1>1, FS_EmptySet
<1>2. CASE S # {}
  <2>1. PICK x : x \in S
    BY <1>2
  <2>2. S = {x}
    BY <2>1
  <2> QED BY <2>2, FS_Singleton
<1> QED BY <1>1, <1>2

\* The assessments find at most one published policy, and one is generated at a time,
\* for any number of policies and of requests in progress.
THEOREM OneIsLive == CountrySpec => []OneLivePolicy
<1>1. CountryInv => OneLivePolicy
  <2> SUFFICES ASSUME CountryInv PROVE OneLivePolicy
    OBVIOUS
  <2>1. \A q, r \in Published : q = r
    BY DEF CountryInv, OneEach, Published
  <2>2. \A q, r \in Placeholders : q = r
    BY DEF CountryInv, OneEach, Placeholders
  <2> QED BY <2>1, <2>2, AtMostOne DEF OneLivePolicy
<1> QED BY <1>1, CountrySpecInv, PTL

\* A placeholder is being drafted, unless its generation stopped with the process.
THEOREM PlaceholdersAreDrafted == CountrySpec => []PlaceholdersEnd
<1>1. CountryInv => PlaceholdersEnd
  BY DEF CountryInv
<1> QED BY <1>1, CountrySpecInv, PTL

\* What one step may do to a published rule that is not overtaken.
LEMMA StandsStep ==
    ASSUME CountryInv, CountryInv', CountryNext, NEW r \in Rules \ overtaken',
           rule[r].status = "published"
    PROVE  /\ rule'[r].status \in {"published", "archived"}
           /\ [rule'[r] EXCEPT !.status = "published"] = rule[r]
<1>1. r \in Rules /\ rule \in [Rules -> Rule] /\ rule[r] \in Rule
  BY DEF CountryInv, CountryTypeOK
<1>2. PICK c \in Desks :
         \/ \E q \in Rules : StartDraft(c, q) \/ ReadForEdit(c, q)
         \/ \E q \in Rules, op \in DeskOps \ {"edit"} : ReadRule(c, q, op)
         \/ LandDraft(c) \/ LoseDraft(c) \/ ListCurrent(c)
         \/ Edit(c) \/ Publish(c) \/ Shelve(c) \/ DeskRollBack(c)
  BY DEF CountryNext
<1>3. CASE rule'[r] = rule[r]
  BY <1>1, <1>3 DEF Rule
<1>4. CASE UNCHANGED rule
  BY <1>3, <1>4
<1>5. ASSUME NEW q \in Rules, StartDraft(c, q) PROVE rule'[r] = rule[r]
  BY <1>1, <1>5 DEF StartDraft
<1>6. CASE LandDraft(c)
  <2>1. desk[c].op = "draft" /\ rule[desk[c].rule].status # "published"
    BY <1>6 DEF LandDraft, CountryInv, DesksFit
  <2>2. rule'[r] = rule[r]
    BY <1>1, <1>6, <2>1 DEF LandDraft
  <2> QED BY <2>2, <1>3
<1>7. CASE desk[c].op \in DeskOps /\ overtaken' = (IF desk[c].stale THEN overtaken \cup {desk[c].rule} ELSE overtaken)
  <2>1. r = desk[c].rule => MayDo(desk[c].op, rule[r])
    BY <1>7 DEF CountryInv, DesksFit
  <2>2. CASE Edit(c)
    <3>1. r # desk[c].rule
      BY <2>1, <2>2 DEF Edit, MayDo
    <3> QED BY <1>3, <2>2, <3>1, EditRule
  <2>3. CASE Publish(c)
    <3>1. r # desk[c].rule
      BY <2>1, <2>3 DEF Publish, MayDo
    <3>2. rule'[r] = [rule[r] EXCEPT !.status = "archived"] \/ rule'[r] = rule[r]
      BY <2>3, <3>1, PublishRule
    <3> QED BY <1>1, <1>3, <3>2 DEF Rule
  <2>4. CASE Shelve(c)
    <3>1. CASE r # desk[c].rule
      BY <1>3, <2>4, <3>1, ShelveRule
    <3>2. CASE r = desk[c].rule
      <4>1. desk[c].op = "archive"
        BY <2>1, <2>4, <3>2 DEF Shelve, MayDo
      <4>2. rule'[r] = [rule[r] EXCEPT !.status = "archived"]
        BY <2>4, <3>2, <4>1, ShelveRule DEF StatusAfter
      <4> QED BY <1>1, <4>2 DEF Rule
    <3> QED BY <3>1, <3>2
  <2>5. CASE ~(Edit(c) \/ Publish(c) \/ Shelve(c))
    BY <1>2, <1>3, <1>4, <1>5, <1>6, <2>5 DEF ReadForEdit, ReadRule, LoseDraft, ListCurrent, DeskRollBack
  <2> QED BY <2>2, <2>3, <2>4, <2>5
<1>8. CASE ~(Edit(c) \/ Publish(c) \/ Shelve(c))
  BY <1>2, <1>3, <1>4, <1>5, <1>6, <1>8 DEF ReadForEdit, ReadRule, LoseDraft, ListCurrent, DeskRollBack
<1> QED BY <1>7, <1>8 DEF Edit, Publish, Shelve, DeskOps

\* What is published is complete, and nothing but archiving changes it until it is
\* archived, unless a request had read the rule before another one wrote it.
THEOREM PublishedIsImmutable == CountrySpec => PublishedStands
<1>1. CountryInv /\ CountryInv' /\ [CountryNext]_countryVars =>
         [\A r \in Rules \ overtaken' :
             /\ rule'[r].status = "published" => rule'[r].source /\ rule'[r].requirements
             /\ rule[r].status = "published" =>
                   /\ rule'[r].status \in {"published", "archived"}
                   /\ [rule'[r] EXCEPT !.status = "published"] = rule[r]]_countryVars
  <2> SUFFICES ASSUME CountryInv, CountryInv', CountryNext, NEW r \in Rules \ overtaken'
               PROVE  /\ rule'[r].status = "published" => rule'[r].source /\ rule'[r].requirements
                      /\ rule[r].status = "published" =>
                            /\ rule'[r].status \in {"published", "archived"}
                            /\ [rule'[r] EXCEPT !.status = "published"] = rule[r]
    OBVIOUS
  <2>1. rule'[r].status = "published" => rule'[r].source /\ rule'[r].requirements
    BY DEF CountryInv, Complete
  <2> QED BY <2>1, StandsStep
<1> QED BY <1>1, CountrySpecInv, PTL DEF CountrySpec, PublishedStands

-----------------------------------------------------------------------------
(* What is shown of the seeker's documents                                    *)

\* A document that is marked as expired has no date to come, unless an administrator has
\* marked it.
ExpiredInTime ==
    \A d \in Documents :
        portfolio[d] # Absent /\ portfolio[d].status = "expired" /\ d \notin byHand
            => portfolio[d].expiry \notin {"ahead", "today"}

\* The seeker has seen, or just missed, what was begun before the comments were last read.
ReadInOrder ==
    \A i \in DOMAIN remarks : i \in looked \cup overlooked <=> i <= lastRead[remarks[i].document]

FolderRows ==
    /\ DOMAIN portfolio = Documents /\ DOMAIN opinion = Documents
    /\ \A d \in Documents : portfolio[d] = Absent \/ portfolio[d] \in Document
    /\ \A d \in Documents : DOMAIN opinion[d] = Advisors
    /\ \A d \in Documents, a \in Advisors : opinion[d][a] = NoOpinion \/ opinion[d][a] \in Opinion
    /\ clock \in 0 .. MaxClock
    /\ ExpiredInTime

RemarksFit == remarks \in Seq(Remark) /\ FolderTypeOK /\ ReadInOrder

FolderInv == FolderRows /\ RemarksFit /\ used \subseteq Uploads

LEMMA FolderInitInv == FolderInit => FolderInv
<1> SUFFICES ASSUME FolderInit PROVE FolderInv
  OBVIOUS
<1>1. FolderRows
  BY ClockAssumption DEF FolderInit, FolderRows, ExpiredInTime
<1>2. Len(remarks) = 0 /\ DOMAIN remarks = {} /\ remarks \in Seq(Remark)
  BY DEF FolderInit, NoRemarks
<1>3. RemarksFit
  BY <1>2 DEF FolderInit, NoRemarks, RemarksFit, FolderTypeOK, ReadInOrder
<1> QED BY <1>1, <1>3 DEF FolderInit, FolderInv

-----------------------------------------------------------------------------
\* A document that lapsed is no other otherwise.
LEMMA FreshType ==
    ASSUME FolderInv, NEW d \in Documents, portfolio[d] # Absent
    PROVE  /\ Fresh[d] \in Document /\ Fresh[d].file = portfolio[d].file /\ Fresh[d].expiry = portfolio[d].expiry
           /\ Fresh[d].archived = portfolio[d].archived
           /\ \/ Fresh[d].status = portfolio[d].status
              \/ Fresh[d].status = "expired" /\ portfolio[d].expiry = "past"
<1>1. portfolio[d] \in Document /\ clock \in 0 .. MaxClock
  BY DEF FolderInv, FolderRows
<1>2. Fresh[d] = IF Active(d) /\ Refreshed(portfolio[d]) # portfolio[d]
                 THEN [Refreshed(portfolio[d]) EXCEPT !.updated = clock] ELSE portfolio[d]
  BY DEF Fresh
<1> QED BY <1>1, <1>2 DEF Refreshed, Document, DocumentStatus

\* Only documents that are there are refreshed.
LEMMA FreshRows ==
    ASSUME FolderInv
    PROVE  /\ DOMAIN Fresh = Documents
           /\ \A d \in Documents : Fresh[d] = Absent \/ Fresh[d] \in Document
           /\ \A d \in Documents :
                 Fresh[d] # Absent /\ Fresh[d].status = "expired" /\ d \notin byHand
                     => Fresh[d].expiry \notin {"ahead", "today"}
<1>1. DOMAIN Fresh = Documents
  BY DEF Fresh
<1>2. ASSUME NEW d \in Documents, portfolio[d] = Absent PROVE Fresh[d] = Absent
  BY <1>2 DEF Fresh, Active
<1>3. ASSUME NEW d \in Documents, portfolio[d] # Absent
      PROVE  /\ Fresh[d] \in Document
             /\ Fresh[d].status = "expired" /\ d \notin byHand => Fresh[d].expiry \notin {"ahead", "today"}
  BY <1>3, FreshType DEF FolderInv, FolderRows, ExpiredInTime
<1> QED BY <1>1, <1>2, <1>3

\* What writes the rows of documents
LEMMA FolderRowsInv ==
    ASSUME FolderInv, UNCHANGED <<clock, remarks, lastRead, looked, overlooked, used>>,
           byHand \subseteq byHand', byHand' \subseteq Documents,
           DOMAIN portfolio' = Documents, DOMAIN opinion' = Documents,
           \A d \in Documents : portfolio'[d] = Absent \/ portfolio'[d] \in Document,
           \A d \in Documents : DOMAIN opinion'[d] = Advisors,
           \A d \in Documents, a \in Advisors : opinion'[d][a] = NoOpinion \/ opinion'[d][a] \in Opinion,
           \A d \in Documents :
              portfolio'[d] # Absent /\ portfolio'[d].status = "expired" /\ d \notin byHand'
                  => portfolio'[d].expiry \notin {"ahead", "today"}
    PROVE  FolderInv'
<1>1. FolderRows'
  BY DEF FolderInv, FolderRows, ExpiredInTime
<1>2. RemarksFit'
  BY DEF FolderInv, RemarksFit, FolderTypeOK, ReadInOrder
<1> QED BY <1>1, <1>2 DEF FolderInv

\* The same, for a request that writes one row
LEMMA WriteRowInv ==
    ASSUME FolderInv, UNCHANGED <<clock, remarks, lastRead, looked, overlooked, used>>,
           byHand \subseteq byHand', byHand' \subseteq Documents,
           NEW d \in Documents, NEW row \in Document, Write(d, row),
           row.status = "expired" /\ d \notin byHand' => row.expiry \notin {"ahead", "today"},
           DOMAIN opinion' = Documents, \A e \in Documents : DOMAIN opinion'[e] = Advisors,
           \A e \in Documents, a \in Advisors : opinion'[e][a] = NoOpinion \/ opinion'[e][a] \in Opinion
    PROVE  FolderInv'
<1> DEFINE new == [row EXCEPT !.updated = clock]
<1>1. new \in Document /\ new.status = row.status /\ new.expiry = row.expiry
  BY DEF Document, FolderInv, FolderRows
<1>2. portfolio' = [Fresh EXCEPT ![d] = new]
  BY DEF Write
<1> HIDE DEF new
<1>3. DOMAIN portfolio' = Documents /\ portfolio'[d] = new
      /\ \A e \in Documents \ {d} : portfolio'[e] = Fresh[e]
  BY <1>2, FreshRows
<1>4. \A e \in Documents : portfolio'[e] = Absent \/ portfolio'[e] \in Document
  BY <1>1, <1>3, FreshRows
<1>5. \A e \in Documents :
         portfolio'[e] # Absent /\ portfolio'[e].status = "expired" /\ e \notin byHand'
             => portfolio'[e].expiry \notin {"ahead", "today"}
  BY <1>1, <1>3, FreshRows
<1> QED BY <1>3, <1>4, <1>5, FolderRowsInv

\* What says something of a document, and writes no row
LEMMA RemarksInv ==
    ASSUME FolderInv, UNCHANGED <<portfolio, opinion, clock, byHand, used>>, RemarksFit'
    PROVE  FolderInv'
BY DEF FolderInv, FolderRows, ExpiredInTime

\* The verdicts on a document
LEMMA OpinionsAfter ==
    ASSUME FolderInv, NEW d \in Documents
    PROVE  LET gone == [opinion EXCEPT ![d] = [b \in Advisors |-> NoOpinion]] IN
           /\ DOMAIN gone = Documents /\ \A e \in Documents : DOMAIN gone[e] = Advisors
           /\ \A e \in Documents, a \in Advisors : gone[e][a] = NoOpinion \/ gone[e][a] \in Opinion
BY DEF FolderInv, FolderRows

LEMMA AddRowInv == ASSUME FolderInv, NEW d \in Documents, NEW expiry, Add(d, expiry) PROVE FolderInv'
<1>1. PICK f \in used \ Files : portfolio' = [portfolio EXCEPT ![d] =
                          [status |-> "under_review", expiry |-> expiry, file |-> f, by |-> NoAdvisor,
                           archived |-> FALSE, updated |-> clock]]
  BY DEF Add
<1> DEFINE row == [status |-> "under_review", expiry |-> expiry, file |-> f, by |-> NoAdvisor,
                   archived |-> FALSE, updated |-> clock]
<1>2. row \in Document /\ row.status # "expired"
  BY DEF Add, Document, DocumentStatus, Expiry, FolderInv, FolderRows
<1>3. portfolio' = [portfolio EXCEPT ![d] = row]
  BY <1>1
<1> HIDE DEF row
<1>4. DOMAIN portfolio = Documents /\ DOMAIN opinion = Documents /\ byHand \subseteq Documents
  BY DEF FolderInv, FolderRows, RemarksFit, FolderTypeOK
<1>5. UNCHANGED <<opinion, clock, remarks, lastRead, looked, overlooked, used, byHand>>
  BY DEF Add, remarkVars, shelfVars
<1>6. /\ DOMAIN portfolio' = Documents
      /\ \A e \in Documents : portfolio'[e] = Absent \/ portfolio'[e] \in Document
      /\ \A e \in Documents :
            portfolio'[e] # Absent /\ portfolio'[e].status = "expired" /\ e \notin byHand'
                => portfolio'[e].expiry \notin {"ahead", "today"}
  BY <1>2, <1>3, <1>4, <1>5 DEF FolderInv, FolderRows, ExpiredInTime
<1>7. /\ \A e \in Documents : DOMAIN opinion'[e] = Advisors
      /\ \A e \in Documents, a \in Advisors : opinion'[e][a] = NoOpinion \/ opinion'[e][a] \in Opinion
  BY <1>5 DEF FolderInv, FolderRows
<1> QED BY <1>4, <1>5, <1>6, <1>7, FolderRowsInv

\* update_document takes "expired" off with another date or another file.
LEMMA AmendedSays ==
    ASSUME NEW row \in Document, NEW expiry \in {"kept", "clear", "set"}, NEW f \in Uploads \cup {NoUpload},
           Amended(row, expiry, f).status = "expired"
    PROVE  row.status = "expired" /\ Amended(row, expiry, f).expiry \in {row.expiry, "none"}
<1> DEFINE dated == [row EXCEPT
                    !.by = NoAdvisor,
                    !.expiry = CASE expiry = "kept" -> @ [] expiry = "clear" -> "none"
                                 [] expiry = "set" -> "ahead",
                    !.status = IF expiry = "set" /\ @ = "expired" THEN "under_review" ELSE @]
<1>1. /\ dated.expiry = CASE expiry = "kept" -> row.expiry [] expiry = "clear" -> "none"
                          [] expiry = "set" -> "ahead"
      /\ dated.status = IF expiry = "set" /\ row.status = "expired" THEN "under_review" ELSE row.status
  BY DEF Document
<1>2. Amended(row, expiry, f) =
         IF f = NoUpload THEN dated
         ELSE [dated EXCEPT !.file = f, !.status = "under_review",
                            !.expiry = IF expiry = "kept" /\ @ \in {"today", "past"} THEN "none"
                                       ELSE @]
  BY DEF Amended
<1>3. DOMAIN dated = {"status", "expiry", "file", "by", "archived", "updated"}
  BY DEF Document
<1> HIDE DEF dated
<1>4. f = NoUpload /\ Amended(row, expiry, f) = dated
  BY <1>2, <1>3
<1> QED BY <1>1, <1>4

LEMMA UpdateInv ==
    ASSUME FolderInv, NEW d \in Documents, NEW expiry \in {"kept", "clear", "set"}, NEW another \in BOOLEAN,
           Update(d, expiry, another)
    PROVE  FolderInv'
<1> DEFINE old == Fresh[d]
           f   == IF another THEN old.file ELSE NoUpload
           row == Amended(old, expiry, f)
<1>1. portfolio[d] # Absent
  BY DEF Update, Active
<1>2. old \in Document /\ old.file \in Uploads
  BY <1>1, FreshType DEF Document
<1>3. f \in Uploads \cup {NoUpload}
  BY <1>2
<1>4. Write(d, row) /\ UNCHANGED <<clock, remarks, lastRead, looked, overlooked, used, byHand>>
  BY DEF Update, remarkVars, shelfVars
<1>5. opinion' = opinion \/ opinion' = [opinion EXCEPT ![d] = [a \in Advisors |-> NoOpinion]]
  BY DEF Update
<1>6. old.status = "expired" /\ d \notin byHand => old.expiry \notin {"ahead", "today"}
  BY <1>2, FreshRows, DocumentThere
<1> HIDE DEF old, f
<1>7. row \in Document /\ (row.status = "expired" => old.status = "expired" /\ row.expiry \in {old.expiry, "none"})
  BY <1>2, <1>3, AmendedType, AmendedSays
<1> HIDE DEF row
<1>8. /\ DOMAIN opinion' = Documents /\ \A e \in Documents : DOMAIN opinion'[e] = Advisors
      /\ \A e \in Documents, a \in Advisors : opinion'[e][a] = NoOpinion \/ opinion'[e][a] \in Opinion
  BY <1>5, OpinionsAfter DEF FolderInv, FolderRows
<1>9. byHand \subseteq Documents
  BY DEF FolderInv, RemarksFit, FolderTypeOK
<1> QED BY <1>4, <1>6, <1>7, <1>8, <1>9, WriteRowInv

\* The other requests that write a document
LEMMA ChangeInv ==
    ASSUME FolderInv, NEW d \in Documents,
           Archive(d) \/ (\E status \in Given : SetStatus(d, status))
    PROVE  FolderInv'
<1>1. portfolio[d] # Absent /\ byHand \subseteq Documents
  BY DEF Archive, SetStatus, Active, FolderInv, RemarksFit, FolderTypeOK
<1>2. Fresh[d] \in Document
  BY <1>1, FreshType
<1>3. Fresh[d].status = "expired" /\ d \notin byHand => Fresh[d].expiry \notin {"ahead", "today"}
  BY <1>2, FreshRows, DocumentThere
<1>4. /\ DOMAIN opinion = Documents /\ \A e \in Documents : DOMAIN opinion[e] = Advisors
      /\ \A e \in Documents, a \in Advisors : opinion[e][a] = NoOpinion \/ opinion[e][a] \in Opinion
  BY DEF FolderInv, FolderRows
<1>5. CASE Archive(d)
  <2> DEFINE row == [Fresh[d] EXCEPT !.archived = TRUE, !.by = NoAdvisor]
  <2>1. row \in Document /\ row.status = Fresh[d].status /\ row.expiry = Fresh[d].expiry
    BY <1>2 DEF Document
  <2>2. Write(d, row) /\ UNCHANGED <<clock, remarks, lastRead, looked, overlooked, used, byHand, opinion>>
    BY <1>5 DEF Archive, remarkVars, shelfVars
  <2> HIDE DEF row
  <2> QED BY <1>1, <1>3, <1>4, <2>1, <2>2, WriteRowInv
<1>6. ASSUME NEW status \in Given, SetStatus(d, status) PROVE FolderInv'
  <2> DEFINE row == [Fresh[d] EXCEPT !.status = status, !.by = NoAdvisor]
  <2>1. row \in Document /\ row.status = status
    BY <1>2, VerdictAssumption DEF Document
  <2>2. /\ Write(d, row) /\ UNCHANGED <<clock, remarks, lastRead, looked, overlooked, used, opinion>>
        /\ byHand' = IF status = "expired" THEN byHand \cup {d} ELSE byHand
    BY <1>6 DEF SetStatus, shelfVars
  <2> HIDE DEF row
  <2> QED BY <1>1, <1>4, <2>1, <2>2, WriteRowInv
<1> QED BY <1>5, <1>6

LEMMA JudgeInv ==
    ASSUME FolderInv, NEW d \in Documents, NEW a \in Advisors, NEW status \in Given, Judge(d, a, status)
    PROVE  FolderInv'
<1>1. portfolio[d] # Absent /\ byHand \subseteq Documents
  BY DEF Judge, Active, FolderInv, RemarksFit, FolderTypeOK
<1>2. Fresh[d] \in Document /\ Fresh[d].file \in Uploads /\ status \in DocumentStatus
  BY <1>1, FreshType, VerdictAssumption DEF Document
<1>3. Fresh[d].status = "expired" /\ d \notin byHand => Fresh[d].expiry \notin {"ahead", "today"}
  BY <1>2, FreshRows, DocumentThere
<1>4. UNCHANGED <<clock, remarks, lastRead, looked, overlooked, used, byHand>>
  BY DEF Judge, remarkVars, shelfVars
<1> DEFINE verdict_ == [status |-> status, reviewed |-> clock, file |-> Fresh[d].file]
<1>5. verdict_ \in Opinion
  BY <1>2 DEF Opinion, FolderInv, FolderRows
<1>6. \/ opinion' = [opinion EXCEPT ![d] = [b \in Advisors |-> NoOpinion]]
      \/ opinion' = [opinion EXCEPT ![d][a] = verdict_]
  BY DEF Judge
<1> HIDE DEF verdict_
<1>7. /\ DOMAIN opinion' = Documents /\ \A e \in Documents : DOMAIN opinion'[e] = Advisors
      /\ \A e \in Documents, b \in Advisors : opinion'[e][b] = NoOpinion \/ opinion'[e][b] \in Opinion
  <2>1. CASE opinion' = [opinion EXCEPT ![d] = [b \in Advisors |-> NoOpinion]]
    BY <2>1, OpinionsAfter
  <2>2. CASE opinion' = [opinion EXCEPT ![d][a] = verdict_]
    <3>1. DOMAIN opinion = Documents /\ \A e \in Documents : DOMAIN opinion[e] = Advisors
      BY DEF FolderInv, FolderRows
    <3>2. /\ DOMAIN opinion' = Documents /\ \A e \in Documents : DOMAIN opinion'[e] = Advisors
          /\ opinion'[d][a] = verdict_
          /\ \A e \in Documents, b \in Advisors :
                ~(e = d /\ b = a) => opinion'[e][b] = opinion[e][b]
      BY <2>2, <3>1
    <3> QED BY <1>5, <3>2 DEF FolderInv, FolderRows
  <2> QED BY <1>6, <2>1, <2>2
<1>8. CASE portfolio' = Fresh
  BY <1>1, <1>4, <1>7, <1>8, FreshRows, FolderRowsInv
<1>9. CASE Write(d, [Fresh[d] EXCEPT !.by = a])
  <2> DEFINE row == [Fresh[d] EXCEPT !.by = a]
  <2>1. row \in Document /\ row.status = Fresh[d].status /\ row.expiry = Fresh[d].expiry
    BY <1>2 DEF Document
  <2>2. Write(d, row)
    BY <1>9
  <2> HIDE DEF row
  <2> QED BY <1>1, <1>3, <1>4, <1>7, <2>1, <2>2, WriteRowInv
<1> QED BY <1>8, <1>9 DEF Judge

-----------------------------------------------------------------------------
\* The comments

LEMMA BeginRemarkInv ==
    ASSUME FolderInv, NEW d \in Documents, NEW by \in Advisors \cup {"seeker"}, BeginRemark(d, by)
    PROVE  FolderInv'
<1> DEFINE x == [document |-> d, by |-> by, there |-> FALSE]
<1>1. remarks \in Seq(Remark) /\ x \in Remark /\ remarks' = Append(remarks, x)
  BY DEF BeginRemark, Remark, FolderInv, RemarksFit
<1>2. UNCHANGED <<portfolio, opinion, clock, lastRead, looked, overlooked, byHand, used>>
  BY DEF BeginRemark, shelfVars
<1> HIDE DEF x
<1>3. /\ remarks' \in Seq(Remark) /\ Len(remarks') = Len(remarks) + 1 /\ Len(remarks) \in Nat
      /\ DOMAIN remarks = 1 .. Len(remarks) /\ DOMAIN remarks' = 1 .. Len(remarks')
      /\ remarks'[Len(remarks')] = x /\ \A i \in DOMAIN remarks : remarks'[i] = remarks[i]
  BY <1>1
<1>4. lastRead \in [Documents -> 0 .. Len(remarks)] /\ looked \cup overlooked \subseteq DOMAIN remarks
      /\ byHand \subseteq Documents
  BY DEF FolderInv, RemarksFit, FolderTypeOK
<1>5. lastRead' \in [Documents -> 0 .. Len(remarks')]
  BY <1>2, <1>3, <1>4
<1>6. \A i \in DOMAIN remarks' : remarks'[i] \in Remark
  BY <1>3
<1>7. FolderTypeOK'
  BY <1>2, <1>3, <1>4, <1>5, <1>6 DEF FolderTypeOK
<1>8. ASSUME NEW i \in DOMAIN remarks'
      PROVE  i \in looked' \cup overlooked' <=> i <= lastRead'[remarks'[i].document]
  <2>1. CASE i \in DOMAIN remarks
    BY <1>2, <1>3, <2>1 DEF FolderInv, RemarksFit, ReadInOrder
  <2>2. CASE i = Len(remarks')
    <3>1. i \notin DOMAIN remarks /\ remarks'[i].document \in Documents
      BY <1>3, <1>6, <2>2 DEF Remark
    <3>2. lastRead[remarks'[i].document] \in 0 .. Len(remarks)
      BY <1>4, <3>1
    <3>3. ~(i <= lastRead[remarks'[i].document])
      BY <1>3, <2>2, <3>2
    <3> QED BY <1>2, <1>4, <3>1, <3>3
  <2> QED BY <1>3, <2>1, <2>2
<1>9. RemarksFit'
  BY <1>3, <1>7, <1>8 DEF RemarksFit, ReadInOrder
<1> QED BY <1>2, <1>9, RemarksInv

LEMMA CommitRemarkInv ==
    ASSUME FolderInv, NEW i \in DOMAIN remarks, CommitRemark(i) PROVE FolderInv'
<1>1. remarks \in Seq(Remark) /\ remarks[i] \in Remark
  BY DEF FolderInv, RemarksFit, FolderTypeOK
<1> DEFINE x == [remarks[i] EXCEPT !.there = TRUE]
<1>2. x \in Remark /\ x.document = remarks[i].document
  BY <1>1 DEF Remark
<1>3. remarks' = [remarks EXCEPT ![i] = x] /\ UNCHANGED <<portfolio, opinion, clock, lastRead, looked, overlooked, byHand, used>>
  BY DEF CommitRemark, shelfVars
<1> HIDE DEF x
<1>4. /\ remarks' \in Seq(Remark) /\ Len(remarks') = Len(remarks) /\ DOMAIN remarks' = DOMAIN remarks
      /\ \A j \in DOMAIN remarks : remarks'[j] \in Remark /\ remarks'[j].document = remarks[j].document
  BY <1>1, <1>2, <1>3
<1>5. RemarksFit'
  BY <1>3, <1>4 DEF FolderInv, RemarksFit, FolderTypeOK, ReadInOrder
<1> QED BY <1>3, <1>5, RemarksInv

LEMMA OpenCommentsInv == ASSUME FolderInv, NEW d \in Documents, OpenComments(d) PROVE FolderInv'
<1>1. portfolio[d] # Absent
  BY DEF OpenComments, Active
<1>2. Fresh[d] \in Document
  BY <1>1, FreshType
<1> DEFINE row == [Fresh[d] EXCEPT !.by = NoAdvisor]
           new == [row EXCEPT !.updated = clock]
<1>3. row \in Document /\ row.status = Fresh[d].status /\ row.expiry = Fresh[d].expiry
  BY <1>2 DEF Document
<1>4. new \in Document /\ new.status = Fresh[d].status /\ new.expiry = Fresh[d].expiry
  BY <1>3 DEF Document, FolderInv, FolderRows
<1>5. portfolio' = [Fresh EXCEPT ![d] = new] /\ UNCHANGED <<opinion, clock, remarks, byHand, used>>
  BY DEF OpenComments, Write, shelfVars
<1> HIDE DEF row, new
<1>6. /\ DOMAIN portfolio' = Documents /\ portfolio'[d] = new
      /\ \A e \in Documents \ {d} : portfolio'[e] = Fresh[e]
  BY <1>5, FreshRows
<1>7. FolderRows'
  <2>1. \A e \in Documents : portfolio'[e] = Absent \/ portfolio'[e] \in Document
    BY <1>4, <1>6, FreshRows
  <2>2. Fresh[d] # Absent
    BY <1>2, DocumentThere
  <2>3. ExpiredInTime'
    BY <1>4, <1>5, <1>6, <2>2, FreshRows DEF ExpiredInTime
  <2> QED BY <1>5, <1>6, <2>1, <2>3 DEF FolderInv, FolderRows
<1>8. RemarksFit'
  <2>1. /\ remarks \in Seq(Remark) /\ lastRead \in [Documents -> 0 .. Len(remarks)]
        /\ looked \cup overlooked \subseteq DOMAIN remarks /\ byHand \subseteq Documents
        /\ \A i \in DOMAIN remarks : remarks[i] \in Remark
    BY DEF FolderInv, RemarksFit, FolderTypeOK
  <2>2. Len(remarks) \in Nat /\ DOMAIN remarks = 1 .. Len(remarks)
    BY <2>1
  <2> DEFINE of == {i \in DOMAIN remarks : remarks[i].document = d}
             seen == {i \in DOMAIN remarks : remarks[i].document = d /\ remarks[i].there}
  <2>3. lastRead' = [lastRead EXCEPT ![d] = Len(remarks)] /\ looked' = looked \cup seen
        /\ overlooked' = (overlooked \cup of) \ looked' /\ seen \subseteq of
    BY DEF OpenComments
  <2>4. lastRead' \in [Documents -> 0 .. Len(remarks)]
    BY <2>1, <2>2, <2>3
  <2>5. looked' \cup overlooked' = looked \cup overlooked \cup of
    BY <2>3
  <2>6. FolderTypeOK'
    BY <1>5, <2>1, <2>4, <2>5 DEF FolderTypeOK
  <2>7. ASSUME NEW i \in DOMAIN remarks
        PROVE  i \in looked' \cup overlooked' <=> i <= lastRead'[remarks[i].document]
    <3>1. remarks[i].document \in Documents
      BY <2>1 DEF Remark
    <3>2. CASE remarks[i].document = d
      <4>1. lastRead'[d] = Len(remarks) /\ i <= Len(remarks) /\ i \in of
        BY <2>1, <2>2, <2>3, <3>2
      <4> QED BY <2>5, <3>2, <4>1
    <3>3. CASE remarks[i].document # d
      <4>1. lastRead'[remarks[i].document] = lastRead[remarks[i].document] /\ i \notin of
        BY <2>1, <2>3, <3>1, <3>3
      <4> QED BY <2>5, <4>1 DEF FolderInv, RemarksFit, ReadInOrder
    <3> QED BY <3>2, <3>3
  <2> QED BY <1>5, <2>1, <2>6, <2>7 DEF RemarksFit, ReadInOrder
<1> QED BY <1>5, <1>7, <1>8 DEF FolderInv

\* The lists, the clock and the date
LEMMA LaterInv == ASSUME FolderInv, LaterOn PROVE FolderInv'
<1>1. UNCHANGED <<remarks, lastRead, looked, overlooked, byHand>> /\ byHand \subseteq Documents
  BY DEF LaterOn, remarkVars, FolderInv, RemarksFit, FolderTypeOK
<1>2. /\ DOMAIN opinion = Documents /\ \A e \in Documents : DOMAIN opinion[e] = Advisors
      /\ \A e \in Documents, a \in Advisors : opinion[e][a] = NoOpinion \/ opinion[e][a] \in Opinion
  BY DEF FolderInv, FolderRows
<1>3. CASE ListDocuments
  <2>1. portfolio' = Fresh /\ UNCHANGED <<opinion, clock, used>>
    BY <1>3 DEF ListDocuments, Fresh
  <2> QED BY <1>1, <1>2, <2>1, FreshRows, FolderRowsInv
<1>4. CASE Tick
  <2>1. UNCHANGED <<portfolio, opinion, used>> /\ clock' \in 0 .. MaxClock
    BY <1>4, ClockAssumption DEF Tick, remnants, FolderInv, FolderRows
  <2>2. FolderRows'
    BY <1>1, <2>1 DEF FolderInv, FolderRows, ExpiredInTime
  <2>3. RemarksFit'
    BY <1>1 DEF FolderInv, RemarksFit, FolderTypeOK, ReadInOrder
  <2> QED BY <2>1, <2>2, <2>3 DEF FolderInv
<1>5. ASSUME NEW d \in Documents, DayPasses(d) PROVE FolderInv'
  <2>1. portfolio[d] \in Document /\ portfolio[d].expiry \in {"ahead", "today"}
    BY <1>5 DEF DayPasses, FolderInv, FolderRows
  <2> DEFINE row == [portfolio[d] EXCEPT !.expiry = IF @ = "ahead" THEN "today" ELSE "past"]
  <2>2. row \in Document /\ row.status = portfolio[d].status
    BY <2>1 DEF Document, Expiry
  <2>3. portfolio' = [portfolio EXCEPT ![d] = row] /\ UNCHANGED <<opinion, clock, used>>
    BY <1>5 DEF DayPasses, remnants
  <2> HIDE DEF row
  <2>4. /\ DOMAIN portfolio' = Documents /\ portfolio'[d] = row
        /\ \A e \in Documents \ {d} : portfolio'[e] = portfolio[e]
    BY <2>3 DEF FolderInv, FolderRows
  <2>5. portfolio[d].status = "expired" => d \in byHand
    BY <2>1, DocumentThere DEF FolderInv, FolderRows, ExpiredInTime
  <2>6. \A e \in Documents : portfolio'[e] = Absent \/ portfolio'[e] \in Document
    BY <2>2, <2>4 DEF FolderInv, FolderRows
  <2>7. \A e \in Documents :
           portfolio'[e] # Absent /\ portfolio'[e].status = "expired" /\ e \notin byHand'
               => portfolio'[e].expiry \notin {"ahead", "today"}
    BY <1>1, <2>2, <2>4, <2>5 DEF FolderInv, FolderRows, ExpiredInTime
  <2> QED BY <1>1, <1>2, <2>3, <2>4, <2>6, <2>7, FolderRowsInv
<1> QED BY <1>3, <1>4, <1>5 DEF LaterOn

\* The inductive invariant is one.
LEMMA FolderNextInv == FolderInv /\ [FolderNext]_<<documentVars, remarkVars>> => FolderInv'
<1> SUFFICES ASSUME FolderInv, [FolderNext]_<<documentVars, remarkVars>> PROVE FolderInv'
  OBVIOUS
<1>1. ASSUME NEW d \in Documents, NEW expiry, Add(d, expiry) PROVE FolderInv'
  BY <1>1, AddRowInv
<1>2. ASSUME NEW d \in Documents, NEW expiry \in {"kept", "clear", "set"}, NEW another \in BOOLEAN,
             Update(d, expiry, another)
      PROVE  FolderInv'
  BY <1>2, UpdateInv
<1>3. ASSUME NEW d \in Documents, NEW a \in Advisors, NEW status \in Given, Judge(d, a, status)
      PROVE  FolderInv'
  BY <1>3, JudgeInv
<1>4. ASSUME NEW d \in Documents, Archive(d) \/ OpenComments(d) \/ \E status \in Given : SetStatus(d, status)
      PROVE  FolderInv'
  BY <1>4, ChangeInv, OpenCommentsInv
<1>5. ASSUME NEW d \in Documents, NEW by \in Advisors \cup {"seeker"}, BeginRemark(d, by) PROVE FolderInv'
  BY <1>5, BeginRemarkInv
<1>6. ASSUME NEW i \in DOMAIN remarks, CommitRemark(i) PROVE FolderInv'
  BY <1>6, CommitRemarkInv
<1>7. CASE UNCHANGED <<documentVars, remarkVars>>
  <2>1. UNCHANGED <<portfolio, opinion, clock, used, remarks, lastRead, looked, overlooked, byHand>>
    BY <1>7 DEF documentVars, remnants, remarkVars
  <2> QED BY <2>1 DEF FolderInv, FolderRows, ExpiredInTime, RemarksFit, FolderTypeOK, ReadInOrder
<1> QED BY <1>1, <1>2, <1>3, <1>4, <1>5, <1>6, <1>7, LaterInv DEF FolderNext

-----------------------------------------------------------------------------
(* The screens                                                                *)

\* What is active is there, and Fresh shows it.
LEMMA ActiveRows ==
    ASSUME FolderInv, NEW d \in Documents, Active(d)
    PROVE  /\ portfolio[d] \in Document /\ Fresh[d] \in Document
           /\ Fresh[d].status \in DocumentStatus /\ Fresh[d].expiry = portfolio[d].expiry
           /\ Fresh[d].status # "expired" => Fresh[d] = portfolio[d] /\ Refreshed(portfolio[d]) = portfolio[d]
           /\ Refreshed(portfolio[d]).status = Fresh[d].status
<1>1. portfolio[d] \in Document /\ clock \in 0 .. MaxClock
  BY DEF Active, FolderInv, FolderRows
<1>2. Fresh[d] = IF Refreshed(portfolio[d]) # portfolio[d]
                 THEN [Refreshed(portfolio[d]) EXCEPT !.updated = clock] ELSE portfolio[d]
  BY DEF Fresh
<1>3. Refreshed(portfolio[d]) \in Document
  BY <1>1, RefreshedType
<1>4. Fresh[d] \in Document /\ Fresh[d].status = Refreshed(portfolio[d]).status
  BY <1>1, <1>2, <1>3 DEF Document
<1>5. Refreshed(portfolio[d]) # portfolio[d] => Refreshed(portfolio[d]).status = "expired"
  BY <1>1 DEF Refreshed, Document
<1>6. Fresh[d].expiry = portfolio[d].expiry
  BY <1>1, FreshType, DocumentThere
<1> QED BY <1>1, <1>2, <1>4, <1>5, <1>6 DEF Document

\* What one advisor is shown, and what the seeker is shown
LEMMA ShownTo ==
    ASSUME FolderInv, NEW d \in Documents, Active(d), NEW a \in Advisors
    PROVE  /\ EffectiveStatus(Fresh[d], opinion[d][a]) =
                 IF Fresh[d].status = "expired" THEN "expired"
                 ELSE IF a \in ActiveReviews(d) THEN opinion[d][a].status ELSE "under_review"
           /\ a \in ActiveReviews(d) => opinion[d][a] \in Opinion /\ opinion[d][a].status \in DocumentStatus
BY DEF EffectiveStatus, ActiveReviews, FolderInv, FolderRows, Opinion

LEMMA ShownToSeeker ==
    ASSUME FolderInv, NEW d \in Documents, Active(d)
    PROVE  /\ seeker_effective_status(d) \in DocumentStatus
           /\ seeker_effective_status(d) = "expired" <=> Fresh[d].status = "expired"
           /\ seeker_effective_status(d) = "rejected" <=>
                 /\ Fresh[d].status # "expired"
                 /\ \E a \in Advisors : EffectiveStatus(Fresh[d], opinion[d][a]) = "rejected"
           /\ seeker_effective_status(d) = "approved" <=>
                 /\ Fresh[d].status # "expired"
                 /\ \E a \in Advisors : EffectiveStatus(Fresh[d], opinion[d][a]) = "approved"
                 /\ \A a \in Advisors : EffectiveStatus(Fresh[d], opinion[d][a]) # "rejected"
<1> DEFINE said == {opinion[d][a].status : a \in ActiveReviews(d)}
<1>1. seeker_effective_status(d) =
        IF Fresh[d].status = "expired" THEN "expired"
        ELSE IF "rejected" \in said THEN "rejected"
        ELSE IF "approved" \in said THEN "approved" ELSE "under_review"
  BY DEF seeker_effective_status
<1>2. \A s \in {"rejected", "approved"} : Fresh[d].status # "expired" =>
         (s \in said <=> \E a \in Advisors : EffectiveStatus(Fresh[d], opinion[d][a]) = s)
  <2> SUFFICES ASSUME NEW s \in {"rejected", "approved"}, Fresh[d].status # "expired"
               PROVE  s \in said <=> \E a \in Advisors : EffectiveStatus(Fresh[d], opinion[d][a]) = s
    OBVIOUS
  <2>1. ActiveReviews(d) \subseteq Advisors
    BY DEF ActiveReviews
  <2>2. ASSUME NEW a \in ActiveReviews(d), opinion[d][a].status = s
        PROVE  EffectiveStatus(Fresh[d], opinion[d][a]) = s
    BY <2>1, <2>2, ShownTo
  <2>3. ASSUME NEW a \in Advisors, EffectiveStatus(Fresh[d], opinion[d][a]) = s
        PROVE  a \in ActiveReviews(d) /\ opinion[d][a].status = s
    BY <2>3, ShownTo
  <2> QED BY <2>1, <2>2, <2>3
<1> HIDE DEF said
<1> QED BY <1>1, <1>2 DEF DocumentStatus

\* Where somebody has given a verdict there is a latest one.
LEMMA SomebodyIsLatest ==
    ASSUME FolderInv, NEW d \in Documents, NEW a \in Advisors, opinion[d][a] # NoOpinion
    PROVE  LatestReviewers(d) # {}
<1> DEFINE given == {b \in Advisors : opinion[d][b] # NoOpinion}
           times == {n \in 0 .. MaxClock : \E b \in given : n = MaxClock - opinion[d][b].reviewed}
<1>1. \A b \in given : opinion[d][b].reviewed \in 0 .. MaxClock
  BY DEF FolderInv, FolderRows, Opinion
<1>2. \A b \in given : MaxClock - opinion[d][b].reviewed \in times
  BY <1>1, ClockAssumption
<1>3. times \in SUBSET Nat /\ times # {}
  BY <1>2, ClockAssumption
<1> HIDE DEF times
<1>4. PICK n \in times : \A m \in times : n <= m
  BY <1>3, Least
<1>5. PICK b \in given : n = MaxClock - opinion[d][b].reviewed
  BY <1>4 DEF times
<1>6. ASSUME NEW c \in Advisors, opinion[d][c] # NoOpinion PROVE opinion[d][c].reviewed <= opinion[d][b].reviewed
  <2>1. n <= MaxClock - opinion[d][c].reviewed
    BY <1>2, <1>4, <1>6
  <2>2. opinion[d][c].reviewed \in 0 .. MaxClock /\ opinion[d][b].reviewed \in 0 .. MaxClock
    BY <1>1, <1>6
  <2> QED BY <1>5, <2>1, <2>2, ClockAssumption
<1> QED BY <1>5, <1>6 DEF LatestReviewers

LEMMA SeekerSees == FolderInv => SeekerSeesAdvisors
<1> SUFFICES ASSUME FolderInv, NEW d \in ListedDocuments
             PROVE  LET advisors == {AdvisorRead(d, a).status : a \in Advisors}
                        shown == SeekerRead(d).status IN
                    /\ shown = "rejected" <=> "rejected" \in advisors
                    /\ shown = "approved" <=> "approved" \in advisors /\ "rejected" \notin advisors
                    /\ shown = "expired" => advisors \subseteq {"expired"}
                    /\ shown \in {"approved", "rejected"} => SeekerRead(d).reviewed_by # {}
  BY DEF SeekerSeesAdvisors
<1>1. d \in Documents /\ Active(d)
  BY DEF ListedDocuments, list_by_seeker
<1> DEFINE of(a) == EffectiveStatus(Fresh[d], opinion[d][a])
           shown == seeker_effective_status(d)
<1>2. \A a \in Advisors : AdvisorRead(d, a).status = of(a)
  BY DEF AdvisorRead
<1>3. SeekerRead(d).status = shown /\ SeekerRead(d).reviewed_by = LatestReviewers(d)
  BY DEF SeekerRead
<1>4. Fresh[d].status = "expired" => \A a \in Advisors : of(a) = "expired"
  BY DEF EffectiveStatus
<1>5. /\ shown = "expired" <=> Fresh[d].status = "expired"
      /\ shown = "rejected" <=> Fresh[d].status # "expired" /\ \E a \in Advisors : of(a) = "rejected"
      /\ shown = "approved" <=> /\ Fresh[d].status # "expired" /\ \E a \in Advisors : of(a) = "approved"
                                /\ \A a \in Advisors : of(a) # "rejected"
  BY <1>1, ShownToSeeker
<1>6. ASSUME shown \in {"approved", "rejected"} PROVE LatestReviewers(d) # {}
  <2>1. PICK a \in Advisors : of(a) \in {"approved", "rejected"}
    BY <1>5, <1>6
  <2>2. opinion[d][a] # NoOpinion
    BY <2>1 DEF EffectiveStatus
  <2> QED BY <1>1, <2>2, SomebodyIsLatest
<1> HIDE DEF of, shown
<1> QED BY <1>2, <1>3, <1>4, <1>5, <1>6

-----------------------------------------------------------------------------
\* Counting the documents that are of some kind says whether all are, and whether any is.
LEMMA CountsSay ==
    ASSUME NEW S, IsFiniteSet(S), NEW T \in SUBSET S
    PROVE  /\ Cardinality(S) \in Nat /\ Cardinality(T) \in Nat
           /\ Cardinality(T) = 0 <=> T = {}
           /\ Cardinality(T) = Cardinality(S) <=> T = S
           /\ Cardinality(S) > 0 <=> S # {}
<1>1. IsFiniteSet(T) /\ (Cardinality(S) = Cardinality(T) => S = T)
  BY FS_Subset
<1>2. Cardinality(S) \in Nat /\ Cardinality(T) \in Nat
  BY <1>1, FS_CardinalityType
<1> QED BY <1>1, <1>2, FS_EmptySet

\* The status in the table, without counting
LEMMA RowStatusIs ==
    ASSUME FolderInv, NEW a \in Advisors
    PROVE  LET active == {d \in Documents : Active(d)} IN
           RowStatus(a) = IF active # {} /\ \A d \in active : Effective(d, a) = "rejected" THEN "rejected"
                          ELSE IF active # {} /\ \A d \in active : Effective(d, a) = "approved"
                          THEN "completed" ELSE "pending"
<1> DEFINE active == {d \in Documents : Active(d)}
           of(status) == {d \in Documents : Active(d) /\ Effective(d, a) \in status}
<1>1. IsFiniteSet(active)
  BY FolderAssumption, FS_Subset
<1>2. \A d \in active : Effective(d, a) \in DocumentStatus
  BY DEF Effective, EffectiveStatus, FolderInv, FolderRows, Opinion, DocumentStatus
<1>3. of(DocumentStatus) = active /\ \A s \in SUBSET DocumentStatus : of(s) \subseteq active
  BY <1>2
<1>4. \A s \in SUBSET DocumentStatus : /\ TableTally(a, s) = 0 <=> of(s) = {}
                                       /\ TableTally(a, s) = TableTally(a, DocumentStatus) <=> of(s) = active
  <2>1. ASSUME NEW s \in SUBSET DocumentStatus
        PROVE  /\ TableTally(a, s) = 0 <=> of(s) = {}
               /\ TableTally(a, s) = TableTally(a, DocumentStatus) <=> of(s) = active
    <3>1. of(s) \in SUBSET active /\ TableTally(a, s) = Cardinality(of(s))
          /\ TableTally(a, DocumentStatus) = Cardinality(of(DocumentStatus))
      BY DEF TableTally
    <3> HIDE DEF of, active
    <3> QED BY <1>1, <1>3, <3>1, CountsSay
  <2> QED BY <2>1
<1>5. TableTally(a, DocumentStatus) > 0 <=> active # {}
  BY <1>1, <1>3, CountsSay DEF TableTally
<1>6. /\ TableTally(a, {"under_review"}) = 0 <=> of({"under_review"}) = {}
      /\ TableTally(a, {"rejected"}) = TableTally(a, DocumentStatus) <=> of({"rejected"}) = active
      /\ TableTally(a, {"approved"}) = TableTally(a, DocumentStatus) <=> of({"approved"}) = active
  BY <1>4 DEF DocumentStatus
<1>7. of({"rejected"}) = active => of({"under_review"}) = {}
  OBVIOUS
<1>8. /\ of({"rejected"}) = active <=> \A d \in active : Effective(d, a) = "rejected"
      /\ of({"approved"}) = active <=> \A d \in active : Effective(d, a) = "approved"
  OBVIOUS
<1>9. RowStatus(a) =
         IF TableTally(a, DocumentStatus) > 0 /\ TableTally(a, {"under_review"}) = 0
            /\ TableTally(a, {"rejected"}) = TableTally(a, DocumentStatus)
         THEN "rejected"
         ELSE IF TableTally(a, DocumentStatus) > 0 /\ TableTally(a, {"approved"}) = TableTally(a, DocumentStatus)
         THEN "completed" ELSE "pending"
  BY DEF RowStatus
<1> HIDE DEF active, of
<1>10. RowStatus(a) = IF active # {} /\ \A d \in active : Effective(d, a) = "rejected" THEN "rejected"
                      ELSE IF active # {} /\ \A d \in active : Effective(d, a) = "approved"
                      THEN "completed" ELSE "pending"
  BY <1>5, <1>6, <1>7, <1>8, <1>9
<1> QED BY <1>10 DEF active

LEMMA TablesAgree == FolderInv => TableAgrees
<1> SUFFICES ASSUME FolderInv, NEW a \in Advisors
             PROVE  /\ \A filter \in {"pending", "completed", "rejected"} :
                          \A row \in list_customer_documents(a, filter) :
                              row.documents_status = filter \/ OutdatedFor(a)
                    /\ \E filter \in {"pending", "completed", "rejected"} :
                          list_customer_documents(a, filter) = {CustomerRow(a)}
                    /\ (RowStatus(a) = "completed" <=> Completes(a)) \/ Fresh # portfolio
  BY DEF TableAgrees
<1> DEFINE active == {d \in Documents : Active(d)}
<1>1. RowStatus(a) = IF active # {} /\ \A d \in active : Effective(d, a) = "rejected" THEN "rejected"
                     ELSE IF active # {} /\ \A d \in active : Effective(d, a) = "approved"
                     THEN "completed" ELSE "pending"
  BY RowStatusIs
<1>2. ASSUME NEW status \in {"approved", "rejected"}, active # {}, \A d \in active : Effective(d, a) = status
      PROVE  AllSaid(a, status)
  <2>1. ASSUME NEW d \in Documents, Active(d) PROVE portfolio[d].status # "expired" /\ HasVerdict(d, a, status)
    <3>1. Effective(d, a) = status
      BY <1>2, <2>1
    <3> QED BY <3>1 DEF Effective, EffectiveStatus, HasVerdict
  <2> QED BY <1>2, <2>1 DEF AllSaid
<1>3. ASSUME NEW status \in {"approved", "rejected"}, AllSaid(a, status), ~OutdatedFor(a)
      PROVE  active # {} /\ \A d \in active : Effective(d, a) = status
  <2>1. ASSUME NEW d \in active PROVE Effective(d, a) = status
    <3>1. portfolio[d].status # "expired" /\ opinion[d][a].status = status
      BY <1>3 DEF AllSaid, HasVerdict
    <3>2. opinion[d][a] # NoOpinion
      BY <3>1 DEF NoOpinion
    <3>3. ~Outdated(portfolio[d], opinion[d][a])
      BY <1>3, <3>2 DEF OutdatedFor
    <3> QED BY <3>1, <3>2, <3>3 DEF Effective, EffectiveStatus
  <2> QED BY <1>3, <2>1 DEF AllSaid
<1>4. \A filter : list_customer_documents(a, filter) =
                     IF Lists(a, filter) THEN {CustomerRow(a)} ELSE {}
  BY DEF list_customer_documents
<1>5. CustomerRow(a).documents_status = RowStatus(a)
  BY DEF CustomerRow
<1>6. /\ Lists(a, "completed") <=> AllSaid(a, "approved")
      /\ Lists(a, "rejected") <=> AllSaid(a, "rejected")
      /\ Lists(a, "pending") <=> ~AllSaid(a, "approved") /\ ~AllSaid(a, "rejected")
  BY DEF Lists, portfolio_completed_clause, portfolio_rejected_clause
<1>7. ASSUME ~OutdatedFor(a)
      PROVE  /\ Lists(a, "completed") => RowStatus(a) = "completed"
             /\ Lists(a, "rejected") => RowStatus(a) = "rejected"
             /\ Lists(a, "pending") => RowStatus(a) = "pending"
  BY <1>1, <1>2, <1>3, <1>6, <1>7
<1>8. \A filter \in {"pending", "completed", "rejected"} :
         \A row \in list_customer_documents(a, filter) : row.documents_status = filter \/ OutdatedFor(a)
  BY <1>4, <1>5, <1>7
<1>9. \E filter \in {"pending", "completed", "rejected"} : list_customer_documents(a, filter) = {CustomerRow(a)}
  BY <1>4, <1>6
<1>10. ASSUME Fresh = portfolio PROVE RowStatus(a) = "completed" <=> Completes(a)
  <2>1. ASSUME NEW d \in active
        PROVE  EffectiveStatus(Refreshed(portfolio[d]), opinion[d][a]) = Effective(d, a)
    <3>1. Refreshed(portfolio[d]).status = portfolio[d].status
      BY <1>10, ActiveRows
    <3>2. portfolio[d] \in Document
      BY ActiveRows
    <3>3. Refreshed(portfolio[d]) = portfolio[d]
      BY <3>1, <3>2 DEF Refreshed, Document
    <3> QED BY <3>3 DEF Effective
  <2> QED BY <1>1, <2>1 DEF Completes
<1> QED BY <1>8, <1>9, <1>10

-----------------------------------------------------------------------------
\* The sizes of four sets that have no element in common add up to that of their union.
LEMMA FourParts ==
    ASSUME NEW A, NEW B, NEW C, NEW D, IsFiniteSet(A), IsFiniteSet(B), IsFiniteSet(C), IsFiniteSet(D),
           A \cap B = {}, (A \cup B) \cap C = {}, (A \cup B \cup C) \cap D = {}
    PROVE  Cardinality(A \cup B \cup C \cup D) = Cardinality(A) + Cardinality(B) + Cardinality(C) + Cardinality(D)
<1>1. Cardinality({}) = 0
  BY FS_EmptySet
<1>2. /\ Cardinality(A) \in Nat /\ Cardinality(B) \in Nat /\ Cardinality(C) \in Nat /\ Cardinality(D) \in Nat
  BY FS_CardinalityType
<1>3. IsFiniteSet(A \cup B) /\ Cardinality(A \cup B) = Cardinality(A) + Cardinality(B)
  <2>1. IsFiniteSet(A \cup B)
        /\ Cardinality(A \cup B) = Cardinality(A) + Cardinality(B) - Cardinality(A \cap B)
    BY FS_Union
  <2>2. A \cap B = {} /\ Cardinality(A) \in Nat
    BY <1>2
  <2>3. Cardinality(A \cap B) = 0
    BY <1>1, <2>2
  <2> QED BY <1>2, <2>1, <2>2, <2>3
<1>4. IsFiniteSet((A \cup B) \cup C) /\ Cardinality((A \cup B) \cup C) = Cardinality(A \cup B) + Cardinality(C)
  <2>1. IsFiniteSet((A \cup B) \cup C)
        /\ Cardinality((A \cup B) \cup C) = Cardinality(A \cup B) + Cardinality(C) - Cardinality((A \cup B) \cap C)
    BY <1>3, FS_Union
  <2>2. (A \cup B) \cap C = {} /\ Cardinality(A \cup B) \in Nat
    BY <1>3, FS_CardinalityType
  <2>3. Cardinality((A \cup B) \cap C) = 0
    BY <1>1, <2>2
  <2> QED BY <1>2, <2>1, <2>2, <2>3
<1>5. IsFiniteSet(((A \cup B) \cup C) \cup D) /\ Cardinality(((A \cup B) \cup C) \cup D) = Cardinality((A \cup B) \cup C) + Cardinality(D)
  <2>1. IsFiniteSet(((A \cup B) \cup C) \cup D)
        /\ Cardinality(((A \cup B) \cup C) \cup D) = Cardinality((A \cup B) \cup C) + Cardinality(D) - Cardinality(((A \cup B) \cup C) \cap D)
    BY <1>4, FS_Union
  <2>2. ((A \cup B) \cup C) \cap D = {} /\ Cardinality((A \cup B) \cup C) \in Nat
    BY <1>4, FS_CardinalityType
  <2>3. Cardinality(((A \cup B) \cup C) \cap D) = 0
    BY <1>1, <2>2
  <2> QED BY <1>2, <2>1, <2>2, <2>3
<1> QED BY <1>2, <1>3, <1>4, <1>5

\* A category without a document is missing, and has the status of one of its own otherwise.
LEMMA ChecklistSays ==
    ASSUME FolderInv, NEW c \in Categories
    PROVE  LET shown == {seeker_effective_status(d) : d \in {e \in ListedDocuments : CategoryOf[e] = c}} IN
           /\ ChecklistStatus(c) = "missing" <=> ~\E d \in ListedDocuments : CategoryOf[d] = c
           /\ ChecklistStatus(c) = "missing" \/ ChecklistStatus(c) \in shown
<1> DEFINE shown == {seeker_effective_status(d) : d \in {e \in ListedDocuments : CategoryOf[e] = c}}
           best(s) == \/ s = "approved"
                      \/ s = "under_review" /\ "approved" \notin shown
                      \/ s = "rejected" /\ shown \cap {"approved", "under_review"} = {}
                      \/ s = "expired" /\ shown = {"expired"}
<1>1. \A d \in ListedDocuments : d \in Documents /\ Active(d)
  BY DEF ListedDocuments, list_by_seeker
<1>2. shown \subseteq DocumentStatus
  BY <1>1, ShownToSeeker
<1>3. shown = {} <=> ~\E d \in ListedDocuments : CategoryOf[d] = c
  OBVIOUS
<1>4. ChecklistStatus(c) = IF shown = {} THEN "missing" ELSE CHOOSE s \in shown : best(s)
  BY DEF ChecklistStatus
<1> HIDE DEF shown
<1>5. ASSUME shown # {} PROVE \E s \in shown : best(s)
  <2>1. CASE "approved" \in shown
    BY <2>1
  <2>2. CASE "approved" \notin shown /\ "under_review" \in shown
    BY <2>2
  <2>3. CASE "approved" \notin shown /\ "under_review" \notin shown /\ "rejected" \in shown
    BY <2>3
  <2>4. CASE shown \cap {"approved", "under_review", "rejected"} = {}
    <3>1. shown = {"expired"}
      BY <1>2, <1>5, <2>4 DEF DocumentStatus
    <3> QED BY <3>1
  <2> QED BY <2>1, <2>2, <2>3, <2>4
<1>6. shown # {} => (CHOOSE s \in shown : best(s)) \in shown
  BY <1>5
<1>7. "missing" \notin shown
  BY <1>2 DEF DocumentStatus
<1> QED BY <1>3, <1>4, <1>6, <1>7 DEF shown

LEMMA SummaryAdds == FolderInv => SummaryAddsUp
<1> SUFFICES ASSUME FolderInv PROVE SummaryAddsUp
  OBVIOUS
<1> DEFINE listed == ListedDocuments
           of(s) == {d \in ListedDocuments : seeker_effective_status(d) = s}
           gone == {c \in Categories : ChecklistStatus(c) = "missing"}
           kept == Categories \ gone
<1>1. \A d \in listed : d \in Documents /\ Active(d)
  BY DEF ListedDocuments, list_by_seeker
<1>2. IsFiniteSet(listed)
  <2>1. listed \subseteq Documents
    BY <1>1
  <2> QED BY <2>1, FolderAssumption, FS_Subset
<1>3. \A s : IsFiniteSet(of(s)) /\ Tally(s) = Cardinality(of(s)) /\ of(s) \subseteq listed
  BY <1>2, FS_Subset DEF Tally
<1>4. \A d \in listed : seeker_effective_status(d) \in DocumentStatus
  BY <1>1, ShownToSeeker
<1>5. Cardinality(listed) = Tally("approved") + Tally("under_review") + Tally("rejected") + Tally("expired")
  <2>1. listed = of("approved") \cup of("under_review") \cup of("rejected") \cup of("expired")
    BY <1>4 DEF DocumentStatus
  <2>2. /\ of("approved") \cap of("under_review") = {}
        /\ (of("approved") \cup of("under_review")) \cap of("rejected") = {}
        /\ (of("approved") \cup of("under_review") \cup of("rejected")) \cap of("expired") = {}
    OBVIOUS
  <2> HIDE DEF of, listed
  <2> QED BY <1>3, <2>1, <2>2, FourParts
<1>6. Cardinality(Categories) - Cardinality(gone) <= Cardinality(listed)
  <2>1. /\ IsFiniteSet(Categories) /\ gone \subseteq Categories /\ kept \subseteq Categories
    BY FolderAssumption
  <2>2. IsFiniteSet(gone) /\ IsFiniteSet(kept)
    BY <2>1, FS_Subset
  <2>3. Cardinality(gone) \in Nat /\ Cardinality(kept) \in Nat
    BY <2>2, FS_CardinalityType
  <2>4. Cardinality(Categories) = Cardinality(gone) + Cardinality(kept)
    <3>1. Categories = gone \cup kept /\ gone \cap kept = {}
      OBVIOUS
    <3> HIDE DEF gone, kept
    <3>2. Cardinality({}) = 0
      BY FS_EmptySet
    <3>3. Cardinality(gone \cup kept) = Cardinality(gone) + Cardinality(kept) - Cardinality(gone \cap kept)
      BY <2>2, FS_Union
    <3>4. Cardinality(gone \cap kept) = 0
      BY <3>1, <3>2
    <3>5. Cardinality(Categories) = Cardinality(gone) + Cardinality(kept) - Cardinality(gone \cap kept)
      BY <3>1, <3>3
    <3> QED BY <2>3, <3>4, <3>5
  <2> DEFINE picks == {d \in listed : CategoryOf[d] \in kept}
             f == [d \in picks |-> CategoryOf[d]]
  <2>5. \A c \in kept : \E d \in picks : CategoryOf[d] = c
    BY ChecklistSays
  <2>6. f \in Surjection(picks, kept)
    BY <2>5 DEF Surjection
  <2>7. IsFiniteSet(picks) /\ Cardinality(picks) <= Cardinality(listed)
    BY <1>2, FS_Subset
  <2> HIDE DEF f, picks, gone, kept, listed
  <2>8. Cardinality(kept) <= Cardinality(picks)
    BY <2>6, <2>7, FS_Surjection
  <2>9. Cardinality(picks) \in Nat /\ Cardinality(listed) \in Nat
    BY <1>2, <2>7, FS_CardinalityType
  <2> QED BY <2>3, <2>4, <2>7, <2>8, <2>9
<1>7. ASSUME Tally("approved") = Cardinality(listed), NEW c \in Categories
      PROVE  ChecklistStatus(c) \in {"approved", "missing"}
  <2>1. of("approved") = listed
    BY <1>2, <1>3, <1>7, CountsSay
  <2> QED BY <2>1, ChecklistSays
<1>8. ASSUME NEW a \in Advisors, Completes(a), NEW c \in Categories
      PROVE  ChecklistStatus(c) \in {"approved", "rejected", "missing"}
  <2>1. ASSUME NEW d \in listed PROVE seeker_effective_status(d) \in {"approved", "rejected"}
    <3>1. d \in Documents /\ Active(d)
      BY <1>1
    <3>2. EffectiveStatus(Refreshed(portfolio[d]), opinion[d][a]) = "approved"
      BY <1>8, <3>1 DEF Completes
    <3>3. Refreshed(portfolio[d]).status # "expired"
      BY <3>2 DEF EffectiveStatus
    <3>4. Fresh[d].status # "expired" /\ Fresh[d] = Refreshed(portfolio[d])
      BY <3>1, <3>3, ActiveRows
    <3> QED BY <3>1, <3>2, <3>4, ShownToSeeker
  <2> QED BY <2>1, ChecklistSays
<1>9. portfolio_summary = [total |-> Cardinality(listed), approved |-> Tally("approved"),
         under_review |-> Tally("under_review"), rejected |-> Tally("rejected"),
         missing |-> Cardinality(gone), filled |-> Cardinality(Categories) - Cardinality(gone)]
  BY DEF portfolio_summary
<1> HIDE DEF listed, of, gone, kept
<1> QED BY <1>5, <1>6, <1>7, <1>8, <1>9 DEF SummaryAddsUp

\* What the inductive invariant says of the screens
LEMMA FolderSays == FolderInv => PortfolioShown
<1> SUFFICES ASSUME FolderInv PROVE PortfolioShown
  OBVIOUS
<1>1. ExpiringNotExpired
  <2> SUFFICES ASSUME NEW d \in ExpiringSoon, seeker_effective_status(d) = "expired" PROVE d \in byHand
    BY DEF ExpiringNotExpired
  <2>1. d \in Documents /\ Active(d) /\ Fresh[d].expiry \in {"ahead", "today"}
    BY DEF ExpiringSoon, ListedDocuments, list_by_seeker
  <2>2. Fresh[d].status = "expired" /\ Fresh[d] # Absent
    BY <2>1, ShownToSeeker, ActiveRows, DocumentThere
  <2> QED BY <2>1, <2>2, FreshRows
<1>2. DotHonest
  <2>1. ASSUME NEW d \in Documents, NEW i \in DOMAIN remarks, remarks[i].document = d
        PROVE  i > lastRead[d] <=> i \notin looked \cup overlooked
    <3>1. remarks \in Seq(Remark) /\ lastRead \in [Documents -> 0 .. Len(remarks)]
      BY DEF FolderInv, RemarksFit, FolderTypeOK
    <3>2. i \in Nat /\ lastRead[d] \in Int
      BY <3>1
    <3> QED BY <2>1, <3>2 DEF FolderInv, RemarksFit, ReadInOrder
  <2> QED BY <2>1 DEF DotHonest, HasUnread
<1> QED BY <1>1, <1>2, SeekerSees, TablesAgree, SummaryAdds DEF PortfolioShown

\* seeker_document_service: where the requests run one after another, the seeker, each advisor
\* and the tables are shown one portfolio, whatever is replaced, judged, outdated, expired or
\* only read.
THEOREM PortfolioIsShown == FolderSpec => []PortfolioShown
<1>1. FolderSpec => []FolderInv
  BY FolderInitInv, FolderNextInv, PTL DEF FolderSpec
<1> QED BY <1>1, FolderSays, PTL

-----------------------------------------------------------------------------
(* The components together                                                    *)

\* What of a portfolio only the requests in progress and the sweep use
ShelfFits ==
    /\ stored \subseteq used /\ recent \subseteq used
    /\ \A p \in PaperCalls : paper[p] = NoPaper \/ paper[p] \in Paper
    /\ sweeping \in Listing /\ dropped \subseteq Uploads
    /\ unseen \subseteq Documents \X Advisors

\* An account that nothing is shown of, and one that is; a portfolio whose requests
\* interleave, and one whose screens are looked at.
RecordsInv ==
    /\ SessionInv /\ PayoutInv /\ CountryInv /\ DeviceInv /\ SeenOnce
    /\ ReviewInv /\ ChatInv /\ TicketInv /\ FiguresInv
    /\ IF scene \in DirectoryScenes THEN DirectoryInv ELSE AccountInv /\ DirectoryTypeOK
    /\ IF scene \in FolderScenes THEN FolderInv /\ ShelfFits ELSE DocInv /\ FolderTypeOK

LEMMA RecordsInitInv == MCInit => RecordsInv
<1> SUFFICES ASSUME MCInit PROVE RecordsInv
  OBVIOUS
<1>1. SessionInv
  BY InitInv DEF MCInit
<1>2. PayoutInv /\ CountryInv /\ DeviceInv /\ SeenOnce
  BY PayoutInitInv, CountryInitInv, DeviceInitInv, SeenOnceInit DEF MCInit
<1>3. ReviewInv /\ ChatInv /\ TicketInv /\ FiguresInv
  BY ReviewInitInv, ChatInitInv, TicketInitInv, FiguresInitInv DEF MCInit
<1>4. DirectoryInv
  BY DirectoryInitInv DEF MCInit
<1>5. AccountInv /\ DirectoryTypeOK
  BY <1>4 DEF DirectoryInv
<1>6. CASE scene \in FolderScenes
  <2>1. FolderInit
    BY <1>6 DEF MCInit
  <2>2. FolderInv /\ ShelfFits
    BY <2>1, FolderInitInv DEF FolderInit, ShelfFits, Listing
  <2> QED BY <1>1, <1>2, <1>3, <1>4, <1>5, <1>6, <2>2 DEF RecordsInv
<1>7. CASE scene \notin FolderScenes
  <2>1. DocumentInit /\ NoRemarks
    BY <1>7 DEF MCInit
  <2>2. Len(remarks) = 0 /\ DOMAIN remarks = {}
    BY <2>1 DEF NoRemarks
  <2>3. DocInv /\ FolderTypeOK
    BY <2>1, <2>2, DocInitInv DEF NoRemarks, FolderTypeOK
  <2> QED BY <1>1, <1>2, <1>3, <1>4, <1>5, <1>7, <2>3 DEF RecordsInv
<1> QED BY <1>6, <1>7

\* A step of the whole is a step of each component, or leaves it alone.
LEMMA StepsOfParts ==
    ASSUME [MCNext]_recordVars
    PROVE  /\ scene' = scene
           /\ [AuthNext]_authVars /\ [PayoutNext]_payoutVars /\ [CountryNext]_countryVars
           /\ [DeviceNext]_deviceVars /\ [ReviewNext]_reviewVars /\ [ChatNext]_chatVars
           /\ [TicketNext]_ticketVars /\ [FiguresNext]_figureVars
<1>1. CASE UNCHANGED recordVars
  BY <1>1 DEF recordVars
<1>2. CASE MCNext
  <2>1. scene' = scene
    BY <1>2 DEF MCNext
  <2>2. [AuthNext]_authVars
    BY <1>2 DEF MCNext, AuthStep, AuthBy
  <2>3. [PayoutNext]_payoutVars
    BY <1>2 DEF MCNext, PayoutStep, PayoutBy
  <2>4. [CountryNext]_countryVars
    BY <1>2 DEF MCNext, CountryStep, CountryBy
  <2>5. [DeviceNext]_deviceVars
    BY <1>2 DEF MCNext, DeviceStep, DeviceBy
  <2>6. [ChatNext]_chatVars
    BY <1>2 DEF MCNext, ChatStep, ChatBy
  <2>7. [ReviewNext]_reviewVars /\ [TicketNext]_ticketVars /\ [FiguresNext]_figureVars
    BY <1>2 DEF MCNext
  <2> QED BY <2>1, <2>2, <2>3, <2>4, <2>5, <2>6, <2>7
<1> QED BY <1>1, <1>2

LEMMA StepsOfAccounts ==
    ASSUME [MCNext]_recordVars
    PROVE  /\ scene \in DirectoryScenes => [DirectoryNext]_directoryVars
           /\ scene \notin DirectoryScenes => [AccountNext]_accountVars /\ UNCHANGED shelf
<1>1. CASE UNCHANGED recordVars
  BY <1>1 DEF recordVars, directoryVars
<1>2. CASE MCNext
  <2>1. CASE scene \in AccountScenes
    <3>1. AccountStep
      BY <1>2, <2>1 DEF MCNext, AccountScenes, DirectoryScenes
    <3>2. AccountNext /\ UNCHANGED shelf
      BY <3>1 DEF AccountStep, AccountBy
    <3>3. scene \notin DirectoryScenes
      BY <2>1 DEF AccountScenes, DirectoryScenes
    <3> QED BY <3>2, <3>3
  <2>2. CASE scene \in DirectoryScenes
    <3>1. DirectoryStep
      BY <1>2, <2>2 DEF MCNext, AccountScenes, DirectoryScenes
    <3>2. DirectoryNext
      BY <3>1 DEF DirectoryStep, DirectoryBy
    <3> QED BY <2>2, <3>2
  <2>3. CASE scene \notin AccountScenes \cup DirectoryScenes
    BY <1>2, <2>3 DEF MCNext, directoryVars
  <2> QED BY <2>1, <2>2, <2>3
<1> QED BY <1>1, <1>2

LEMMA StepsOfPortfolios ==
    ASSUME [MCNext]_recordVars
    PROVE  /\ scene \in FolderScenes => [FolderNext]_<<documentVars, remarkVars>>
           /\ scene \notin FolderScenes => [DocumentNext]_documentVars /\ UNCHANGED remarkVars
<1>1. CASE UNCHANGED recordVars
  BY <1>1 DEF recordVars
<1>2. CASE MCNext
  <2>1. CASE scene \in DocumentScenes
    <3>1. DocumentStep
      BY <1>2, <2>1 DEF MCNext, DocumentScenes, FolderScenes
    <3>2. DocumentNext /\ UNCHANGED remarkVars
      BY <3>1 DEF DocumentStep, DocumentBy
    <3> QED BY <2>1, <3>2 DEF DocumentScenes, FolderScenes
  <2>2. CASE scene \in FolderScenes
    <3>1. FolderStep
      BY <1>2, <2>2 DEF MCNext, DocumentScenes, FolderScenes
    <3> QED BY <2>2, <3>1 DEF FolderStep, FolderBy
  <2>3. CASE scene \notin DocumentScenes \cup FolderScenes
    BY <1>2, <2>3 DEF MCNext
  <2> QED BY <2>1, <2>2, <2>3
<1> QED BY <1>1, <1>2

\* The screens do not touch the storage, nor the requests in progress.
LEMMA ShelfNextFits ==
    ASSUME ShelfFits, [FolderNext]_<<documentVars, remarkVars>>
    PROVE  ShelfFits'
<1>1. CASE UNCHANGED shelfVars \/ LaterOn
  BY <1>1 DEF shelfVars, LaterOn, ListDocuments, Tick, DayPasses, remnants, ShelfFits
<1>2. CASE UNCHANGED <<documentVars, remarkVars>>
  BY <1>2 DEF documentVars, remnants, ShelfFits
<1>3. FolderNext => UNCHANGED shelfVars \/ LaterOn
  <2>1. \A d, expiry : Add(d, expiry) => UNCHANGED shelfVars
    BY DEF Add
  <2>2. \A d, expiry, another : Update(d, expiry, another) => UNCHANGED shelfVars
    BY DEF Update
  <2>3. \A d, status : SetStatus(d, status) => UNCHANGED shelfVars
    BY DEF SetStatus
  <2>4. \A d, a, status : Judge(d, a, status) => UNCHANGED shelfVars
    BY DEF Judge
  <2>5. \A d, by : BeginRemark(d, by) => UNCHANGED shelfVars
    BY DEF BeginRemark
  <2>6. \A i : CommitRemark(i) => UNCHANGED shelfVars
    BY DEF CommitRemark
  <2>7. \A d : Archive(d) \/ OpenComments(d) => UNCHANGED shelfVars
    BY DEF Archive, OpenComments
  <2> QED BY <2>1, <2>2, <2>3, <2>4, <2>5, <2>6, <2>7 DEF FolderNext
<1> QED BY <1>1, <1>2, <1>3

LEMMA RecordsNextInv == RecordsInv /\ [MCNext]_recordVars => RecordsInv'
<1> SUFFICES ASSUME RecordsInv, [MCNext]_recordVars PROVE RecordsInv'
  OBVIOUS
<1>1. SessionInv'
  BY NextInv, StepsOfParts DEF RecordsInv
<1>2. PayoutInv'
  BY PayoutNextInv, StepsOfParts DEF RecordsInv
<1>3. CountryInv' /\ DeviceInv' /\ SeenOnce'
  BY CountryNextInv, DeviceNextInv, SeenOnceNext, StepsOfParts DEF RecordsInv
<1>4. ReviewInv' /\ ChatInv' /\ TicketInv' /\ FiguresInv'
  BY ReviewNextInv, ChatNextInv, TicketNextInv, FiguresNextInv, StepsOfParts DEF RecordsInv
<1>5. IF scene' \in DirectoryScenes THEN DirectoryInv' ELSE AccountInv' /\ DirectoryTypeOK'
  <2>1. CASE scene \in DirectoryScenes
    BY <2>1, DirectoryNextInv, StepsOfAccounts, StepsOfParts DEF RecordsInv
  <2>2. CASE scene \notin DirectoryScenes
    <3>1. AccountInv' /\ UNCHANGED shelf
      BY <2>2, AccountNextInv, StepsOfAccounts DEF RecordsInv
    <3>2. AccountTypeOK'
      BY <3>1 DEF AccountInv
    <3>3. DirectoryTypeOK'
      BY <2>2, <3>1, <3>2 DEF RecordsInv, DirectoryTypeOK, shelf
    <3> QED BY <2>2, <3>1, <3>3, StepsOfParts
  <2> QED BY <2>1, <2>2
<1>6. IF scene' \in FolderScenes THEN FolderInv' /\ ShelfFits' ELSE DocInv' /\ FolderTypeOK'
  <2>1. CASE scene \in FolderScenes
    BY <2>1, FolderNextInv, ShelfNextFits, StepsOfPortfolios, StepsOfParts DEF RecordsInv
  <2>2. CASE scene \notin FolderScenes
    <3>1. DocInv' /\ UNCHANGED remarkVars
      BY <2>2, DocNextInv, StepsOfPortfolios DEF RecordsInv
    <3>2. FolderTypeOK'
      BY <2>2, <3>1 DEF RecordsInv, remarkVars, FolderTypeOK
    <3> QED BY <2>2, <3>1, <3>2, StepsOfParts
  <2> QED BY <2>1, <2>2
<1> QED BY <1>1, <1>2, <1>3, <1>4, <1>5, <1>6 DEF RecordsInv

\* The portfolio is well typed in either kind of scene.
LEMMA PortfolioTyped == ASSUME RecordsInv PROVE DocumentTypeOK /\ FolderTypeOK
<1>1. CASE scene \in FolderScenes
  BY <1>1 DEF RecordsInv, FolderInv, FolderRows, RemarksFit, ShelfFits, DocumentTypeOK
<1>2. CASE scene \notin FolderScenes
  BY <1>2 DEF RecordsInv, DocInv
<1> QED BY <1>1, <1>2

\* The account is well typed in either kind of scene.
LEMMA DirectoryTyped == ASSUME RecordsInv PROVE DirectoryTypeOK
BY DEF RecordsInv, DirectoryInv

LEMMA PartsTyped ==
    ASSUME RecordsInv
    PROVE  /\ AuthTypeOK /\ PayoutTypeOK /\ CountryTypeOK /\ DeviceTypeOK /\ ReviewTypeOK
           /\ ChatTypeOK /\ TicketTypeOK /\ FiguresTypeOK
<1>1. AuthTypeOK /\ PayoutTypeOK /\ CountryTypeOK
  BY DEF RecordsInv, SessionInv, PayoutInv, CountryInv
<1>2. DeviceTypeOK
  BY DEF RecordsInv, DeviceInv, SeenOnce, DeviceTypeOK
<1>3. ReviewTypeOK /\ ChatTypeOK /\ TicketTypeOK /\ FiguresTypeOK
  BY DEF RecordsInv, ReviewInv, ChatInv, TicketInv, FiguresInv
<1> QED BY <1>1, <1>2, <1>3

\* The inductive invariant holds of every behaviour of the components together.
LEMMA RecordsSpecInv == MCSpec => []RecordsInv
BY RecordsInitInv, RecordsNextInv, PTL DEF MCSpec

\* The rows of every component, and what every request in progress has read of them, have
\* their types whatever the requests do beside each other.
THEOREM RecordsAreTyped == MCSpec => []RecordsTypeOK
<1>1. RecordsInv => RecordsTypeOK
  BY PartsTyped, DirectoryTyped, PortfolioTyped DEF RecordsTypeOK
<1> QED BY <1>1, RecordsSpecInv, PTL

\* advisor_search_service, user_admin_service: whoever looks at the marketplace, the bookmarks
\* and the lists of the administrators while verdicts, suspensions and connections are written
\* is shown one account.
THEOREM PeopleAreShown == MCSpec => []PeopleShown
<1>1. RecordsInv => PeopleShown
  BY DirectorySays DEF RecordsInv, PeopleShown
<1> QED BY <1>1, RecordsSpecInv, PTL

\* seeker_document_service: where the requests run one after another, the seeker, each advisor
\* and the tables are shown one portfolio.
THEOREM FoldersAreShown == MCSpec => []FoldersShown
<1>1. RecordsInv => FoldersShown
  BY FolderSays DEF RecordsInv, FoldersShown
<1> QED BY <1>1, RecordsSpecInv, PTL

\* dashboard_service, analytics_service: the cards, the trends, the funnels and the feed of the
\* administrators agree about the people, the cases and the sessions there are.
THEOREM FiguresAreShown == MCSpec => []FiguresShown
<1>1. RecordsInv => FiguresShown
  BY FiguresSay DEF RecordsInv, FiguresShown
<1> QED BY <1>1, RecordsSpecInv, PTL

=============================================================================
