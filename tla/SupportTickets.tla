--------------------------- MODULE SupportTickets ---------------------------
(* Support tickets (support_ticket_service, ticket_message_service): users    *)
(* and administrators open them and reply, administrators move them from one  *)
(* status to another.  The columns that say when and by whom a ticket was     *)
(* resolved follow its status; each is written only if its value changes.     *)
EXTENDS UnitOfWork

CONSTANTS
    Tickets,      \* tickets that may be opened
    Agents,       \* administrators who decide on them
    NoAgent,      \* resolved_by of a ticket that is not resolved
    TicketCalls   \* requests that may be in progress at once

ASSUME AgentAssumption == NoAgent \notin Agents

VARIABLES
    ticket,    \* the support_tickets rows
    matter,    \* what each request in progress has read
    contested  \* history: tickets last written from a stale copy

ticketVars == <<ticket, matter, contested>>

-----------------------------------------------------------------------------
TicketStatus == {"open", "in_progress", "resolved", "closed"}

ResolvedStatuses == {"resolved", "closed"}

\* late: it took a reply although it had been resolved before the reply was checked.
Ticket == [status : TicketStatus, resolvedAt : BOOLEAN, resolvedBy : Agents \cup {NoAgent},
           late : BOOLEAN]

Unopened == [status |-> "none"]

\* seen: the ticket as it was read.  status, agent: what is to be set, by whom.
\* stale: an administrator has written the ticket since.
Matter == [op : {"update", "reply"}, of : Tickets, seen : Ticket, status : TicketStatus,
           agent : Agents \cup {NoAgent}, stale : BOOLEAN]

NoMatter == [op |-> "idle"]

TicketTypeOK ==
    /\ \A t \in Tickets : ticket[t] = Unopened \/ ticket[t] \in Ticket
    /\ \A p \in TicketCalls : matter[p] = NoMatter \/ matter[p] \in Matter
    /\ contested \subseteq Tickets

TicketInit ==
    /\ ticket = [t \in Tickets |-> Unopened]
    /\ matter = [p \in TicketCalls |-> NoMatter]
    /\ contested = {}

-----------------------------------------------------------------------------
\* create and create_for_user, with the opening message
OpenTicket(t) ==
    /\ ticket[t] = Unopened
    /\ ticket' = [ticket EXCEPT ![t] = [status |-> "open", resolvedAt |-> FALSE,
                                        resolvedBy |-> NoAgent, late |-> FALSE]]
    /\ UNCHANGED <<matter, contested>>

\* _STATUS_TRANSITIONS.  To the same status is always allowed.
MayMove(from, to) ==
    \/ to = from
    \/ from \in {"open", "in_progress"}
    \/ from = "resolved" /\ to \in {"open", "closed"}
    \/ from = "closed" /\ to = "open"

ReadTicket(p, t, op, status, agent) ==
    /\ matter[p] = NoMatter
    /\ matter' = [matter EXCEPT ![p] = [op |-> op, of |-> t, seen |-> ticket[t], status |-> status,
                                        agent |-> agent, stale |-> FALSE]]
    /\ UNCHANGED <<ticket, contested>>

ReadForMove(p, t, status, agent) ==
    /\ ticket[t] # Unopened /\ MayMove(ticket[t].status, status)
    /\ agent \in Agents
    /\ ReadTicket(p, t, "update", status, agent)

\* assert_repliable
Repliable(row) == row.status \notin ResolvedStatuses

ReadForReply(p, t) ==
    /\ ticket[t] # Unopened /\ Repliable(ticket[t])
    /\ ReadTicket(p, t, "reply", ticket[t].status, NoAgent)

\* Mutation: a ticket that is opened again keeps who has resolved it.
MovedKeepsAgent(row, status, agent) ==
    [row EXCEPT !.status = status, !.resolvedAt = status \in ResolvedStatuses,
                !.resolvedBy = IF status \in ResolvedStatuses THEN agent ELSE @]

\* update
Moved(row, status, agent) ==
    [row EXCEPT !.status = status, !.resolvedAt = status \in ResolvedStatuses,
                !.resolvedBy = IF status \in ResolvedStatuses THEN agent ELSE NoAgent]

\* The flush.  A time that is set is never the time that was read.
Updated(row, seen, new) ==
    [Flush(row, seen, new) EXCEPT !.resolvedAt = IF new.resolvedAt THEN TRUE ELSE @]

CommitMove(p) ==
    LET c == matter[p] IN
    /\ c.op = "update"
    /\ ticket' = [ticket EXCEPT ![c.of] = Updated(@, c.seen, Moved(c.seen, c.status, c.agent))]
    /\ contested' = IF c.stale THEN contested \cup {c.of} ELSE contested \ {c.of}
    /\ matter' = [q \in TicketCalls |->
                    IF q = p \/ matter[q] = NoMatter THEN NoMatter
                    ELSE IF matter[q].of = c.of THEN [matter[q] EXCEPT !.stale = TRUE] ELSE matter[q]]

\* send_message
CommitReply(p) ==
    LET c == matter[p] IN
    /\ c.op = "reply"
    /\ ticket' = [ticket EXCEPT ![c.of].late =
                    @ \/ (~c.stale /\ ticket[c.of].status \in ResolvedStatuses)]
    /\ matter' = [matter EXCEPT ![p] = NoMatter]
    /\ UNCHANGED contested

TicketRollBack(p) ==
    /\ matter[p] # NoMatter
    /\ matter' = [matter EXCEPT ![p] = NoMatter]
    /\ UNCHANGED <<ticket, contested>>

TicketNext ==
    \/ \E t \in Tickets : OpenTicket(t)
    \/ \E p \in TicketCalls, t \in Tickets :
         \/ \E status \in TicketStatus, agent \in Agents : ReadForMove(p, t, status, agent)
         \/ ReadForReply(p, t)
    \/ \E p \in TicketCalls : CommitMove(p) \/ CommitReply(p) \/ TicketRollBack(p)

TicketSpec == TicketInit /\ [][TicketNext]_ticketVars

-----------------------------------------------------------------------------
\* A ticket says when and by whom it was resolved exactly while it is resolved or closed,
\* unless the last to move it had read it before another did, and it takes no reply that is
\* checked after it was resolved.
ResolutionKept ==
    \A t \in Tickets :
        ticket[t] # Unopened =>
            /\ t \in contested
                 \/ LET resolved == ticket[t].status \in ResolvedStatuses IN
                      ticket[t].resolvedAt = resolved /\ (ticket[t].resolvedBy # NoAgent) = resolved
            /\ ~ticket[t].late

=============================================================================
