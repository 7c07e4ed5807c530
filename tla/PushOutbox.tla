----------------------------- MODULE PushOutbox -----------------------------
(* The notification outbox and the sweeps that push it through FCM           *)
(* (push_service, notification_service, models/notification).                *)
(*                                                                           *)
(* Every app instance runs a sweep.  A sweep locks the rows it takes until   *)
(* it commits, skips what another has locked, and sends before it commits.   *)
(* A reader's UPDATE waits for a locked row and is then made from the copy   *)
(* that was read before.                                                     *)
EXTENDS Naturals, FiniteSets, UnitOfWork

CONSTANTS
    Notes,        \* notifications that may be queued
    Instances,    \* app instances, each with its scheduler
    Readers,      \* requests that mark notifications as read
    NoNote,       \* the note of a reader that has none
    MaxAttempts,  \* NOTIFICATION_PUSH_MAX_ATTEMPTS
    MaxLosses     \* bound: sweeps that roll back or stop with their process

ASSUME NoteAssumption    == NoNote \notin Notes
ASSUME AttemptAssumption == MaxAttempts \in Nat \ {0}
ASSUME LossAssumption    == MaxLosses \in Nat

VARIABLES
    note,      \* the notifications rows
    sweep,     \* what each sweep holds and has recorded
    firebase,  \* whether each instance has an initialised Firebase app
    reader,    \* what each reader has read
    delivered, \* history: how often FCM took a push of the notification
    redone,    \* history: how often one it took was lost with its sweep
    late,      \* history: notifications queued between the statements of mark_all_read
    losses     \* history: sweeps that were lost

outboxVars == <<note, sweep, firebase, reader, delivered, redone, late, losses>>

-----------------------------------------------------------------------------
PushStatus == {"pending", "sent", "failed", "skipped"}

\* due: push_next_attempt_at is over.  stale: created before the stale cutoff.
Note == [status : PushStatus \cup {"absent"}, read : BOOLEAN, attempts : 0 .. MaxAttempts,
         due : BOOLEAN, stale : BOOLEAN]

NewNote == [status |-> "absent", read |-> FALSE, attempts |-> 0, due |-> TRUE, stale |-> FALSE]

\* expired: rows set to skipped.  batch: rows claimed and not dispatched yet.  sent and
\* unsent: rows dispatched.
Sweep == [step : {"idle", "send"}, expired : SUBSET Notes, batch : SUBSET Notes,
          sent : SUBSET Notes, unsent : SUBSET Notes]

NoSweep == [step |-> "idle", expired |-> {}, batch |-> {}, sent |-> {}, unsent |-> {}]

\* skipped: the rows the first statement of mark_all_read has set.
Reader == [op : {"idle", "one", "all"}, note : Notes \cup {NoNote}, seen : Note,
           skipped : SUBSET Notes]

NoReader == [op |-> "idle", note |-> NoNote, seen |-> NewNote, skipped |-> {}]

PushTypeOK ==
    /\ note \in [Notes -> Note]
    /\ sweep \in [Instances -> Sweep]
    /\ firebase \in [Instances -> {"new", "up", "failed", "off"}]
    /\ reader \in [Readers -> Reader]
    /\ delivered \in [Notes -> Nat] /\ redone \in [Notes -> Nat]
    /\ late \subseteq Notes
    /\ losses \in 0 .. MaxLosses

OutboxInit ==
    /\ note = [n \in Notes |-> NewNote]
    /\ sweep = [s \in Instances |-> NoSweep]
    /\ firebase = [s \in Instances |-> "new"]
    /\ reader = [q \in Readers |-> NoReader]
    /\ delivered = [n \in Notes |-> 0] /\ redone = [n \in Notes |-> 0]
    /\ late = {}
    /\ losses = 0

-----------------------------------------------------------------------------
Pending(n) == note[n].status = "pending"

Holds(s) == sweep[s].expired \cup sweep[s].batch \cup sweep[s].sent \cup sweep[s].unsent

\* Rows with an uncommitted UPDATE or FOR UPDATE
Locked == (UNION {Holds(s) : s \in Instances}) \cup (UNION {reader[q].skipped : q \in Readers})

\* notify
Notify(n) ==
    /\ note[n].status = "absent"
    /\ note' = [note EXCEPT ![n].status = "pending"]
    /\ late' = IF \E q \in Readers : reader[q].op = "all" THEN late \cup {n} ELSE late
    /\ UNCHANGED <<sweep, firebase, reader, delivered, redone, losses>>

\* init_firebase: one failure is remembered for as long as the process runs.  Without
\* credentials push is off.
InitFirebase(s) ==
    /\ firebase[s] = "new"
    /\ firebase' \in {[firebase EXCEPT ![s] = state] : state \in {"up", "failed", "off"}}
    /\ UNCHANGED <<note, sweep, reader, delivered, redone, late, losses>>

\* run_due_pushes when push is off
Drain(s) ==
    LET due == {n \in Notes : Pending(n)} IN
    /\ firebase[s] = "off"
    /\ due # {} /\ due \cap Locked = {}
    /\ note' = [n \in Notes |-> IF n \in due THEN [note[n] EXCEPT !.status = "skipped"]
                                ELSE note[n]]
    /\ UNCHANGED <<sweep, firebase, reader, delivered, redone, late, losses>>

\* Mutation: rows another sweep has locked are claimed too.
UnclaimedLocked == Notes

Unclaimed == Notes \ Locked

Stale == {n \in Notes : Pending(n) /\ note[n].stale}

\* run_due_pushes: the UPDATE of what is stale waits for locked rows, the claim skips
\* them.
Claim(s) ==
    LET due == {n \in Unclaimed \ Stale : Pending(n) /\ note[n].due} IN
    /\ sweep[s] = NoSweep /\ firebase[s] = "up"
    /\ Stale \cap Locked = {}
    /\ due \cup Stale # {}
    /\ sweep' = [sweep EXCEPT ![s].step = "send", ![s].expired = Stale, ![s].batch = due]
    /\ UNCHANGED <<note, firebase, reader, delivered, redone, late, losses>>

\* _dispatch_one: FCM takes the push for a device of the user, or there is none, it
\* refuses or the call fails.
Dispatch(s, n) ==
    /\ n \in sweep[s].batch
    /\ \/ /\ sweep' = [sweep EXCEPT ![s].batch = @ \ {n}, ![s].sent = @ \cup {n}]
          /\ delivered' = [delivered EXCEPT ![n] = @ + 1]
       \/ /\ sweep' = [sweep EXCEPT ![s].batch = @ \ {n}, ![s].unsent = @ \cup {n}]
          /\ UNCHANGED delivered
    /\ UNCHANGED <<note, firebase, reader, redone, late, losses>>

\* Mutation: the attempts are not limited.
FailedOnceMore(row) == [row EXCEPT !.attempts = IF @ = MaxAttempts THEN @ ELSE @ + 1, !.due = FALSE]

\* _record_failure
FailedOnce(row) ==
    IF row.attempts + 1 = MaxAttempts
    THEN [row EXCEPT !.attempts = @ + 1, !.status = "failed"]
    ELSE [row EXCEPT !.attempts = @ + 1, !.due = FALSE]

SweepCommit(s) ==
    /\ sweep[s].step = "send" /\ sweep[s].batch = {}
    /\ note' = [n \in Notes |->
                  CASE n \in sweep[s].expired -> [note[n] EXCEPT !.status = "skipped"]
                    [] n \in sweep[s].sent    -> [note[n] EXCEPT !.status = "sent"]
                    [] n \in sweep[s].unsent  -> FailedOnce(note[n])
                    [] OTHER -> note[n]]
    /\ sweep' = [sweep EXCEPT ![s] = NoSweep]
    /\ UNCHANGED <<firebase, reader, delivered, redone, late, losses>>

\* _sweep_due_pushes rolls back, or the process stops and is started again.
LoseSweep(s) ==
    /\ losses < MaxLosses
    /\ losses' = losses + 1
    /\ redone' = [n \in Notes |-> redone[n] + (IF n \in sweep[s].sent THEN 1 ELSE 0)]
    /\ sweep' = [sweep EXCEPT ![s] = NoSweep]
    /\ \/ UNCHANGED firebase
       \/ firebase' = [firebase EXCEPT ![s] = "new"]
    /\ UNCHANGED <<note, reader, delivered, late>>

-----------------------------------------------------------------------------
\* mark_read, up to its flush.  Nothing is left to do on one that was read.
ReadNote(q, n) ==
    /\ reader[q] = NoReader
    /\ note[n].status # "absent" /\ ~note[n].read
    /\ reader' = [reader EXCEPT ![q] = [NoReader EXCEPT !.op = "one", !.note = n,
                                                        !.seen = note[n]]]
    /\ UNCHANGED <<note, sweep, firebase, delivered, redone, late, losses>>

\* Mutation: the push goes out all the same.
SeenInAppPushed(row) == [row EXCEPT !.read = TRUE]

\* Already seen in-app: not pushed later.
SeenInApp(row) ==
    [row EXCEPT !.read = TRUE, !.status = IF @ = "pending" THEN "skipped" ELSE @]

MarkRead(q) ==
    LET n == reader[q].note IN
    /\ reader[q].op = "one"
    /\ n \notin Locked
    /\ note' = [note EXCEPT ![n] = Flush(note[n], reader[q].seen, SeenInApp(reader[q].seen))]
    /\ reader' = [reader EXCEPT ![q] = NoReader]
    /\ UNCHANGED <<sweep, firebase, delivered, redone, late, losses>>

Unread == {n \in Notes : note[n].status # "absent" /\ ~note[n].read}

\* mark_all_read: pending pushes are skipped by one statement ...
SkipUnread(q) ==
    LET skipped == {n \in Unread : Pending(n)} IN
    /\ reader[q] = NoReader
    /\ Unread # {}
    /\ skipped \cap Locked = {}
    /\ reader' = [reader EXCEPT ![q] = [NoReader EXCEPT !.op = "all", !.skipped = skipped]]
    /\ UNCHANGED <<note, sweep, firebase, delivered, redone, late, losses>>

\* ... and what is unread by then is stamped by another.
MarkAllRead(q) ==
    /\ reader[q].op = "all"
    /\ Unread \cap (Locked \ reader[q].skipped) = {}
    /\ note' = [n \in Notes |->
                  IF n \in Unread
                  THEN [note[n] EXCEPT !.read = TRUE,
                                       !.status = IF n \in reader[q].skipped THEN "skipped" ELSE @]
                  ELSE note[n]]
    /\ reader' = [reader EXCEPT ![q] = NoReader]
    /\ UNCHANGED <<sweep, firebase, delivered, redone, late, losses>>

\* The backoff ends, the stale cutoff passes.
BackoffEnds(n) ==
    /\ ~note[n].due
    /\ note' = [note EXCEPT ![n].due = TRUE]
    /\ UNCHANGED <<sweep, firebase, reader, delivered, redone, late, losses>>

GetsStale(n) ==
    /\ Pending(n) /\ ~note[n].stale
    /\ note' = [note EXCEPT ![n].stale = TRUE]
    /\ UNCHANGED <<sweep, firebase, reader, delivered, redone, late, losses>>

OutboxNext ==
    \/ \E n \in Notes : Notify(n) \/ BackoffEnds(n) \/ GetsStale(n)
    \/ \E s \in Instances : InitFirebase(s) \/ Drain(s) \/ Claim(s)
                              \/ SweepCommit(s) \/ LoseSweep(s)
    \/ \E s \in Instances, n \in Notes : Dispatch(s, n)
    \/ \E q \in Readers : MarkRead(q) \/ SkipUnread(q) \/ MarkAllRead(q)
    \/ \E q \in Readers, n \in Notes : ReadNote(q, n)

\* The scheduler starts a sweep every few seconds and a sweep runs to its end, a
\* request too; the clock moves on.
OutboxFairness ==
    /\ \A s \in Instances :
         /\ WF_outboxVars(InitFirebase(s)) /\ WF_outboxVars(Drain(s))
         /\ WF_outboxVars(Claim(s)) /\ WF_outboxVars(SweepCommit(s))
    /\ \A s \in Instances, n \in Notes : WF_outboxVars(Dispatch(s, n))
    /\ \A q \in Readers : WF_outboxVars(MarkRead(q)) /\ WF_outboxVars(MarkAllRead(q))
    /\ \A n \in Notes : WF_outboxVars(BackoffEnds(n))

OutboxSpec == OutboxInit /\ [][OutboxNext]_outboxVars /\ OutboxFairness

-----------------------------------------------------------------------------
\* Delivery is at least once, and more than once only because of a lost sweep: pushes
\* that were not lost with one are at most one per notification, even when several
\* instances sweep.
SentOnce ==
    \A n \in Notes : /\ delivered[n] <= redone[n] + 1
                     /\ note[n].status = "sent" => delivered[n] = redone[n] + 1

\* mark_read: "Already seen in-app - don't also push it later": a notification that was
\* read is not pending, unless it was queued between the statements of mark_all_read.
ReadNotPushed == \A n \in Notes \ late : note[n].read => ~Pending(n)

\* Every push is sent, given up, or skipped, as long as an instance can use Firebase.
EveryPushEnds ==
    \A n \in Notes : Pending(n) ~> (~Pending(n) \/ \A s \in Instances : firebase[s] = "failed")

=============================================================================
