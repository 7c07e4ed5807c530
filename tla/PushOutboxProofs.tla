-------------------------- MODULE PushOutboxProofs --------------------------
(* What holds of PushOutbox for every number of notifications, app instances *)
(* and readers, every limit of attempts and every number of lost sweeps.     *)
EXTENDS PushOutbox, TLAPS

USE NoteAssumption, AttemptAssumption, LossAssumption

\* A flush of a well-typed notification is one, attribute by attribute.
LEMMA FlushNote ==
    ASSUME NEW row \in Note, NEW seen \in Note, NEW new \in Note
    PROVE  /\ Flush(row, seen, new) \in Note
           /\ Flush(row, seen, new).status = IF new.status = seen.status
                                             THEN row.status ELSE new.status
           /\ Flush(row, seen, new).read = IF new.read = seen.read THEN row.read ELSE new.read
           /\ Flush(row, seen, new).attempts = IF new.attempts = seen.attempts
                                               THEN row.attempts ELSE new.attempts
BY DEF Flush, Note, PushStatus

\* The values a variable starts from, or returns to, are well typed.
LEMMA Typing == NewNote \in Note /\ NoSweep \in Sweep /\ NoReader \in Reader
BY DEF NewNote, Note, PushStatus, NoSweep, Sweep, NoReader, Reader

\* A row is locked by a sweep that holds it, or by a mark_all_read that has skipped it.
LEMMA LockedBy ==
    /\ \A s \in Instances : Holds(s) \subseteq Locked
    /\ \A q \in Readers : reader[q].skipped \subseteq Locked
    /\ \A n \in Locked : \/ \E s \in Instances : n \in Holds(s)
                         \/ \E q \in Readers : n \in reader[q].skipped
<1> DEFINE held == {Holds(s) : s \in Instances}
           skipped == {reader[q].skipped : q \in Readers}
<1>1. Locked = (UNION held) \cup (UNION skipped)
  BY DEF Locked
<1>2. \A s \in Instances : Holds(s) \in held
  OBVIOUS
<1>3. \A q \in Readers : reader[q].skipped \in skipped
  OBVIOUS
<1>4. /\ \A x \in held : \E s \in Instances : x = Holds(s)
      /\ \A x \in skipped : \E q \in Readers : x = reader[q].skipped
  OBVIOUS
<1> HIDE DEF held, skipped
<1> QED BY <1>1, <1>2, <1>3, <1>4

-----------------------------------------------------------------------------
(* The inductive invariant                                                   *)

\* A row somebody holds is pending, and nobody else holds it.
Exclusive ==
    /\ \A s \in Instances : \A n \in Holds(s) : Pending(n)
    /\ \A q \in Readers : \A n \in reader[q].skipped : Pending(n)
    /\ \A s, z \in Instances : s # z => Holds(s) \cap Holds(z) = {}
    /\ \A s \in Instances, q \in Readers : Holds(s) \cap reader[q].skipped = {}
    /\ \A q, z \in Readers : q # z => reader[q].skipped \cap reader[z].skipped = {}

\* A sweep has dispatched a row once, or not yet.
Partition ==
    \A s \in Instances :
        /\ sweep[s].step = "idle" => sweep[s] = NoSweep
        /\ sweep[s].sent \cap sweep[s].expired = {} /\ sweep[s].sent \cap sweep[s].batch = {}
        /\ sweep[s].sent \cap sweep[s].unsent = {}
        /\ sweep[s].expired \cap sweep[s].batch = {} /\ sweep[s].batch \cap sweep[s].unsent = {}
        /\ sweep[s].expired \cap sweep[s].unsent = {}

\* Only a row that may still be tried is pending, and only a queued one was read.
Tries ==
    \A n \in Notes :
        /\ Pending(n) \/ note[n].status = "absent" => note[n].attempts < MaxAttempts
        /\ note[n].status = "absent" => ~note[n].read

\* Every push FCM took is accounted for: it was lost, it is about to be recorded, or the
\* notification is no longer pending.
Accounted ==
    \A n \in Notes :
        /\ delivered[n] <= redone[n] + 1
        /\ note[n].status = "sent" => delivered[n] = redone[n] + 1
        /\ (Pending(n) \/ note[n].status = "absent") /\ (\A s \in Instances : n \notin sweep[s].sent)
               => delivered[n] = redone[n]
        /\ (\E s \in Instances : n \in sweep[s].sent) => delivered[n] = redone[n] + 1

\* What a reader has read: a row that was decided then is decided now.  What is pending
\* while mark_all_read is under way was skipped by it or came late.
ReadersFit ==
    \A q \in Readers :
        /\ reader[q].op = "one" =>
               /\ reader[q].note \in Notes /\ ~reader[q].seen.read
               /\ note[reader[q].note].status # "absent"
               /\ reader[q].seen.status # "pending" => ~Pending(reader[q].note)
        /\ reader[q].op = "all" => \A n \in Notes : Pending(n) => n \in reader[q].skipped \cup late
        /\ reader[q].op # "all" => reader[q].skipped = {}

PushInv ==
    PushTypeOK /\ Exclusive /\ Partition /\ Tries /\ Accounted /\ ReadersFit /\ ReadNotPushed

\* Before anything is queued the inductive invariant holds.
LEMMA InitInv == OutboxInit => PushInv
<1> SUFFICES ASSUME OutboxInit PROVE PushInv
  OBVIOUS
<1>1. PushTypeOK
  BY Typing DEF OutboxInit, PushTypeOK
<1>2. Exclusive /\ Partition
  BY DEF OutboxInit, Exclusive, Partition, Holds, NoSweep, NoReader
<1>3. Tries /\ Accounted /\ ReadersFit /\ ReadNotPushed
  BY DEF OutboxInit, Tries, Accounted, ReadersFit, ReadNotPushed, Pending, NewNote, NoSweep, NoReader
<1> QED BY <1>1, <1>2, <1>3 DEF PushInv

-----------------------------------------------------------------------------
(* The actions                                                               *)

\* A row that is queued is pending, nobody holds it, and it comes late for a mark_all_read
\* that is under way.
LEMMA NotifyInv == ASSUME PushInv, NEW n \in Notes, Notify(n) PROVE PushInv'
<1> USE DEF Notify
<1>1. PushTypeOK'
  BY DEF PushInv, PushTypeOK, Note, PushStatus
<1>2. Exclusive' /\ Partition'
  BY DEF PushInv, Exclusive, Partition, Holds, Pending, PushTypeOK, Note
<1>3. Tries'
  BY DEF PushInv, Tries, Pending, PushTypeOK, Note
<1>4. Accounted'
  BY DEF PushInv, Accounted, Pending, PushTypeOK, Note
<1>5. ReadersFit'
  BY DEF PushInv, ReadersFit, Pending, PushTypeOK, Note
<1>6. ReadNotPushed'
  BY DEF PushInv, Tries, ReadNotPushed, Pending, PushTypeOK, Note
<1> QED BY <1>1, <1>2, <1>3, <1>4, <1>5, <1>6 DEF PushInv

\* Starting Firebase changes no row.
LEMMA InitFirebaseInv == ASSUME PushInv, NEW s \in Instances, InitFirebase(s) PROVE PushInv'
<1>1. PushTypeOK'
  BY DEF PushInv, PushTypeOK, InitFirebase
<1>2. UNCHANGED <<note, sweep, reader, delivered, redone, late, losses>>
  BY DEF InitFirebase
<1> QED BY <1>1, <1>2 DEF PushInv, Exclusive, Partition, Tries, Accounted, ReadersFit,
                          ReadNotPushed, Pending, Holds

\* Draining waits for the rows somebody holds, and skips the others.
LEMMA DrainInv == ASSUME PushInv, NEW s \in Instances, Drain(s) PROVE PushInv'
<1> DEFINE due == {n \in Notes : Pending(n)}
<1>1. /\ UNCHANGED <<sweep, firebase, reader, delivered, redone, late, losses>>
      /\ due \cap Locked = {}
      /\ note' = [n \in Notes |-> IF n \in due THEN [note[n] EXCEPT !.status = "skipped"]
                                  ELSE note[n]]
  BY DEF Drain
<1>2. PushTypeOK'
  BY <1>1 DEF PushInv, PushTypeOK, Note, PushStatus
<1>3. \A n \in Notes : /\ note'[n].read = note[n].read /\ note'[n].attempts = note[n].attempts
                       /\ ~Pending(n)'
                       /\ ~Pending(n) => note'[n] = note[n]
                       /\ note'[n].status = IF Pending(n) THEN "skipped" ELSE note[n].status
  BY <1>1 DEF PushInv, PushTypeOK, Note, Pending
<1>8. /\ \A z \in Instances : Holds(z) \subseteq Notes /\ Holds(z)' = Holds(z)
      /\ \A q \in Readers : reader[q].skipped \subseteq Notes
  BY <1>1 DEF PushInv, Holds, PushTypeOK, Sweep, Reader
<1>9. /\ \A z \in Instances : Holds(z) = {}
      /\ \A q \in Readers : reader[q].skipped = {}
  BY <1>1, <1>8, LockedBy DEF PushInv, Exclusive
<1>4. Exclusive' /\ Partition'
  BY <1>1, <1>8, <1>9 DEF PushInv, Exclusive, Partition
<1>5. Tries'
  BY <1>3 DEF PushInv, Tries, Pending
<1>10. ReadNotPushed'
  BY <1>1, <1>3 DEF ReadNotPushed
<1>6. Accounted'
  BY <1>1, <1>3, <1>4 DEF PushInv, Accounted, Exclusive, Holds, PushTypeOK, Sweep
<1>7. ReadersFit'
  BY <1>1, <1>3 DEF PushInv, ReadersFit, PushTypeOK
<1> QED BY <1>2, <1>4, <1>5, <1>6, <1>7, <1>10 DEF PushInv

\* A sweep claims rows nobody holds.
LEMMA ClaimInv == ASSUME PushInv, NEW s \in Instances, Claim(s) PROVE PushInv'
<1> DEFINE due == {n \in Unclaimed \ Stale : Pending(n) /\ note[n].due}
           held == [NoSweep EXCEPT !.step = "send", !.expired = Stale, !.batch = due]
<1>1. /\ sweep[s] = NoSweep /\ Stale \cap Locked = {}
      /\ sweep' = [sweep EXCEPT ![s] = held]
      /\ UNCHANGED <<note, firebase, reader, delivered, redone, late, losses>>
  BY DEF Claim, PushInv, PushTypeOK
<1>13. due \subseteq Notes /\ Stale \subseteq Notes /\ due \cap Stale = {}
  BY DEF Stale, Unclaimed
<1>5. \A n \in Stale \cup due : Pending(n) /\ n \notin Locked
  BY <1>1 DEF Stale, Unclaimed
<1> HIDE DEF due
<1>2. /\ held \in Sweep /\ held.step = "send" /\ held.expired = Stale /\ held.batch = due
      /\ held.sent = {} /\ held.unsent = {}
  BY <1>13 DEF NoSweep, Sweep
<1> HIDE DEF held
<1>3. /\ sweep' \in [Instances -> Sweep] /\ sweep'[s] = held
      /\ \A z \in Instances \ {s} : sweep'[z] = sweep[z]
  BY <1>1, <1>2 DEF PushInv, PushTypeOK
<1>4. PushTypeOK'
  BY <1>1, <1>3 DEF PushInv, PushTypeOK
<1>6. \A z \in Instances \ {s} : Holds(z)' = Holds(z)
  BY <1>3 DEF Holds
<1>7. Holds(s)' = Stale \cup due
  BY <1>2, <1>3 DEF Holds
<1>8. Exclusive'
  <2>1. \A z \in Instances : \A n \in Holds(z)' : Pending(n)'
    BY <1>1, <1>5, <1>6, <1>7 DEF PushInv, Exclusive, Pending
  <2>2. \A q \in Readers : \A n \in reader'[q].skipped : Pending(n)'
    BY <1>1 DEF PushInv, Exclusive, Pending
  <2>3. \A y, z \in Instances : y # z => Holds(y)' \cap Holds(z)' = {}
    BY <1>5, <1>6, <1>7, LockedBy DEF PushInv, Exclusive
  <2>4. \A z \in Instances, q \in Readers : Holds(z)' \cap reader'[q].skipped = {}
    BY <1>1, <1>5, <1>6, <1>7, LockedBy DEF PushInv, Exclusive
  <2> QED BY <1>1, <2>1, <2>2, <2>3, <2>4 DEF PushInv, Exclusive
<1>9. Partition'
  BY <1>2, <1>3, <1>13 DEF PushInv, Partition
<1>10. \A z \in Instances : sweep'[z].sent = sweep[z].sent
  BY <1>1, <1>2, <1>3 DEF NoSweep
<1>11. Accounted'
  BY <1>1, <1>10 DEF PushInv, Accounted, Pending
<1>12. Tries' /\ ReadersFit' /\ ReadNotPushed'
  BY <1>1 DEF PushInv, Tries, ReadersFit, ReadNotPushed, Pending
<1> QED BY <1>4, <1>8, <1>9, <1>11, <1>12 DEF PushInv

\* What a sweep has dispatched it goes on holding.
LEMMA DispatchInv ==
    ASSUME PushInv, NEW s \in Instances, NEW n \in Notes, Dispatch(s, n) PROVE PushInv'
<1>1. /\ n \in sweep[s].batch /\ sweep[s] \in Sweep
      /\ UNCHANGED <<note, firebase, reader, redone, late, losses>>
  BY DEF Dispatch, PushInv, PushTypeOK
<1> DEFINE sent   == [sweep[s] EXCEPT !.batch = @ \ {n}, !.sent = @ \cup {n}]
           unsent == [sweep[s] EXCEPT !.batch = @ \ {n}, !.unsent = @ \cup {n}]
<1>2. \/ sweep' = [sweep EXCEPT ![s] = sent] /\ delivered' = [delivered EXCEPT ![n] = @ + 1]
      \/ sweep' = [sweep EXCEPT ![s] = unsent] /\ UNCHANGED delivered
  BY DEF Dispatch
<1>11. /\ sent \in Sweep /\ sent.step = sweep[s].step /\ sent.expired = sweep[s].expired
       /\ sent.batch = sweep[s].batch \ {n} /\ sent.sent = sweep[s].sent \cup {n}
       /\ sent.unsent = sweep[s].unsent
  BY <1>1 DEF Sweep
<1>12. /\ unsent \in Sweep /\ unsent.step = sweep[s].step /\ unsent.expired = sweep[s].expired
       /\ unsent.batch = sweep[s].batch \ {n} /\ unsent.sent = sweep[s].sent
       /\ unsent.unsent = sweep[s].unsent \cup {n}
  BY <1>1 DEF Sweep
<1> HIDE DEF sent, unsent
<1> DEFINE took == n \in sweep'[s].sent
<1>13. n \notin sweep[s].sent
  BY <1>1 DEF PushInv, Partition
<1>3. /\ sweep' \in [Instances -> Sweep]
      /\ \A z \in Instances \ {s} : sweep'[z] = sweep[z]
      /\ sweep'[s].step = sweep[s].step /\ sweep'[s].expired = sweep[s].expired
      /\ sweep'[s].batch = sweep[s].batch \ {n}
      /\ sweep'[s].sent = IF took THEN sweep[s].sent \cup {n} ELSE sweep[s].sent
      /\ sweep'[s].unsent = IF took THEN sweep[s].unsent ELSE sweep[s].unsent \cup {n}
  <2>1. PICK new \in Sweep : sweep' = [sweep EXCEPT ![s] = new] /\ (new = sent \/ new = unsent)
    BY <1>2, <1>11, <1>12
  <2>2. sweep \in [Instances -> Sweep]
    BY DEF PushInv, PushTypeOK
  <2>3. sweep' \in [Instances -> Sweep] /\ sweep'[s] = new /\ \A z \in Instances \ {s} : sweep'[z] = sweep[z]
    BY <2>1, <2>2
  <2>4. CASE new = sent
    BY <1>11, <2>3, <2>4
  <2>5. CASE new = unsent
    BY <1>12, <1>13, <2>3, <2>5
  <2> QED BY <2>1, <2>3, <2>4, <2>5
<1>4. delivered' \in [Notes -> Nat] /\ \A m \in Notes :
         delivered'[m] = IF m = n /\ took THEN delivered[m] + 1 ELSE delivered[m]
  BY <1>2, <1>11, <1>12, <1>13 DEF PushInv, PushTypeOK
<1> HIDE DEF took
<1>5. PushTypeOK'
  BY <1>1, <1>3, <1>4 DEF PushInv, PushTypeOK
<1>6. \A z \in Instances : Holds(z)' = Holds(z)
  BY <1>1, <1>3 DEF Holds
<1>7. Exclusive'
  BY <1>1, <1>6 DEF PushInv, Exclusive, Pending
<1>8. Partition'
  BY <1>1, <1>3 DEF PushInv, Partition, NoSweep
<1>9. Accounted'
  <2>1. Pending(n) /\ \A z \in Instances : n \notin sweep[z].sent
    BY <1>1 DEF PushInv, Exclusive, Partition, Holds
  <2>2. delivered[n] = redone[n]
    BY <2>1 DEF PushInv, Accounted
  <2>3. \A m \in Notes \ {n} : \A z \in Instances : m \in sweep'[z].sent <=> m \in sweep[z].sent
    BY <1>3
  <2>4. (\E z \in Instances : n \in sweep'[z].sent) <=> took
    BY <1>3, <2>1 DEF took
  <2> QED BY <1>1, <1>4, <2>1, <2>2, <2>3, <2>4 DEF PushInv, Accounted, PushTypeOK, Pending
<1>10. Tries' /\ ReadersFit' /\ ReadNotPushed'
  BY <1>1 DEF PushInv, Tries, ReadersFit, ReadNotPushed, Pending
<1> QED BY <1>5, <1>7, <1>8, <1>9, <1>10 DEF PushInv

\* A row of which a failure is recorded keeps its type, and may be tried again only below
\* the limit.
LEMMA FailedOnceTyped ==
    ASSUME NEW row \in Note, row.attempts < MaxAttempts, row.status = "pending"
    PROVE  /\ FailedOnce(row) \in Note
           /\ FailedOnce(row).read = row.read
           /\ FailedOnce(row).status \in {"pending", "failed"}
           /\ FailedOnce(row).status = "pending" => FailedOnce(row).attempts < MaxAttempts
<1> DEFINE next == row.attempts + 1
<1>1. next \in 0 .. MaxAttempts
  BY DEF Note
<1>2. CASE next = MaxAttempts
  <2>1. FailedOnce(row) = [row EXCEPT !.attempts = next, !.status = "failed"]
    BY <1>2 DEF FailedOnce, Note
  <2> HIDE DEF next
  <2> QED BY <1>1, <2>1 DEF Note, PushStatus
<1>3. CASE next # MaxAttempts
  <2>1. FailedOnce(row) = [row EXCEPT !.attempts = next, !.due = FALSE]
    BY <1>3 DEF FailedOnce, Note
  <2>2. next < MaxAttempts
    BY <1>1, <1>3
  <2> HIDE DEF next
  <2> QED BY <1>1, <2>1, <2>2 DEF Note, PushStatus
<1> QED BY <1>2, <1>3

\* What a sweep records it holds: the rows were pending and are nobody else's.
LEMMA SweepCommitInv == ASSUME PushInv, NEW s \in Instances, SweepCommit(s) PROVE PushInv'
<1>1. /\ sweep[s].batch = {} /\ sweep[s] \in Sweep
      /\ sweep' = [sweep EXCEPT ![s] = NoSweep]
      /\ note' = [n \in Notes |->
                  CASE n \in sweep[s].expired -> [note[n] EXCEPT !.status = "skipped"]
                    [] n \in sweep[s].sent    -> [note[n] EXCEPT !.status = "sent"]
                    [] n \in sweep[s].unsent  -> FailedOnce(note[n])
                    [] OTHER -> note[n]]
      /\ UNCHANGED <<firebase, reader, delivered, redone, late, losses>>
  BY DEF SweepCommit, PushInv, PushTypeOK
<1>2. /\ sweep' \in [Instances -> Sweep] /\ sweep'[s] = NoSweep
      /\ \A z \in Instances \ {s} : sweep'[z] = sweep[z]
  BY <1>1, Typing DEF PushInv, PushTypeOK
<1>3. Holds(s) \subseteq Notes /\ \A n \in Holds(s) : Pending(n) /\ note[n].attempts < MaxAttempts
  BY <1>1 DEF PushInv, Exclusive, Tries, Holds, Sweep
<1>4. ASSUME NEW n \in Notes
      PROVE  /\ note'[n] \in Note
             /\ note'[n].read = note[n].read
             /\ n \notin Holds(s) => note'[n] = note[n]
             /\ n \in sweep[s].expired => note'[n].status = "skipped"
             /\ n \in sweep[s].sent => note'[n].status = "sent"
             /\ n \in sweep[s].unsent => note'[n].status \in {"pending", "failed"}
             /\ Pending(n)' => note'[n].attempts < MaxAttempts
  <2>1. note[n] \in Note
    BY DEF PushInv, PushTypeOK
  <2>2. CASE n \in sweep[s].expired
    BY <2>1, <2>2, <1>1 DEF Note, PushStatus, PushInv, Partition, Holds, Pending
  <2>3. CASE n \in sweep[s].sent
    BY <2>1, <2>3, <1>1 DEF Note, PushStatus, PushInv, Partition, Holds, Pending
  <2>4. CASE n \in sweep[s].unsent
    <3>1. n \in Holds(s) /\ n \notin sweep[s].expired /\ n \notin sweep[s].sent
      BY <2>4 DEF PushInv, Partition, Holds
    <3>2. note'[n] = FailedOnce(note[n])
      BY <2>4, <3>1, <1>1
    <3> QED BY <2>1, <3>1, <3>2, <1>3, FailedOnceTyped DEF Pending
  <2>5. CASE n \notin sweep[s].expired \cup sweep[s].sent \cup sweep[s].unsent
    BY <2>1, <2>5, <1>1 DEF PushInv, Tries, Holds, Pending
  <2> QED BY <2>2, <2>3, <2>4, <2>5
<1>5. PushTypeOK'
  <2>1. note' \in [Notes -> Note]
    BY <1>1, <1>4
  <2> QED BY <1>1, <1>2, <2>1 DEF PushInv, PushTypeOK
<1>6. /\ Holds(s)' = {}
      /\ \A z \in Instances \ {s} : Holds(z)' = Holds(z) /\ Holds(z) \subseteq Notes
                                    /\ Holds(z) \cap Holds(s) = {}
      /\ \A q \in Readers : reader[q].skipped \subseteq Notes /\ reader[q].skipped \cap Holds(s) = {}
  BY <1>2 DEF Holds, NoSweep, PushInv, PushTypeOK, Sweep, Reader, Exclusive
<1>7. Exclusive'
  <2>1. \A z \in Instances : \A n \in Holds(z)' : Pending(n)'
    BY <1>4, <1>6 DEF PushInv, Exclusive, Pending
  <2>2. \A q \in Readers : \A n \in reader'[q].skipped : Pending(n)'
    <3> SUFFICES ASSUME NEW q \in Readers, NEW n \in reader[q].skipped PROVE Pending(n)'
      BY <1>1
    <3>1. n \in Notes /\ n \notin Holds(s) /\ Pending(n)
      BY <1>6 DEF PushInv, Exclusive
    <3> QED BY <3>1, <1>4 DEF Pending
  <2>3. \A y, z \in Instances : y # z => Holds(y)' \cap Holds(z)' = {}
    BY <1>6 DEF PushInv, Exclusive
  <2>4. \A z \in Instances, q \in Readers : Holds(z)' \cap reader'[q].skipped = {}
    BY <1>1, <1>6 DEF PushInv, Exclusive
  <2> QED BY <1>1, <2>1, <2>2, <2>3, <2>4 DEF PushInv, Exclusive
<1>8. Partition'
  BY <1>2 DEF PushInv, Partition, NoSweep
<1>13. \A n \in Notes : note'[n].status = "absent" => n \notin Holds(s) /\ note'[n] = note[n]
  BY <1>1, <1>4 DEF Holds
<1>9. Tries'
  BY <1>4, <1>13 DEF PushInv, Tries
<1>10. Accounted'
  <2> SUFFICES ASSUME NEW n \in Notes
               PROVE  /\ delivered[n] <= redone[n] + 1
                      /\ note'[n].status = "sent" => delivered[n] = redone[n] + 1
                      /\ (Pending(n)' \/ note'[n].status = "absent")
                         /\ (\A z \in Instances : n \notin sweep'[z].sent)
                             => delivered[n] = redone[n]
                      /\ (\E z \in Instances : n \in sweep'[z].sent)
                             => delivered[n] = redone[n] + 1
    BY <1>1 DEF Accounted
  <2>1. CASE n \notin Holds(s)
    BY <2>1, <1>2, <1>4 DEF PushInv, Accounted, Pending, Holds, NoSweep
  <2>2. CASE n \in Holds(s)
    <3>1. \A z \in Instances : n \notin sweep'[z].sent
      BY <2>2, <1>2, <1>6 DEF Holds, NoSweep
    <3>2. CASE n \in sweep[s].sent
      BY <3>1, <3>2, <1>4 DEF PushInv, Accounted, Pending
    <3>3. CASE n \notin sweep[s].sent
      <4>1. \A z \in Instances : n \notin sweep[z].sent
        BY <2>2, <3>3, <1>6 DEF Holds
      <4>2. delivered[n] = redone[n]
        BY <4>1, <2>2, <1>3 DEF PushInv, Accounted
      <4>3. note'[n].status \in {"skipped", "pending", "failed"}
        BY <2>2, <3>3, <1>1, <1>4 DEF Holds
      <4> QED BY <3>1, <4>2, <4>3 DEF PushInv, PushTypeOK
    <3> QED BY <3>2, <3>3
  <2> QED BY <2>1, <2>2
<1>14. \A n \in Notes : Pending(n)' => Pending(n)
  BY <1>3, <1>4 DEF Pending
<1>11. ReadersFit'
  <2>1. \A n \in Notes : note'[n].status = "absent" => note[n].status = "absent"
    BY <1>13
  <2> QED BY <1>1, <1>14, <2>1 DEF PushInv, ReadersFit
<1>12. ReadNotPushed'
  BY <1>1, <1>4, <1>14 DEF PushInv, ReadNotPushed
<1> QED BY <1>5, <1>7, <1>8, <1>9, <1>10, <1>11, <1>12 DEF PushInv

\* A lost sweep leaves its rows pending, and what FCM took of them is counted as lost.
LEMMA LoseSweepInv == ASSUME PushInv, NEW s \in Instances, LoseSweep(s) PROVE PushInv'
<1>1. /\ losses < MaxLosses /\ losses' = losses + 1
      /\ redone' = [n \in Notes |-> redone[n] + (IF n \in sweep[s].sent THEN 1 ELSE 0)]
      /\ sweep' = [sweep EXCEPT ![s] = NoSweep]
      /\ firebase' \in [Instances -> {"new", "up", "failed", "off"}]
      /\ UNCHANGED <<note, reader, delivered, late>>
  BY DEF LoseSweep, PushInv, PushTypeOK
<1>2. /\ sweep' \in [Instances -> Sweep] /\ sweep'[s] = NoSweep
      /\ \A z \in Instances \ {s} : sweep'[z] = sweep[z]
  BY <1>1, Typing DEF PushInv, PushTypeOK
<1>3. redone' \in [Notes -> Nat] /\ \A n \in Notes :
         redone'[n] = IF n \in sweep[s].sent THEN redone[n] + 1 ELSE redone[n]
  BY <1>1 DEF PushInv, PushTypeOK
<1>4. PushTypeOK'
  BY <1>1, <1>2, <1>3 DEF PushInv, PushTypeOK
<1>5. Holds(s)' = {} /\ \A z \in Instances \ {s} : Holds(z)' = Holds(z)
  BY <1>2 DEF Holds, NoSweep
<1>6. Exclusive'
  BY <1>1, <1>5 DEF PushInv, Exclusive, Pending
<1>7. Partition'
  BY <1>2 DEF PushInv, Partition, NoSweep
<1>8. Accounted'
  <2>1. \A n \in sweep[s].sent : n \in Notes /\ Pending(n)
    BY DEF PushInv, PushTypeOK, Sweep, Exclusive, Holds
  <2>2. \A n \in sweep[s].sent : \A z \in Instances : n \notin sweep'[z].sent
    BY <1>2 DEF PushInv, Exclusive, Holds, NoSweep
  <2>3. \A n \in sweep[s].sent : delivered[n] = redone[n] + 1
    BY <2>1 DEF PushInv, Accounted
  <2>4. \A n \in Notes \ sweep[s].sent :
           \A z \in Instances : n \in sweep'[z].sent <=> n \in sweep[z].sent
    BY <1>2 DEF NoSweep
  <2> QED BY <1>1, <1>3, <2>1, <2>2, <2>3, <2>4 DEF PushInv, Accounted, PushTypeOK, Pending
<1>9. Tries' /\ ReadersFit' /\ ReadNotPushed'
  BY <1>1 DEF PushInv, Tries, ReadersFit, ReadNotPushed, Pending
<1> QED BY <1>4, <1>6, <1>7, <1>8, <1>9 DEF PushInv

\* A reader that has only read changes no row.
LEMMA ReadNoteInv ==
    ASSUME PushInv, NEW q \in Readers, NEW n \in Notes, ReadNote(q, n) PROVE PushInv'
<1> DEFINE new == [NoReader EXCEPT !.op = "one", !.note = n, !.seen = note[n]]
<1>1. /\ reader[q] = NoReader /\ note[n].status # "absent" /\ ~note[n].read
      /\ reader' = [reader EXCEPT ![q] = new]
      /\ UNCHANGED <<note, sweep, firebase, delivered, redone, late, losses>>
  BY DEF ReadNote
<1>2. /\ new \in Reader /\ new.op = "one" /\ new.note = n /\ new.seen = note[n]
      /\ new.skipped = {}
  BY DEF NoReader, Reader, PushInv, PushTypeOK
<1> HIDE DEF new
<1>3. /\ reader' \in [Readers -> Reader] /\ reader'[q] = new
      /\ \A z \in Readers \ {q} : reader'[z] = reader[z]
  BY <1>1, <1>2 DEF PushInv, PushTypeOK
<1>8. \A z \in Readers : reader'[z].skipped = reader[z].skipped
  BY <1>1, <1>2, <1>3 DEF NoReader
<1>4. PushTypeOK'
  BY <1>1, <1>3 DEF PushInv, PushTypeOK
<1>5. Exclusive' /\ Partition'
  BY <1>1, <1>8 DEF PushInv, Exclusive, Partition, Holds, Pending
<1>6. Tries' /\ Accounted' /\ ReadNotPushed'
  BY <1>1 DEF PushInv, Tries, Accounted, ReadNotPushed, Pending
<1>7. ReadersFit'
  BY <1>1, <1>2, <1>3 DEF PushInv, ReadersFit, Pending
<1> QED BY <1>4, <1>5, <1>6, <1>7 DEF PushInv

\* A step that changes rows nobody holds, makes none pending, sent or absent, and leaves
\* the attempts, keeps what is said of the rows and of who holds them.
LEMMA RowsInv ==
    ASSUME PushInv, note' \in [Notes -> Note],
           UNCHANGED <<sweep, firebase, delivered, redone, late, losses>>,
           \A n \in Notes : /\ note'[n].attempts = note[n].attempts
                            /\ note'[n].status \in {note[n].status, "skipped"}
                            /\ note'[n].status = "absent" => note'[n].read = note[n].read,
           \A n \in Notes : (\E s \in Instances : n \in Holds(s)) => note'[n].status = note[n].status
    PROVE  Partition' /\ Tries' /\ Accounted'
           /\ \A s \in Instances : Holds(s)' = Holds(s) /\ \A n \in Holds(s) : Pending(n)'
<1>1. Partition'
  BY DEF PushInv, Partition
<1>2. Tries'
  BY DEF PushInv, Tries, Pending
<1>3. \A s \in Instances : Holds(s)' = Holds(s) /\ Holds(s) \subseteq Notes
  BY DEF Holds, PushInv, PushTypeOK, Sweep
<1>4. Accounted'
  BY DEF PushInv, Accounted, Pending
<1>5. \A s \in Instances : \A n \in Holds(s) : Pending(n)'
  BY <1>3 DEF PushInv, Exclusive, Pending
<1> QED BY <1>1, <1>2, <1>3, <1>4, <1>5

\* mark_read is made from a copy, yet never makes a notification pending again.
LEMMA MarkReadInv == ASSUME PushInv, NEW q \in Readers, MarkRead(q) PROVE PushInv'
<1> DEFINE n == reader[q].note
           seen == reader[q].seen
           row == Flush(note[n], seen, SeenInApp(seen))
<1>1. /\ reader[q].op = "one" /\ n \notin Locked
      /\ note' = [note EXCEPT ![n] = row]
      /\ reader' = [reader EXCEPT ![q] = NoReader]
      /\ UNCHANGED <<sweep, firebase, delivered, redone, late, losses>>
  BY DEF MarkRead
<1>2. /\ n \in Notes /\ seen \in Note /\ note[n] \in Note /\ ~seen.read
      /\ note[n].status # "absent"
      /\ seen.status # "pending" => note[n].status # "pending"
  BY <1>1 DEF PushInv, ReadersFit, PushTypeOK, Reader, Pending
<1> HIDE DEF n, seen
<1>3. /\ SeenInApp(seen) \in Note /\ SeenInApp(seen).read = TRUE
      /\ SeenInApp(seen).attempts = seen.attempts
      /\ SeenInApp(seen).status = IF seen.status = "pending" THEN "skipped" ELSE seen.status
  BY <1>2 DEF SeenInApp, Note, PushStatus
<1>4. /\ row \in Note /\ row.read = TRUE /\ row.attempts = note[n].attempts
      /\ row.status \in {note[n].status, "skipped"} /\ row.status # "pending"
  BY <1>2, <1>3, FlushNote
<1> HIDE DEF row
<1>5. /\ note' \in [Notes -> Note] /\ note'[n] = row
      /\ \A m \in Notes \ {n} : note'[m] = note[m]
  BY <1>1, <1>2, <1>4 DEF PushInv, PushTypeOK
<1>6. /\ reader' \in [Readers -> Reader] /\ reader'[q] = NoReader
      /\ \A z \in Readers \ {q} : reader'[z] = reader[z]
      /\ \A z \in Readers : reader'[z].skipped = reader[z].skipped
  BY <1>1, Typing DEF PushInv, PushTypeOK, NoReader, ReadersFit
<1>7. PushTypeOK'
  BY <1>1, <1>5, <1>6 DEF PushInv, PushTypeOK
<1>8. Partition' /\ Tries' /\ Accounted'
      /\ \A s \in Instances : Holds(s)' = Holds(s) /\ \A m \in Holds(s) : Pending(m)'
  <2>1. \A m \in Notes : (\E s \in Instances : m \in Holds(s)) => note'[m].status = note[m].status
    BY <1>1, <1>5, LockedBy
  <2>2. \A m \in Notes : /\ note'[m].attempts = note[m].attempts
                         /\ note'[m].status \in {note[m].status, "skipped"}
                         /\ note'[m].status = "absent" => note'[m].read = note[m].read
    BY <1>2, <1>4, <1>5
  <2> QED BY <1>1, <1>5, <2>1, <2>2, RowsInv
<1>9. \A z \in Readers : \A m \in reader[z].skipped : m \in Notes /\ m # n
  BY <1>1, LockedBy DEF PushInv, PushTypeOK, Reader
<1>10. Exclusive'
  <2>1. \A z \in Readers : \A m \in reader'[z].skipped : Pending(m)'
    BY <1>5, <1>6, <1>9 DEF PushInv, Exclusive, Pending
  <2> QED BY <1>6, <1>8, <2>1 DEF PushInv, Exclusive
<1>11. \A m \in Notes : Pending(m)' => Pending(m) /\ m # n
  BY <1>4, <1>5 DEF Pending
<1>12. ReadersFit'
  <2>1. \A m \in Notes : note[m].status # "absent" => note'[m].status # "absent"
    BY <1>2, <1>4, <1>5
  <2> QED BY <1>1, <1>6, <1>11, <2>1 DEF PushInv, ReadersFit, NoReader
<1>13. ReadNotPushed'
  BY <1>1, <1>5, <1>11 DEF PushInv, ReadNotPushed
<1> QED BY <1>7, <1>8, <1>10, <1>12, <1>13 DEF PushInv

\* The first statement of mark_all_read locks what it skips.
LEMMA SkipUnreadInv == ASSUME PushInv, NEW q \in Readers, SkipUnread(q) PROVE PushInv'
<1> DEFINE skipped == {n \in Unread : Pending(n)}
           new == [NoReader EXCEPT !.op = "all", !.skipped = skipped]
<1>1. /\ reader[q] = NoReader /\ skipped \cap Locked = {}
      /\ reader' = [reader EXCEPT ![q] = new]
      /\ UNCHANGED <<note, sweep, firebase, delivered, redone, late, losses>>
  BY DEF SkipUnread
<1>2. /\ \A n \in skipped : n \in Notes /\ Pending(n) /\ n \notin Locked
      /\ \A n \in Notes : Pending(n) /\ ~note[n].read => n \in skipped
  BY <1>1 DEF Unread, Pending
<1> HIDE DEF skipped
<1>3. new \in Reader /\ new.op = "all" /\ new.skipped = skipped
  <2>1. skipped \in SUBSET Notes
    BY <1>2
  <2> QED BY <2>1, Typing DEF NoReader, Reader
<1> HIDE DEF new
<1>4. /\ reader' \in [Readers -> Reader] /\ reader'[q] = new
      /\ \A z \in Readers \ {q} : reader'[z] = reader[z]
  BY <1>1, <1>3 DEF PushInv, PushTypeOK
<1>5. PushTypeOK'
  BY <1>1, <1>4 DEF PushInv, PushTypeOK
<1>6. Partition' /\ Tries' /\ Accounted' /\ ReadNotPushed'
  BY <1>1 DEF PushInv, Partition, Tries, Accounted, ReadNotPushed, Pending
<1>7. \A s \in Instances : Holds(s)' = Holds(s)
  BY <1>1 DEF Holds
<1>8. Exclusive'
  <2>1. \A s \in Instances : \A n \in Holds(s)' : Pending(n)'
    BY <1>1, <1>7 DEF PushInv, Exclusive, Pending
  <2>2. \A z \in Readers : \A n \in reader'[z].skipped : Pending(n)'
    BY <1>1, <1>2, <1>3, <1>4 DEF PushInv, Exclusive, Pending
  <2>3. \A s \in Instances, z \in Readers : Holds(s)' \cap reader'[z].skipped = {}
    BY <1>2, <1>3, <1>4, <1>7, LockedBy DEF PushInv, Exclusive
  <2>4. \A y, z \in Readers : y # z => reader'[y].skipped \cap reader'[z].skipped = {}
    BY <1>2, <1>3, <1>4, LockedBy DEF PushInv, Exclusive
  <2> QED BY <1>7, <2>1, <2>2, <2>3, <2>4 DEF PushInv, Exclusive
<1>9. ReadersFit'
  BY <1>1, <1>2, <1>3, <1>4 DEF PushInv, ReadersFit, ReadNotPushed, Pending
<1> QED BY <1>5, <1>6, <1>8, <1>9 DEF PushInv

\* The second statement writes no row that another holds, and what it leaves pending
\* came late.
LEMMA MarkAllReadInv == ASSUME PushInv, NEW q \in Readers, MarkAllRead(q) PROVE PushInv'
<1>1. /\ reader[q].op = "all" /\ Unread \cap (Locked \ reader[q].skipped) = {}
      /\ note' = [n \in Notes |->
                  IF n \in Unread
                  THEN [note[n] EXCEPT !.read = TRUE,
                                       !.status = IF n \in reader[q].skipped THEN "skipped" ELSE @]
                  ELSE note[n]]
      /\ reader' = [reader EXCEPT ![q] = NoReader]
      /\ UNCHANGED <<sweep, firebase, delivered, redone, late, losses>>
  BY DEF MarkAllRead
<1>2. /\ reader' \in [Readers -> Reader] /\ reader'[q] = NoReader
      /\ \A z \in Readers \ {q} : reader'[z] = reader[z]
  BY <1>1, Typing DEF PushInv, PushTypeOK
<1>3. ASSUME NEW n \in Notes
      PROVE  /\ note'[n] \in Note /\ note'[n].attempts = note[n].attempts
             /\ n \notin Unread => note'[n] = note[n]
             /\ n \in Unread => /\ note'[n].read = TRUE
                                /\ note'[n].status = IF n \in reader[q].skipped THEN "skipped"
                                                     ELSE note[n].status
  <2>1. note[n] \in Note
    BY DEF PushInv, PushTypeOK
  <2>2. CASE n \notin Unread
    BY <1>1, <2>1, <2>2
  <2>3. CASE n \in Unread /\ n \in reader[q].skipped
    <3>1. note'[n] = [note[n] EXCEPT !.read = TRUE, !.status = "skipped"]
      BY <1>1, <2>3
    <3> QED BY <2>1, <2>3, <3>1 DEF Note, PushStatus
  <2>4. CASE n \in Unread /\ n \notin reader[q].skipped
    <3>1. note'[n] = [note[n] EXCEPT !.read = TRUE, !.status = note[n].status]
      BY <1>1, <2>4
    <3> QED BY <2>1, <2>4, <3>1 DEF Note
  <2> QED BY <2>2, <2>3, <2>4
<1>4. note' \in [Notes -> Note]
  BY <1>1, <1>3
<1>5. PushTypeOK'
  BY <1>1, <1>2, <1>4 DEF PushInv, PushTypeOK
<1>6. \A n \in Notes : note'[n].status \in {note[n].status, "skipped"}
  BY <1>3
<1>7. \A n \in Notes : /\ note'[n].status # note[n].status => n \in Unread \cap reader[q].skipped
                       /\ n \in Unread => note[n].status # "absent"
  BY <1>3 DEF Unread
<1>8. Partition' /\ Tries' /\ Accounted'
      /\ \A s \in Instances : Holds(s)' = Holds(s) /\ \A m \in Holds(s) : Pending(m)'
  <2>1. \A n \in Notes : (\E s \in Instances : n \in Holds(s)) => note'[n].status = note[n].status
    BY <1>7 DEF PushInv, Exclusive
  <2>2. \A n \in Notes : note'[n].status = "absent" => note'[n].read = note[n].read
    BY <1>3, <1>7
  <2> QED BY <1>1, <1>3, <1>4, <1>6, <2>1, <2>2, RowsInv
<1>9. Exclusive'
  <2>1. \A z \in Readers \ {q} : \A n \in reader[z].skipped : n \in Notes /\ n \notin reader[q].skipped
    BY DEF PushInv, PushTypeOK, Reader, Exclusive
  <2>2. reader'[q].skipped = {}
    BY <1>2 DEF NoReader
  <2>3. \A z \in Readers : \A n \in reader'[z].skipped : Pending(n)'
    BY <1>2, <1>7, <2>1, <2>2 DEF PushInv, Exclusive, Pending
  <2> QED BY <1>2, <1>8, <2>2, <2>3 DEF PushInv, Exclusive
<1>10. \A n \in Notes : Pending(n)' => Pending(n)
  BY <1>6 DEF Pending
<1>11. ReadersFit'
  <2>1. \A n \in Notes : note[n].status # "absent" => note'[n].status # "absent"
    BY <1>6
  <2> QED BY <1>1, <1>2, <1>10, <2>1 DEF PushInv, ReadersFit, NoReader
<1>12. ReadNotPushed'
  <2> SUFFICES ASSUME NEW n \in Notes, n \notin late, note'[n].read, Pending(n)'
               PROVE  FALSE
    BY <1>1 DEF ReadNotPushed
  <2>1. Pending(n)
    BY <1>10
  <2>2. n \in reader[q].skipped /\ ~note[n].read
    BY <1>1, <2>1 DEF PushInv, ReadersFit, ReadNotPushed
  <2>3. n \in Unread
    BY <2>1, <2>2 DEF Unread, Pending
  <2> QED BY <1>3, <2>2, <2>3 DEF Pending
<1> QED BY <1>5, <1>8, <1>9, <1>11, <1>12 DEF PushInv

\* Time that passes decides nothing.
LEMMA ClockInv ==
    ASSUME PushInv, NEW n \in Notes, BackoffEnds(n) \/ GetsStale(n) PROVE PushInv'
<1>1. UNCHANGED <<sweep, firebase, reader, delivered, redone, late, losses>>
  BY DEF BackoffEnds, GetsStale
<1> DEFINE due == [note[n] EXCEPT !.due = TRUE]
           stale == [note[n] EXCEPT !.stale = TRUE]
<1>8. /\ note \in [Notes -> Note]
      /\ \/ note' = [note EXCEPT ![n] = due]
         \/ note' = [note EXCEPT ![n] = stale]
  BY DEF BackoffEnds, GetsStale, PushInv, PushTypeOK
<1>9. /\ due \in Note /\ due.status = note[n].status /\ due.read = note[n].read
      /\ due.attempts = note[n].attempts
  BY <1>8 DEF Note
<1>10. /\ stale \in Note /\ stale.status = note[n].status /\ stale.read = note[n].read
       /\ stale.attempts = note[n].attempts
  BY <1>8 DEF Note
<1> HIDE DEF due, stale
<1>2. note' \in [Notes -> Note]
      /\ \A m \in Notes : /\ note'[m].status = note[m].status /\ note'[m].read = note[m].read
                          /\ note'[m].attempts = note[m].attempts
  BY <1>8, <1>9, <1>10
<1>3. PushTypeOK'
  BY <1>1, <1>2 DEF PushInv, PushTypeOK
<1>4. Partition' /\ Tries' /\ Accounted'
      /\ \A s \in Instances : Holds(s)' = Holds(s) /\ \A m \in Holds(s) : Pending(m)'
  BY <1>1, <1>2, RowsInv
<1>5. \A m \in Notes : Pending(m)' <=> Pending(m)
  BY <1>2 DEF Pending
<1>6. Exclusive'
  BY <1>1, <1>4, <1>5 DEF PushInv, Exclusive, PushTypeOK, Reader
<1>7. ReadersFit' /\ ReadNotPushed'
  BY <1>1, <1>2, <1>5 DEF PushInv, ReadersFit, ReadNotPushed
<1> QED BY <1>3, <1>4, <1>6, <1>7 DEF PushInv

-----------------------------------------------------------------------------
(* The theorems                                                              *)

\* Every step keeps the inductive invariant.
LEMMA NextInv == PushInv /\ [OutboxNext]_outboxVars => PushInv'
<1> SUFFICES ASSUME PushInv, [OutboxNext]_outboxVars PROVE PushInv'
  OBVIOUS
<1>1. ASSUME NEW n \in Notes, Notify(n) \/ BackoffEnds(n) \/ GetsStale(n) PROVE PushInv'
  BY <1>1, NotifyInv, ClockInv
<1>2. ASSUME NEW s \in Instances,
             InitFirebase(s) \/ Drain(s) \/ Claim(s) \/ SweepCommit(s) \/ LoseSweep(s)
      PROVE  PushInv'
  BY <1>2, InitFirebaseInv, DrainInv, ClaimInv, SweepCommitInv, LoseSweepInv
<1>3. ASSUME NEW s \in Instances, NEW n \in Notes, Dispatch(s, n) PROVE PushInv'
  BY <1>3, DispatchInv
<1>4. ASSUME NEW q \in Readers, MarkRead(q) \/ SkipUnread(q) \/ MarkAllRead(q) PROVE PushInv'
  BY <1>4, MarkReadInv, SkipUnreadInv, MarkAllReadInv
<1>5. ASSUME NEW q \in Readers, NEW n \in Notes, ReadNote(q, n) PROVE PushInv'
  BY <1>5, ReadNoteInv
<1>6. CASE UNCHANGED outboxVars
  BY <1>6 DEF outboxVars, PushInv, PushTypeOK, Exclusive, Partition, Tries, Accounted,
              ReadersFit, ReadNotPushed, Pending, Holds
<1> QED BY <1>1, <1>2, <1>3, <1>4, <1>5, <1>6 DEF OutboxNext

\* The inductive invariant holds of every behaviour.
LEMMA SpecInv == OutboxSpec => []PushInv
BY InitInv, NextInv, PTL DEF OutboxSpec

\* Type correctness: a push is never tried more than NOTIFICATION_PUSH_MAX_ATTEMPTS times.
THEOREM PushTypes == OutboxSpec => []PushTypeOK
<1>1. PushInv => PushTypeOK
  BY DEF PushInv
<1> QED BY <1>1, SpecInv, PTL

\* However many instances sweep, a push is sent twice only because a sweep was lost after
\* it had sent it.
THEOREM SentOnceEach == OutboxSpec => []SentOnce
<1>1. PushInv => SentOnce
  BY DEF PushInv, Accounted, SentOnce
<1> QED BY <1>1, SpecInv, PTL

\* A notification that was read is not pushed later, although mark_read writes from a
\* copy, unless it was queued between the statements of mark_all_read.
THEOREM ReadIsNotPushed == OutboxSpec => []ReadNotPushed
<1>1. PushInv => ReadNotPushed
  BY DEF PushInv
<1> QED BY <1>1, SpecInv, PTL

=============================================================================
