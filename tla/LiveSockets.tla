----------------------------- MODULE LiveSockets -----------------------------
(* What the open windows of a conversation are told (ws_manager and the       *)
(* WebSocket handlers of api/v1/conversations): a socket of the thread gets   *)
(* the messages and receipts, a socket of the inbox the badge and the preview.*)
(* A request sends its frames when it has flushed and before it commits; a    *)
(* receipt that comes over the socket is committed first.  The window itself  *)
(* is the client: it loads what is committed when it opens, and then does     *)
(* what the frames say.                                                       *)
EXTENDS Naturals, FiniteSets, FiniteSetsExt

CONSTANTS
    Handlers,  \* requests, and frames read from sockets, in progress together
    MaxLines   \* bound: messages

ASSUME LinesAssumption == MaxLines \in Nat

VARIABLES
    line,     \* the messages rows, as committed
    lastAt,   \* last_message_at
    handler,
    taken,    \* the times that are taken
    window,   \* the thread, as each party has it open
    inbox     \* the entry of the conversation in each party's list

liveVars == <<line, lastAt, handler, taken, window, inbox>>

Sides == {"seeker", "advisor"}
Counterpart(u) == IF u = "seeker" THEN "advisor" ELSE "seeker"
LineIds == 1 .. MaxLines

Line == [by : Sides, read : BOOLEAN, edited : BOOLEAN, deleted : BOOLEAN, removed : BOOLEAN]
NoLine == [by |-> "nobody"]

\* A socket is dead when its client is gone and the registry does not know yet.
Wire == {"none", "open", "dead"}

\* doubtful: history, messages a frame said something of that was not committed when the
\* window opened, or never was, or that were moderated since.
Window == [wire : Wire, shown : SUBSET LineIds, ticks : SUBSET LineIds, doubtful : SUBSET LineIds]

\* preview: the message, or 0, and whether in its edited form.
\* vague, hazy: history, the badge or the preview came from a request that had not seen what
\* another one had pushed, or was not the last message any more, or it has changed without a
\* frame.
Inbox == [wire : Wire, badge : 0 .. MaxLines, preview : (0 .. MaxLines) \X BOOLEAN,
          vague : BOOLEAN, hazy : BOOLEAN]

Job == [op : {"send", "edit", "delete", "read", "receipt"}, of : LineIds, by : Sides,
        step : {"begun", "flushed", "announced", "pushed"}, over : BOOLEAN, last : 0 .. MaxLines,
        locks : BOOLEAN]
NoJob == [op |-> "idle", of |-> 0, step |-> "idle", locks |-> FALSE, over |-> FALSE]

LiveTypeOK ==
    /\ \A t \in LineIds : line[t] = NoLine \/ line[t] \in Line
    /\ lastAt \in 0 .. MaxLines /\ taken \in 0 .. MaxLines
    /\ \A p \in Handlers : handler[p] = NoJob \/ handler[p] \in Job
    /\ \A u \in Sides : window[u] \in Window /\ inbox[u] \in Inbox
    /\ Cardinality({p \in Handlers : handler[p].locks}) <= 1

LiveInit ==
    /\ line = [t \in LineIds |-> NoLine]
    /\ lastAt = 0 /\ taken = 0
    /\ handler = [p \in Handlers |-> NoJob]
    /\ window = [u \in Sides |-> [wire |-> "none", shown |-> {}, ticks |-> {}, doubtful |-> {}]]
    /\ inbox = [u \in Sides |-> [wire |-> "none", badge |-> 0, preview |-> <<0, FALSE>>,
                                 vague |-> FALSE, hazy |-> FALSE]]

-----------------------------------------------------------------------------
\* Queries

Public(rows) == {t \in LineIds : rows[t] # NoLine /\ ~rows[t].removed}

\* list_messages_stmt
Visible(rows) == {t \in Public(rows) : ~rows[t].deleted}

\* unread_count: deleted messages are counted, too.
unread_count(rows, u) == Cardinality({t \in Public(rows) : rows[t].by # u /\ ~rows[t].read})

\* last_message
last_message(rows) == Max(Visible(rows) \cup {0})

\* message_preview
message_preview(rows) ==
    LET t == last_message(rows) IN <<t, t # 0 /\ rows[t].edited>>

-----------------------------------------------------------------------------
\* The registries

\* broadcast: told is what the windows become.  send_json fails on a socket that is dead,
\* which is then unregistered.
broadcast(told, to) ==
    window' = [u \in Sides |->
                 IF u \notin to THEN window[u]
                 ELSE IF window[u].wire = "open" THEN told[u]
                 ELSE [window[u] EXCEPT !.wire = "none"]]

\* send_user, to each of the two
send_users(told, to) ==
    inbox' = [u \in Sides |->
                IF u \notin to THEN inbox[u]
                ELSE IF inbox[u].wire = "open" THEN told[u]
                ELSE [inbox[u] EXCEPT !.wire = "none"]]

\* What p has sent frames about and not committed
Pending(p) == handler[p].step \in {"announced", "pushed"} /\ ~handler[p].over
PushedOnly(p) == handler[p].step = "pushed" /\ ~handler[p].over

\* The client loads the thread and registers (conversation_websocket).
OpenWindow(u) ==
    /\ window[u].wire # "open"
    /\ window' = [window EXCEPT ![u] =
                    [wire |-> "open", shown |-> Visible(line),
                     ticks |-> {t \in Visible(line) : line[t].read},
                     doubtful |-> {handler[p].of : p \in {q \in Handlers : Pending(q)}}]]
    /\ UNCHANGED <<line, lastAt, handler, taken, inbox>>

\* The client loads the list and registers (inbox_websocket).
OpenInbox(u) ==
    /\ inbox[u].wire # "open"
    /\ inbox' = [inbox EXCEPT ![u] =
                   [wire |-> "open", badge |-> unread_count(line, u), preview |-> message_preview(line),
                    vague |-> \E p \in Handlers : PushedOnly(p),
                    hazy  |-> \E p \in Handlers : PushedOnly(p)]]
    /\ UNCHANGED <<line, lastAt, handler, taken, window>>

\* The client goes away; the server may learn of it, or not.
Leave(u) ==
    /\ \E wire \in {"none", "dead"} :
          \/ window[u].wire = "open" /\ window' = [window EXCEPT ![u].wire = wire] /\ UNCHANGED inbox
          \/ inbox[u].wire = "open" /\ inbox' = [inbox EXCEPT ![u].wire = wire] /\ UNCHANGED window
    /\ UNCHANGED <<line, lastAt, handler, taken>>

-----------------------------------------------------------------------------
\* The handlers

Written(rows, job) ==
    CASE job.op = "send"   -> [rows EXCEPT ![job.of] = [by |-> job.by, read |-> FALSE, edited |-> FALSE,
                                                        deleted |-> FALSE, removed |-> FALSE]]
      [] job.op = "edit"   -> [rows EXCEPT ![job.of].edited = TRUE]
      [] job.op = "delete" -> [rows EXCEPT ![job.of].deleted = TRUE]
      [] job.op \in {"read", "receipt"} -> [rows EXCEPT ![job.of].read = TRUE]

\* What the queries of p see: what is committed, and its own
AsRead(p) == IF handler[p].over THEN line ELSE Written(line, handler[p])

MayDo(op, u, row) ==
    CASE op = "edit"   -> row.by = u /\ ~row.deleted /\ ~row.removed
      [] op = "delete" -> row.by = u /\ ~row.deleted
      [] op \in {"read", "receipt"} -> row.by # u

Receive(p, op, u, t) ==
    /\ handler[p] = NoJob
    /\ IF op = "send" THEN t = taken + 1 /\ taken' = t
       ELSE line[t] # NoLine /\ MayDo(op, u, line[t]) /\ UNCHANGED taken
    /\ op = "receipt" => window[u].wire = "open"
    /\ handler' = [handler EXCEPT ![p] = [op |-> op, of |-> t, by |-> u, step |-> "begun", over |-> FALSE,
                                          last |-> lastAt, locks |-> FALSE]]
    /\ UNCHANGED <<line, lastAt, window, inbox>>

Unlocked == \A p \in Handlers : ~handler[p].locks

\* The message is written; sending one writes the conversation as well, whose row is then
\* locked.  A write of the same message waits.
FlushLine(p) ==
    LET job == handler[p] IN
    /\ job.step = "begun"
    /\ \A q \in Handlers \ {p} : handler[q].step \in {"idle", "begun"} \/ handler[q].over
                                 \/ handler[q].of # job.of
    /\ job.op = "send" => Unlocked
    /\ handler' = [handler EXCEPT ![p].step = "flushed", ![p].locks = job.op = "send"]
    /\ UNCHANGED <<line, lastAt, taken, window, inbox>>

\* conversation_websocket commits what a receipt has written at once.
CommitReceipt(p) ==
    /\ handler[p].op = "receipt" /\ handler[p].step = "flushed" /\ ~handler[p].over
    /\ line' = Written(line, handler[p])
    /\ handler' = [handler EXCEPT ![p].over = TRUE]
    /\ UNCHANGED <<lastAt, taken, window, inbox>>

\* The frame to the thread; of a receipt its own socket gets none, the client knows.
Announce(p) ==
    LET job == handler[p]
        frame(w) == CASE job.op = "send"   -> [w EXCEPT !.shown = @ \cup {job.of}]
                      [] job.op = "edit"   -> w
                      [] job.op = "delete" -> [w EXCEPT !.shown = @ \ {job.of}, !.ticks = @ \ {job.of}]
                      [] job.op \in {"read", "receipt"} ->
                            [w EXCEPT !.ticks = @ \cup ({job.of} \cap w.shown)]
    IN
    /\ job.step = "flushed" /\ (job.op = "receipt" => job.over)
    /\ handler' = [handler EXCEPT ![p].step = "announced"]
    /\ broadcast([u \in Sides |-> frame(window[u])], IF job.op = "receipt" THEN {Counterpart(job.by)} ELSE Sides)
    /\ UNCHANGED <<line, lastAt, taken, inbox>>

\* Mutation: who acts gets no frame, only the other party does.
OtherOnly(job) == {Counterpart(job.by)}

\* _inbox_push_to_participants
Participants(job) == Sides

\* The frames to the inboxes, each with a count of its own; a message sent is its own preview,
\* even when a later one was faster.  A deletion writes last_message_at before, if it differs
\* from what was read.
PushInbox(p) ==
    LET job == handler[p]
        rows == AsRead(p)
        moves == job.op = "delete" /\ last_message(rows) # job.last
        unseen == \E q \in Handlers \ {p} : PushedOnly(q)
        counted(i, u) == [i EXCEPT !.badge = unread_count(rows, u), !.vague = unseen]
        frame(i, u) ==
            CASE job.op \in {"read", "receipt"} -> counted(i, u)
              [] job.op = "send" -> [counted(i, u) EXCEPT
                     !.preview = <<job.of, FALSE>>, !.hazy = unseen \/ job.of # last_message(rows)]
              [] job.op \in {"edit", "delete"} -> [counted(i, u) EXCEPT
                     !.preview = message_preview(rows), !.hazy = unseen]
    IN
    /\ job.step = "announced"
    /\ moves => Unlocked
    /\ handler' = [handler EXCEPT ![p].step = "pushed", ![p].locks = @ \/ moves]
    /\ send_users([u \in Sides |-> frame(inbox[u], u)], Participants(job))
    /\ UNCHANGED <<line, lastAt, taken, window>>

\* get_session commits; or the receipt is done with.
CommitJob(p) ==
    LET job == handler[p] IN
    /\ job.step = "pushed"
    /\ line' = IF job.over THEN line ELSE Written(line, job)
    /\ lastAt' = IF job.op = "send" THEN job.of
                 ELSE IF job.op = "delete" /\ job.locks THEN last_message(Written(line, job)) ELSE lastAt
    /\ handler' = [handler EXCEPT ![p] = NoJob]
    /\ UNCHANGED <<taken, window, inbox>>

\* An error, a deadlock or a lost connection rolls the request back, after its frames or, of
\* a receipt, ends it before them.
AbortJob(p) ==
    /\ handler[p] # NoJob
    /\ window' = IF Pending(p) \/ handler[p].over THEN [u \in Sides |-> [window[u] EXCEPT !.doubtful = @ \cup {handler[p].of}]]
                 ELSE window
    /\ inbox' = IF PushedOnly(p) \/ handler[p].over
                THEN [u \in Sides |-> [inbox[u] EXCEPT !.vague = TRUE, !.hazy = TRUE]] ELSE inbox
    /\ handler' = [handler EXCEPT ![p] = NoJob]
    /\ UNCHANGED <<line, lastAt, taken>>

\* An administrator removes a message, or approves one: no frame tells the windows.
Moderated(t, removed) ==
    /\ line[t] # NoLine /\ line[t].removed # removed
    /\ line' = [line EXCEPT ![t].removed = removed]
    /\ window' = [u \in Sides |-> [window[u] EXCEPT !.doubtful = @ \cup {t}]]
    /\ inbox' = [u \in Sides |-> [inbox[u] EXCEPT !.vague = TRUE, !.hazy = TRUE]]
    /\ UNCHANGED <<lastAt, handler, taken>>

LiveNext ==
    \/ \E u \in Sides : OpenWindow(u) \/ OpenInbox(u) \/ Leave(u)
    \/ \E p \in Handlers :
          \/ FlushLine(p) \/ CommitReceipt(p) \/ Announce(p) \/ PushInbox(p) \/ CommitJob(p) \/ AbortJob(p)
          \/ \E op \in {"send", "edit", "delete", "read", "receipt"}, u \in Sides, t \in LineIds :
                Receive(p, op, u, t)
    \/ \E t \in LineIds, removed \in BOOLEAN : Moderated(t, removed)

LiveSpec == LiveInit /\ [][LiveNext]_liveVars

-----------------------------------------------------------------------------
\* Properties

AtRest == \A p \in Handlers : handler[p] = NoJob

\* Once nothing is in progress an open thread shows the messages there are, and which of its
\* own were read, whatever was sent, read and deleted beside each other; but for messages
\* whose request rolled back or had sent its frame when the window opened, or was moderated.
ThreadTrue ==
    AtRest => \A u \in Sides :
        window[u].wire = "open" =>
            \A t \in LineIds \ window[u].doubtful :
                /\ t \in window[u].shown <=> t \in Visible(line)
                /\ t \in Visible(line) /\ line[t].by = u => (t \in window[u].ticks <=> line[t].read)

\* Once nothing is in progress the badge counts what the list would and the preview is the
\* last message, unless the frame was sent by a request that had not seen what another one
\* had pushed already, or of a message that a later one had overtaken.
InboxTrue ==
    AtRest => \A u \in Sides :
        inbox[u].wire = "open" =>
            /\ inbox[u].vague \/ inbox[u].badge = unread_count(line, u)
            /\ inbox[u].hazy \/ inbox[u].preview = message_preview(line)

LiveTrue == ThreadTrue /\ InboxTrue

=============================================================================
