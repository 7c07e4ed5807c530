--------------------------- MODULE Conversations ----------------------------
(* The conversation of a seeker and an advisor (conversation_service,         *)
(* api/v1/conversations): sending, editing, reading, deleting, reporting and  *)
(* moderating messages, and last_message_at, by which the list of             *)
(* conversations is ordered.  Whether a booking allows sending at the moment  *)
(* is left open: a message may be refused.                                    *)
(*                                                                            *)
(* A message is known by its created_at, which send_message chooses before it *)
(* writes.  Requests read without locks; the row of the conversation is       *)
(* locked from its update to the commit.                                      *)
EXTENDS Naturals, FiniteSetsExt, Moderation

CONSTANTS
    MaxMessages,  \* bound: messages sent in the conversation
    Chatters      \* requests that may be in progress at once

ASSUME MessageAssumption == MaxMessages \in Nat

VARIABLES
    thread,   \* the conversations row
    message,  \* the messages rows
    chat,     \* what each request in progress has read
    begun,    \* the times that are taken
    unsettled \* history: last_message_at was written by requests that overlapped, or a
              \* message was moderated since

chatVars == <<thread, message, chat, begun, unsettled>>

Times == 1 .. MaxMessages

-----------------------------------------------------------------------------
\* last: last_message_at, or 0
Thread == [open : BOOLEAN, last : 0 .. MaxMessages]

MessageRow == [status : ModerationStatus, read : BOOLEAN, edited : BOOLEAN, deleted : BOOLEAN]

Unsent == [status |-> "none"]

\* last: last_message_at as it was read, newest: as it will be written.
\* alone: no other sending or deletion has been in progress since, nor was a message moderated.
Chat == [op : {"send", "delete"}, step : {"read", "listed"}, of : Times, last : 0 .. MaxMessages,
         newest : 0 .. MaxMessages, alone : BOOLEAN]
          \cup [op : {"edit", "read"} \cup ModerationOps, of : Times, seen : ModerationStatus]

NoChat == [op |-> "idle"]

ChatTypeOK ==
    /\ thread \in Thread
    /\ \A t \in Times : message[t] = Unsent \/ message[t] \in MessageRow
    /\ \A p \in Chatters : chat[p] = NoChat \/ chat[p] \in Chat
    /\ begun \in 0 .. MaxMessages
    /\ unsettled \in BOOLEAN

ChatInit ==
    /\ thread = [open |-> FALSE, last |-> 0]
    /\ message = [t \in Times |-> Unsent]
    /\ chat = [p \in Chatters |-> NoChat]
    /\ begun = 0
    /\ unsettled = FALSE

-----------------------------------------------------------------------------
\* The messages list_messages_stmt and last_message select
Shown == {t \in Times : message[t].status \in PublicStatuses /\ ~message[t].deleted}

Newest(times) == IF times = {} THEN 0 ELSE Max(times)

\* The conversation is found or created; the unique constraint lets one creation in.
OpenThread ==
    /\ ~thread.open
    /\ thread' = [thread EXCEPT !.open = TRUE]
    /\ UNCHANGED <<message, chat, begun, unsettled>>

Writing(p) == chat[p].op \in {"send", "delete"}

\* A sending or deletion begins: it and the others in progress overlap.
BeginWriting(p, op, t) ==
    chat' = [q \in Chatters |->
               IF q = p
               THEN [op |-> op, step |-> "read", of |-> t, last |-> thread.last, newest |-> t,
                     alone |-> \A r \in Chatters \ {p} : ~Writing(r)]
               ELSE IF Writing(q) THEN [chat[q] EXCEPT !.alone = FALSE] ELSE chat[q]]

\* send_message takes the time of the message.
StartSend(p) ==
    /\ chat[p] = NoChat /\ thread.open /\ begun < MaxMessages
    /\ begun' = begun + 1
    /\ BeginWriting(p, "send", begun + 1)
    /\ UNCHANGED <<thread, message, unsettled>>

\* The message and last_message_at are written and committed.
Send(p) ==
    LET t == chat[p].of IN
    /\ chat[p].op = "send"
    /\ message' = [message EXCEPT ![t] = [status |-> "visible", read |-> FALSE, edited |-> FALSE,
                                          deleted |-> FALSE]]
    /\ thread' = [thread EXCEPT !.last = t]
    /\ unsettled' = ~chat[p].alone
    /\ chat' = [chat EXCEPT ![p] = NoChat]
    /\ UNCHANGED begun

-----------------------------------------------------------------------------
\* delete_message reads the message and the conversation,
StartDelete(p, t) ==
    /\ chat[p] = NoChat /\ message[t] # Unsent /\ ~message[t].deleted
    /\ BeginWriting(p, "delete", t)
    /\ UNCHANGED <<thread, message, begun, unsettled>>

\* looks for the last message once its own deletion is flushed,
ListLast(p) ==
    /\ chat[p].op = "delete" /\ chat[p].step = "read"
    /\ chat' = [chat EXCEPT ![p].step = "listed", ![p].newest = Newest(Shown \ {chat[p].of})]
    /\ UNCHANGED <<thread, message, begun, unsettled>>

\* and writes last_message_at if that differs from what it has read.
Delete(p) ==
    LET c == chat[p] IN
    /\ c.op = "delete" /\ c.step = "listed"
    /\ message' = [message EXCEPT ![c.of].deleted = TRUE]
    /\ thread' = IF c.newest # c.last THEN [thread EXCEPT !.last = c.newest] ELSE thread
    /\ unsettled' = ~c.alone
    /\ chat' = [chat EXCEPT ![p] = NoChat]
    /\ UNCHANGED begun

-----------------------------------------------------------------------------
\* edit_message, mark_read (over HTTP or the socket), report and moderate read the message.
MayTouch(op, row) ==
    /\ op = "edit" => ~row.deleted /\ row.status # "removed"
    /\ op = "read" => ~row.read
    /\ op \in ModerationOps => MayModerate(op, row.status)

ReadMessage(p, t, op) ==
    /\ chat[p] = NoChat /\ message[t] # Unsent
    /\ MayTouch(op, message[t])
    /\ chat' = [chat EXCEPT ![p] = [op |-> op, of |-> t, seen |-> message[t].status]]
    /\ UNCHANGED <<thread, message, begun, unsettled>>

\* The columns they change are written.  Moderation leaves last_message_at as it is.
WriteMessage(p) ==
    LET c == chat[p] IN
    /\ c.op \in {"edit", "read"} \cup ModerationOps
    /\ message' = [message EXCEPT
                     ![c.of].edited = @ \/ c.op = "edit",
                     ![c.of].read = @ \/ c.op = "read",
                     ![c.of].status = IF c.op \in ModerationOps /\ Outcome(c.op) # c.seen
                                      THEN Outcome(c.op) ELSE @]
    /\ LET moved == message'[c.of].status # message[c.of].status IN
         /\ unsettled' = (unsettled \/ moved)
         /\ chat' = [q \in Chatters |->
                       IF q = p THEN NoChat
                       ELSE IF Writing(q) /\ moved THEN [chat[q] EXCEPT !.alone = FALSE]
                       ELSE chat[q]]
    /\ UNCHANGED <<thread, begun>>

ChatRollBack(p) ==
    /\ chat[p] # NoChat
    /\ chat' = [chat EXCEPT ![p] = NoChat]
    /\ UNCHANGED <<thread, message, begun, unsettled>>

ChatNext ==
    \/ OpenThread
    \/ \E p \in Chatters :
         \/ StartSend(p) \/ Send(p) \/ ListLast(p) \/ Delete(p) \/ WriteMessage(p) \/ ChatRollBack(p)
         \/ \E t \in Times : \/ StartDelete(p, t)
                             \/ \E op \in {"edit", "read"} \cup ModerationOps : ReadMessage(p, t, op)

ChatSpec == ChatInit /\ [][ChatNext]_chatVars

-----------------------------------------------------------------------------
\* The list is ordered by the newest message that is shown: last_message_at is its time
\* after a sending or a deletion that overlapped no other, until a message is moderated,
\* whoever edits, reads and reports messages meanwhile.
NewestListed == ~unsettled => thread.last = Newest(Shown)

=============================================================================
