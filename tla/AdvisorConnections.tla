------------------------- MODULE AdvisorConnections -------------------------
(* What an advisor must have linked before anybody can pay for a session: a   *)
(* Zoom account (zoom_connection_service) and a Stripe Connect account        *)
(* (payment_service).  Whether one is missing is kept on the profile, where   *)
(* the checkout and the search look (needs_zoom_connect,                      *)
(* needs_stripe_connect), beside the row of the connection and the columns    *)
(* that cache what Stripe has said.                                           *)
(*                                                                            *)
(* A request reads, calls Zoom or Stripe, and then writes what differs from   *)
(* its copy.  Every write of the Zoom flag but that of a late disconnect is   *)
(* made under the lock of the connection's row, and the profile is read       *)
(* there, so that the writes up to the commit are one step.                   *)
EXTENDS Naturals, UnitOfWork

CONSTANTS
    Accounts,   \* Stripe Connect accounts
    NoAccount,  \* stripe_account_id of a profile without one
    Linkers,    \* requests that may be in progress at once
    MaxLinks    \* bound on the rows that are inserted in zoom_connections

ASSUME AccountAssumption == NoAccount \notin Accounts
ASSUME LinkAssumption == MaxLinks \in Nat

VARIABLES
    connection, \* the advisor's row of zoom_connections
    profile,    \* the columns of advisor_profiles that are about the two links
    linking,    \* the requests in progress, with what they have read
    crossed     \* history: the Stripe columns were written from a copy that another
                \* request had made stale

connectionVars == <<connection, profile, linking, crossed>>

-----------------------------------------------------------------------------
\* id: the row that was inserted last.  fresh: the access token is not near its expiry.
Connection == [id : 0 .. MaxLinks, status : {"absent", "connected", "revoked"}, fresh : BOOLEAN]

Profile == [account : Accounts \cup {NoAccount}, charges : BOOLEAN, payouts : BOOLEAN,
            needsStripe : BOOLEAN, needsZoom : BOOLEAN]

LinkOps == {"callback", "token", "disconnect", "connect", "status", "event", "clear"}

Linking == [op : LinkOps, link : Connection, copy : Profile]

NotLinking == [op |-> "idle"]

ConnectionTypeOK ==
    /\ connection \in Connection
    /\ profile \in Profile
    /\ \A c \in Linkers : linking[c] = NotLinking \/ linking[c] \in Linking
    /\ crossed \in BOOLEAN

ConnectionInit ==
    /\ connection = [id |-> 0, status |-> "absent", fresh |-> FALSE]
    /\ profile = [account |-> NoAccount, charges |-> FALSE, payouts |-> FALSE,
                  needsStripe |-> TRUE, needsZoom |-> TRUE]
    /\ linking = [c \in Linkers |-> NotLinking]
    /\ crossed = FALSE

-----------------------------------------------------------------------------
\* needs_zoom_connect, needs_stripe_connect
NeedsZoom(row) == row.status # "connected"

NeedsStripe(p) == ~(p.account # NoAccount /\ p.charges /\ p.payouts)

\* A callback goes on whatever it finds, a token is asked for by a booking whose meeting
\* is made, moved or removed, and used as it is while it is fresh.
Wanted(op) ==
    CASE op \in {"callback", "clear"} -> TRUE
      [] op = "token" -> connection.status = "connected" /\ ~connection.fresh
      [] op = "disconnect" -> connection.status # "absent"
      [] op = "connect" -> profile.account = NoAccount
      [] OTHER -> profile.account # NoAccount

StartLinking(c, op) ==
    /\ linking[c] = NotLinking /\ Wanted(op)
    /\ linking' = [linking EXCEPT ![c] = [op |-> op, link |-> connection, copy |-> profile]]
    /\ UNCHANGED <<connection, profile, crossed>>

\* The call outside failed, the row that was to be updated is gone, the advisor has a row
\* already, the database broke a deadlock, or the process stopped: all is rolled back.
StopLinking(c) ==
    /\ linking[c] # NotLinking
    /\ linking' = [linking EXCEPT ![c] = NotLinking]
    /\ UNCHANGED <<connection, profile, crossed>>

SameRow(c) == connection.status # "absent" /\ connection.id = linking[c].link.id

EndZoom(c, row) ==
    /\ connection' = row
    /\ profile' = [profile EXCEPT !.needsZoom = NeedsZoom(row)]
    /\ linking' = [linking EXCEPT ![c] = NotLinking]
    /\ UNCHANGED crossed

\* upsert_from_oauth on a row there is: a status that was connected in the copy is not
\* written, so a connection revoked meanwhile remains revoked.
Saved(c) ==
    LET link == linking[c].link IN
    [Flush(connection, link, [link EXCEPT !.status = "connected"]) EXCEPT !.fresh = TRUE]

Inserted == [id |-> connection.id + 1, status |-> "connected", fresh |-> TRUE]

\* zoom_callback: Zoom has exchanged the code.
Callback(c) ==
    /\ linking[c].op = "callback"
    /\ \/ linking[c].link.status # "absent" /\ SameRow(c) /\ EndZoom(c, Saved(c))
       \/ /\ linking[c].link.status = "absent" /\ connection.status = "absent"
          /\ connection.id < MaxLinks
          /\ EndZoom(c, Inserted)

\* _persist_refreshed_tokens: the status was connected in the copy and is not written.
TokenRefreshed(c) ==
    /\ linking[c].op = "token" /\ SameRow(c)
    /\ connection' = [connection EXCEPT !.fresh = TRUE]
    /\ linking' = [linking EXCEPT ![c] = NotLinking]
    /\ UNCHANGED <<profile, crossed>>

\* Mutation: the banner of the advisor is forgotten.
MarkRevokedOnly(c) ==
    /\ linking[c].op = "token" /\ SameRow(c)
    /\ connection' = [connection EXCEPT !.status = "revoked"]
    /\ linking' = [linking EXCEPT ![c] = NotLinking]
    /\ UNCHANGED <<profile, crossed>>

\* mark_revoked: Zoom has refused the refresh, or has not answered.
MarkRevoked(c) ==
    /\ linking[c].op = "token" /\ SameRow(c)
    /\ EndZoom(c, [connection EXCEPT !.status = "revoked"])

\* disconnect: the row goes if it is still the one that was read; the flag is set even if
\* another row has come in its place.
Disconnect(c) ==
    /\ linking[c].op = "disconnect"
    /\ connection' = IF SameRow(c) THEN [connection EXCEPT !.status = "absent", !.fresh = FALSE]
                     ELSE connection
    /\ profile' = [profile EXCEPT !.needsZoom = TRUE]
    /\ linking' = [linking EXCEPT ![c] = NotLinking]
    /\ UNCHANGED crossed

\* token_needs_refresh
TokenLapses ==
    /\ connection.status # "absent" /\ connection.fresh
    /\ connection' = [connection EXCEPT !.fresh = FALSE]
    /\ UNCHANGED <<profile, linking, crossed>>

-----------------------------------------------------------------------------
\* sync_stripe_connect_flag
Synced(p) == [p EXCEPT !.needsStripe = NeedsStripe(p)]

EndStripe(c, op, new) ==
    /\ linking[c].op = op
    /\ profile' = Flush(profile, linking[c].copy, new)
    /\ crossed' = (crossed \/ [linking[c].copy EXCEPT !.needsZoom = profile.needsZoom] # profile)
    /\ linking' = [linking EXCEPT ![c] = NotLinking]
    /\ UNCHANGED connection

\* create_connect_account: the flag is left to what Stripe says later.
ConnectAccount(c, a) == EndStripe(c, "connect", [linking[c].copy EXCEPT !.account = a])

\* _sync_connect_flags, by an account.updated event or by the live status
AccountSaid(c, charges, payouts) ==
    \E op \in {"event", "status"} :
       EndStripe(c, op, Synced([linking[c].copy EXCEPT !.charges = charges, !.payouts = payouts]))

\* disconnect_connect_account
ClearAccount(c) ==
    EndStripe(c, "clear", Synced([linking[c].copy EXCEPT !.account = NoAccount, !.charges = FALSE,
                                                         !.payouts = FALSE]))

ConnectionNext ==
    \/ \E c \in Linkers :
         \/ \E op \in LinkOps : StartLinking(c, op)
         \/ StopLinking(c)
         \/ Callback(c) \/ TokenRefreshed(c) \/ MarkRevoked(c) \/ Disconnect(c)
         \/ \E a \in Accounts : ConnectAccount(c, a)
         \/ \E charges, payouts \in BOOLEAN : AccountSaid(c, charges, payouts)
         \/ ClearAccount(c)
    \/ TokenLapses

ConnectionSpec == ConnectionInit /\ [][ConnectionNext]_connectionVars

-----------------------------------------------------------------------------
\* The gate of the checkout ("the advisor must have a Connect account that can accept
\* transfers before a seeker can pay them") opens only for an advisor who has what it
\* asks for: a Zoom connection that stands, and, unless two requests wrote the Stripe
\* columns beside each other, an account that takes charges and payouts.
GateHonest ==
    /\ ~profile.needsZoom => connection.status = "connected"
    /\ ~profile.needsStripe /\ ~crossed =>
          profile.account # NoAccount /\ profile.charges /\ profile.payouts

=============================================================================
