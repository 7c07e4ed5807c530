--------------------------- MODULE OfferedServices ---------------------------
(* The catalog of services, what one advisor offers of it, and the bookings   *)
(* of what is offered (advisor_offered_service_service, booking_service).     *)
(*                                                                            *)
(* A catalog row cannot go while an advisor offers it, and an advisor cannot  *)
(* stop offering what is booked; each check is a query before the write, and  *)
(* a booking looks for its service before it waits for the advisor's lock,    *)
(* which the withdrawal of a service does not take.                           *)
EXTENDS Naturals

CONSTANTS
    Services,  \* rows of the catalog
    NoService, \* the service_id of a booking whose catalog row is gone
    Booked,    \* bookings that may be made
    Editors,   \* requests that may be in progress at once
    MaxOffers  \* bound on the rows an advisor ever gets

ASSUME ServiceAssumption == NoService \notin Services
ASSUME OfferAssumption == MaxOffers \in Nat

VARIABLES
    catalog, \* the rows without a profile
    offer,   \* the advisor's row for each service: 0, or which of its rows it is
    offers,  \* how often rows have been added to it
    booked,  \* each booking's service_id and whether it is pending or confirmed
    editing, \* what each request in progress has read
    beside   \* history: bookings that were written after, or during, a withdrawal of
             \* their service, or that were made active again

offerVars == <<catalog, offer, offers, booked, editing, beside>>

-----------------------------------------------------------------------------
BookedRow == [service : Services \cup {NoService}, status : {"absent", "active", "closed"}]

\* rows: the advisor's rows as they were read.  wants: the services of the new list,
\* the service to book, or the catalog row to delete.
EditOps == {"replace", "create", "delete", "book", "drop"}

Editing == [op : EditOps, rows : [Services -> 0 .. MaxOffers], wants : SUBSET Services]

NotEditing == [op |-> "idle"]

OfferTypeOK ==
    /\ catalog \subseteq Services
    /\ offer \in [Services -> 0 .. offers] /\ offers <= MaxOffers
    /\ \A s \in Services : offer[s] > 0 => s \in catalog
    /\ booked \in [Booked -> BookedRow]
    /\ \A e \in Editors : editing[e] = NotEditing \/ editing[e] \in Editing
    /\ beside \subseteq Booked

OfferInit ==
    /\ catalog = {}
    /\ offer = [s \in Services |-> 0]
    /\ offers = 0
    /\ booked = [b \in Booked |-> [service |-> NoService, status |-> "absent"]]
    /\ editing = [e \in Editors |-> NotEditing]
    /\ beside = {}

-----------------------------------------------------------------------------
\* _active_booked_service_ids
ActiveBooked == {booked[b].service : b \in {c \in Booked : booked[c].status = "active"}}

Offered == {s \in Services : offer[s] > 0}

Start(e, op, wants) ==
    /\ editing[e] = NotEditing
    /\ editing' = [editing EXCEPT ![e] = [op |-> op, rows |-> offer, wants |-> wants]]
    /\ UNCHANGED <<catalog, offer, offers, booked, beside>>

\* replace_for_advisor: what the new list leaves out must not be booked.
ReadReplace(e, wants) ==
    wants \subseteq catalog /\ (Offered \ wants) \cap ActiveBooked = {} /\ Start(e, "replace", wants)

\* create
ReadCreate(e, s) == s \in catalog \ Offered /\ Start(e, "create", Offered \cup {s})

\* delete, delete_by_id of an offering
ReadDelete(e, s) == s \in Offered \ ActiveBooked /\ Start(e, "delete", Offered \ {s})

\* _resolve_offered_service
ReadBook(e, s) == s \in Offered /\ Start(e, "book", {s})

\* delete_by_id of a catalog row, after count_catalog_usage
ReadDrop(e, s) == s \in catalog \ Offered /\ Start(e, "drop", {s})

EditEnds(e) == editing' = [editing EXCEPT ![e] = NotEditing]

Lists == {"replace", "create", "delete"}

Removes(e) == IF editing[e].op \in Lists
              THEN {s \in Services : editing[e].rows[s] > 0} \ editing[e].wants
              ELSE {}

Adds(e) == {s \in editing[e].wants : editing[e].rows[s] = 0}

\* The rows that were read go by their keys, if they are still there.  The unique
\* constraint refuses a row for a service that has got one meanwhile, the foreign key
\* one for a service that left the catalog.
SaveOffers(e) ==
    LET gone == {s \in Removes(e) : offer[s] = editing[e].rows[s]} IN
    /\ editing[e].op \in Lists
    /\ Adds(e) \subseteq catalog /\ Adds(e) \cap Offered = {}
    /\ Adds(e) # {} => offers < MaxOffers
    /\ offer' = [s \in Services |-> IF s \in Adds(e) THEN offers + 1
                                    ELSE IF s \in gone THEN 0 ELSE offer[s]]
    /\ offers' = IF Adds(e) = {} THEN offers ELSE offers + 1
    /\ EditEnds(e)
    /\ UNCHANGED <<catalog, booked, beside>>

\* create and create_by_advisor of a booking, past the lock and the choice of a time.
SaveBooked(e, b) ==
    LET s == CHOOSE w \in editing[e].wants : TRUE IN
    /\ editing[e].op = "book" /\ s \in catalog
    /\ booked[b].status = "absent"
    /\ booked' = [booked EXCEPT ![b] = [service |-> s, status |-> "active"]]
    /\ beside' = IF offer[s] = 0 \/ \E f \in Editors : editing[f] # NotEditing /\ s \in Removes(f)
                 THEN beside \cup {b} ELSE beside
    /\ EditEnds(e)
    /\ UNCHANGED <<catalog, offer, offers>>

\* A catalog row that is offered by now is kept by the foreign key (RESTRICT); bookings
\* lose theirs (SET NULL).
DropService(e) ==
    /\ editing[e].op = "drop" /\ editing[e].wants \cap Offered = {}
    /\ catalog' = catalog \ editing[e].wants
    /\ booked' = [b \in Booked |-> IF booked[b].service \in editing[e].wants
                                   THEN [booked[b] EXCEPT !.service = NoService] ELSE booked[b]]
    /\ EditEnds(e)
    /\ UNCHANGED <<offer, offers, beside>>

\* create_global
AddToCatalog(s) ==
    /\ s \notin catalog
    /\ catalog' = catalog \cup {s}
    /\ UNCHANGED <<offer, offers, booked, editing, beside>>

\* A booking is cancelled, rejected, completed or missed; a request that read it before
\* may write it active again.
CloseBooking(b) ==
    /\ booked[b].status = "active"
    /\ booked' = [booked EXCEPT ![b].status = "closed"]
    /\ UNCHANGED <<catalog, offer, offers, editing, beside>>

ReviveBooking(b) ==
    /\ booked[b].status = "closed"
    /\ booked' = [booked EXCEPT ![b].status = "active"]
    /\ beside' = beside \cup {b}
    /\ UNCHANGED <<catalog, offer, offers, editing>>

\* A refusal, a row to be updated that is gone, or a stop of the process
StopEditing(e) ==
    /\ editing[e] # NotEditing /\ EditEnds(e)
    /\ UNCHANGED <<catalog, offer, offers, booked, beside>>

OfferNext ==
    \/ \E e \in Editors :
         \/ \E wants \in SUBSET Services : ReadReplace(e, wants)
         \/ \E s \in Services : ReadCreate(e, s) \/ ReadDelete(e, s) \/ ReadBook(e, s) \/ ReadDrop(e, s)
         \/ \E b \in Booked : SaveBooked(e, b)
         \/ SaveOffers(e) \/ DropService(e) \/ StopEditing(e)
    \/ \E s \in Services : AddToCatalog(s)
    \/ \E b \in Booked : CloseBooking(b) \/ ReviveBooking(b)

OfferSpec == OfferInit /\ [][OfferNext]_offerVars

-----------------------------------------------------------------------------
\* "You have booking for this service": an advisor still offers what is booked with them,
\* for all the lists that are replaced, offerings deleted and catalog rows dropped beside
\* one another, unless the booking was being written while its service was withdrawn.
BookedIsOffered ==
    \A b \in Booked \ beside :
       booked[b].status = "active" => booked[b].service \in Offered

=============================================================================
