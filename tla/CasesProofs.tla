---------------------------- MODULE CasesProofs -----------------------------
(* What holds of the components that MCCases puts together, each for every    *)
(* set of its rows and requests: the connections of an advisor, the offers,   *)
(* the desk, the journey of a seeker, the open windows with their counters    *)
(* and badges, the screens on which the bookings are read, what people are    *)
(* told of what was done, and what an assessment finds: its result, and the   *)
(* advisors it matches.                                                       *)
EXTENDS MCCases, FinanceBooksProofs

-----------------------------------------------------------------------------
(* What an advisor has linked                                                 *)

\* The flags are kept honest by what every write of them reads, so that no more than the
\* types is needed of the copies: one that is stale is known as crossed when it is written.
ConnectionInv ==
    /\ ConnectionTypeOK
    /\ DOMAIN linking = Linkers
    /\ GateHonest

LEMMA ConnectionInitInv == ConnectionInit => ConnectionInv
<1> SUFFICES ASSUME ConnectionInit PROVE ConnectionInv
  OBVIOUS
<1>1. connection \in Connection /\ profile \in Profile
  BY LinkAssumption DEF ConnectionInit, Connection, Profile
<1>2. DOMAIN linking = Linkers /\ \A c \in Linkers : linking[c] = NotLinking
  BY DEF ConnectionInit
<1>3. GateHonest /\ crossed \in BOOLEAN
  BY DEF ConnectionInit, GateHonest
<1> QED BY <1>1, <1>2, <1>3 DEF ConnectionInv, ConnectionTypeOK

\* What leaves the connection and the profile as they are
LEMMA LinkersInv ==
    ASSUME ConnectionInv, UNCHANGED <<connection, profile, crossed>>, DOMAIN linking' = Linkers,
           \A c \in Linkers : linking'[c] = NotLinking \/ linking'[c] \in Linking
    PROVE  ConnectionInv'
BY DEF ConnectionInv, ConnectionTypeOK, GateHonest

\* The row of a connection and the flag are written together.
LEMMA ZoomInv ==
    ASSUME ConnectionInv, NEW c \in Linkers, linking' = [linking EXCEPT ![c] = NotLinking],
           UNCHANGED crossed, connection' \in Connection,
           NEW needs \in BOOLEAN, profile' = [profile EXCEPT !.needsZoom = needs],
           ~needs => connection'.status = "connected"
    PROVE  ConnectionInv'
<1>1. /\ profile \in Profile /\ profile' \in Profile /\ profile'.needsZoom = needs
      /\ profile'.account = profile.account /\ profile'.charges = profile.charges
      /\ profile'.payouts = profile.payouts /\ profile'.needsStripe = profile.needsStripe
  BY DEF ConnectionInv, ConnectionTypeOK, Profile
<1>2. DOMAIN linking' = Linkers /\ \A e \in Linkers : linking'[e] = NotLinking \/ linking'[e] \in Linking
  BY DEF ConnectionInv, ConnectionTypeOK
<1>3. GateHonest'
  BY <1>1 DEF ConnectionInv, GateHonest
<1> QED BY <1>1, <1>2, <1>3 DEF ConnectionInv, ConnectionTypeOK

\* What Stripe says is written over the copy; the Zoom flag is left alone.
LEMMA StripeInv ==
    ASSUME ConnectionInv, NEW c \in Linkers, NEW op \in LinkOps, NEW new \in Profile,
           EndStripe(c, op, new), new.needsZoom = linking[c].copy.needsZoom,
           \/ /\ op = "connect"
              /\ new = [linking[c].copy EXCEPT !.account = new.account]
              /\ new.account \in Accounts
           \/ new.needsStripe = NeedsStripe(new)
    PROVE  ConnectionInv'
<1>1. /\ linking[c].op = op /\ profile' = Flush(profile, linking[c].copy, new)
      /\ crossed' = (crossed \/ [linking[c].copy EXCEPT !.needsZoom = profile.needsZoom] # profile)
      /\ linking' = [linking EXCEPT ![c] = NotLinking] /\ UNCHANGED connection
  BY DEF EndStripe
<1>2. linking[c] \in Linking
  BY <1>1 DEF ConnectionInv, ConnectionTypeOK, NotLinking, LinkOps
<1>3. PICK copy \in Profile : copy = linking[c].copy
  BY <1>2 DEF Linking
<1>4. profile \in Profile /\ profile' \in Profile /\ profile'.needsZoom = profile.needsZoom
  BY <1>1, <1>3 DEF ConnectionInv, ConnectionTypeOK, Flush, Profile
<1>5. DOMAIN linking' = Linkers /\ \A e \in Linkers : linking'[e] = NotLinking \/ linking'[e] \in Linking
  BY <1>1 DEF ConnectionInv, ConnectionTypeOK
<1>6. crossed' \in BOOLEAN
  BY <1>1 DEF ConnectionInv, ConnectionTypeOK
<1>7. GateHonest'
  <2>1. CASE crossed'
    BY <1>1, <1>4, <2>1 DEF ConnectionInv, GateHonest
  <2>2. CASE ~crossed'
    <3>1. ~crossed /\ [copy EXCEPT !.needsZoom = profile.needsZoom] = profile
      BY <1>1, <1>3, <2>2
    <3>2. /\ copy.account = profile.account /\ copy.charges = profile.charges
          /\ copy.payouts = profile.payouts /\ copy.needsStripe = profile.needsStripe
      BY <1>3, <3>1 DEF Profile
    <3>3. /\ profile'.account = new.account /\ profile'.charges = new.charges
          /\ profile'.payouts = new.payouts /\ profile'.needsStripe = new.needsStripe
      BY <1>1, <1>3, <1>4, <3>2 DEF Flush, Profile
    <3>4. CASE new.needsStripe = NeedsStripe(new)
      BY <1>1, <1>4, <3>3, <3>4 DEF ConnectionInv, GateHonest, NeedsStripe
    <3>5. CASE new = [copy EXCEPT !.account = new.account] /\ new.account \in Accounts
      <4>1. /\ new.needsStripe = profile.needsStripe /\ new.charges = profile.charges
            /\ new.payouts = profile.payouts
        BY <1>3, <3>2, <3>5 DEF Profile
      <4> QED BY <1>1, <1>4, <3>1, <3>3, <3>5, <4>1, AccountAssumption DEF ConnectionInv, GateHonest
    <3> QED BY <1>3, <3>4, <3>5
  <2> QED BY <2>1, <2>2
<1> QED BY <1>1, <1>4, <1>5, <1>6, <1>7 DEF ConnectionInv, ConnectionTypeOK

\* No step of the links breaks the inductive invariant.
LEMMA ConnectionNextInv == ConnectionInv /\ [ConnectionNext]_connectionVars => ConnectionInv'
<1> SUFFICES ASSUME ConnectionInv, [ConnectionNext]_connectionVars PROVE ConnectionInv'
  OBVIOUS
<1>1. connection \in Connection /\ profile \in Profile /\ DOMAIN linking = Linkers
  BY DEF ConnectionInv, ConnectionTypeOK
<1>2. CASE UNCHANGED connectionVars
  BY <1>2 DEF connectionVars, ConnectionInv, ConnectionTypeOK, GateHonest
<1>3. ASSUME NEW c \in Linkers, (\E op \in LinkOps : StartLinking(c, op)) \/ StopLinking(c)
      PROVE  ConnectionInv'
  <2>1. ASSUME NEW op \in LinkOps PROVE [op |-> op, link |-> connection, copy |-> profile] \in Linking
    BY <1>1 DEF Linking
  <2>2. /\ UNCHANGED <<connection, profile, crossed>> /\ DOMAIN linking' = Linkers
        /\ \A e \in Linkers \ {c} : linking'[e] = linking[e]
        /\ linking'[c] = NotLinking \/ linking'[c] \in Linking
    BY <1>1, <1>3, <2>1 DEF StartLinking, StopLinking
  <2> QED BY <2>2, LinkersInv DEF ConnectionInv, ConnectionTypeOK
<1>4. ASSUME NEW c \in Linkers, NEW link \in Connection, EndZoom(c, link) PROVE ConnectionInv'
  <2> DEFINE needs == NeedsZoom(link)
  <2>1. needs \in BOOLEAN /\ (~needs => link.status = "connected")
    BY DEF NeedsZoom
  <2>2. /\ profile' = [profile EXCEPT !.needsZoom = needs] /\ connection' = link
        /\ linking' = [linking EXCEPT ![c] = NotLinking] /\ UNCHANGED crossed
    BY <1>4 DEF EndZoom
  <2> HIDE DEF needs
  <2> QED BY <2>1, <2>2, ZoomInv
<1>5. ASSUME NEW c \in Linkers, Callback(c) PROVE ConnectionInv'
  <2>1. linking[c].link \in Connection
    BY <1>5 DEF Callback, ConnectionInv, ConnectionTypeOK, NotLinking, Linking
  <2>2. Saved(c) \in Connection
    BY <1>1, <2>1 DEF Saved, Flush, Connection
  <2>3. connection.id < MaxLinks => Inserted \in Connection
    BY <1>1, LinkAssumption DEF Inserted, Connection
  <2> QED BY <1>4, <1>5, <2>2, <2>3 DEF Callback
<1>6. ASSUME NEW c \in Linkers, MarkRevoked(c) PROVE ConnectionInv'
  <2>1. [connection EXCEPT !.status = "revoked"] \in Connection
    BY <1>1 DEF Connection
  <2> QED BY <1>4, <1>6, <2>1 DEF MarkRevoked
<1>7. ASSUME NEW c \in Linkers, TokenRefreshed(c) PROVE ConnectionInv'
  <2>1. connection' \in Connection /\ connection'.status = connection.status
    BY <1>1, <1>7 DEF TokenRefreshed, Connection
  <2>2. profile.needsZoom \in BOOLEAN /\ profile' = [profile EXCEPT !.needsZoom = profile.needsZoom]
    BY <1>1, <1>7 DEF TokenRefreshed, Profile
  <2>3. ~profile.needsZoom => connection'.status = "connected"
    BY <2>1 DEF ConnectionInv, GateHonest
  <2>4. linking' = [linking EXCEPT ![c] = NotLinking] /\ UNCHANGED crossed
    BY <1>7 DEF TokenRefreshed
  <2> QED BY <2>1, <2>2, <2>3, <2>4, ZoomInv
<1>8. ASSUME NEW c \in Linkers, Disconnect(c) PROVE ConnectionInv'
  <2>1. connection' \in Connection
    BY <1>1, <1>8 DEF Disconnect, Connection
  <2> QED BY <1>8, <2>1, ZoomInv DEF Disconnect
<1>9. CASE TokenLapses
  <2>1. connection' \in Connection /\ connection'.status = connection.status
    BY <1>1, <1>9 DEF TokenLapses, Connection
  <2> QED BY <1>9, <2>1 DEF TokenLapses, ConnectionInv, ConnectionTypeOK, GateHonest
<1>10. ASSUME NEW c \in Linkers, linking[c] # NotLinking PROVE linking[c].copy \in Profile
  BY <1>10 DEF ConnectionInv, ConnectionTypeOK, Linking
<1>11. ASSUME NEW c \in Linkers, NEW op \in LinkOps, linking[c].op = op PROVE linking[c] # NotLinking
  BY <1>11 DEF NotLinking, LinkOps
<1>12. ASSUME NEW c \in Linkers, NEW a \in Accounts, ConnectAccount(c, a) PROVE ConnectionInv'
  <2>1. linking[c].copy \in Profile
    BY <1>10, <1>11, <1>12 DEF ConnectAccount, EndStripe, LinkOps
  <2> DEFINE new == [linking[c].copy EXCEPT !.account = a]
  <2>2. new \in Profile /\ new.account = a /\ new.needsZoom = linking[c].copy.needsZoom
    BY <2>1 DEF Profile
  <2>3. EndStripe(c, "connect", new)
    BY <1>12 DEF ConnectAccount
  <2> QED BY <2>2, <2>3, StripeInv DEF LinkOps
<1>13. ASSUME NEW c \in Linkers, NEW op \in LinkOps, NEW said \in Profile, EndStripe(c, op, Synced(said)),
              said.needsZoom = linking[c].copy.needsZoom
       PROVE  ConnectionInv'
  <2>1. PICK flag \in BOOLEAN : flag = NeedsStripe(said)
    BY DEF NeedsStripe
  <2> DEFINE new == [said EXCEPT !.needsStripe = flag]
  <2>2. /\ new \in Profile /\ new.needsStripe = flag /\ new.account = said.account
        /\ new.charges = said.charges /\ new.payouts = said.payouts /\ new.needsZoom = said.needsZoom
    BY DEF Profile
  <2>3. new = Synced(said)
    BY <2>1 DEF Synced
  <2> HIDE DEF new
  <2>4. NeedsStripe(new) = NeedsStripe(said)
    BY <2>2 DEF NeedsStripe
  <2> QED BY <1>13, <2>1, <2>2, <2>3, <2>4, StripeInv
<1>14. ASSUME NEW c \in Linkers, NEW charges \in BOOLEAN, NEW payouts \in BOOLEAN,
              AccountSaid(c, charges, payouts)
       PROVE  ConnectionInv'
  <2> DEFINE said == [linking[c].copy EXCEPT !.charges = charges, !.payouts = payouts]
  <2>1. PICK op \in {"event", "status"} : EndStripe(c, op, Synced(said))
    BY <1>14 DEF AccountSaid
  <2>2. linking[c].copy \in Profile /\ op \in LinkOps
    BY <1>10, <1>11, <2>1 DEF EndStripe, LinkOps
  <2>3. said \in Profile /\ said.needsZoom = linking[c].copy.needsZoom
    BY <2>2 DEF Profile
  <2> HIDE DEF said
  <2> QED BY <1>13, <2>1, <2>2, <2>3
<1>15. ASSUME NEW c \in Linkers, ClearAccount(c) PROVE ConnectionInv'
  <2> DEFINE said == [linking[c].copy EXCEPT !.account = NoAccount, !.charges = FALSE, !.payouts = FALSE]
  <2>1. EndStripe(c, "clear", Synced(said))
    BY <1>15 DEF ClearAccount
  <2>2. linking[c].copy \in Profile /\ "clear" \in LinkOps
    BY <1>10, <1>11, <2>1 DEF EndStripe, LinkOps
  <2>3. said \in Profile /\ said.needsZoom = linking[c].copy.needsZoom
    BY <2>2 DEF Profile
  <2> HIDE DEF said
  <2> QED BY <1>13, <2>1, <2>2, <2>3
<1> QED BY <1>2, <1>3, <1>5, <1>6, <1>7, <1>8, <1>9, <1>12, <1>14, <1>15 DEF ConnectionNext

\* The gate of the checkout opens only for an advisor who has what it asks for.
LEMMA GateIsHonest == ConnectionSpec => []GateHonest
<1>1. ConnectionInv => GateHonest
  BY DEF ConnectionInv
<1> QED BY ConnectionInitInv, ConnectionNextInv, <1>1, PTL DEF ConnectionSpec

-----------------------------------------------------------------------------
(* What an advisor offers                                                     *)

\* A list that is being saved takes away nothing that is booked, for it was read after the
\* booking was there, or the booking knows that it was written beside it.
OfferInv ==
    /\ OfferTypeOK /\ offers \in Nat /\ DOMAIN editing = Editors
    /\ BookedIsOffered
    /\ \A b \in Booked \ beside, e \in Editors :
          booked[b].status = "active" /\ editing[e] # NotEditing => booked[b].service \notin Removes(e)

LEMMA OfferInitInv == OfferInit => OfferInv
<1> SUFFICES ASSUME OfferInit PROVE OfferInv
  OBVIOUS
<1>1. offer \in [Services -> 0 .. offers] /\ offers = 0 /\ offers <= MaxOffers
      /\ \A s \in Services : offer[s] = 0
  BY OfferAssumption DEF OfferInit
<1>2. booked \in [Booked -> BookedRow] /\ \A b \in Booked : booked[b].status = "absent"
  BY DEF OfferInit, BookedRow
<1>3. /\ DOMAIN editing = Editors /\ \A e \in Editors : editing[e] = NotEditing
      /\ catalog = {} /\ beside = {}
  BY DEF OfferInit
<1>4. OfferTypeOK
  BY <1>1, <1>2, <1>3 DEF OfferTypeOK
<1> QED BY <1>1, <1>2, <1>3, <1>4 DEF OfferInv, BookedIsOffered

\* What a request takes away is known from what it has read.
LEMMA RemovesFixed ==
    ASSUME NEW e \in Editors, editing'[e] = editing[e]
    PROVE  Removes(e)' = Removes(e)
BY DEF Removes

\* A request that starts with a list that leaves nothing out that is booked
LEMMA StartInv ==
    ASSUME OfferInv, NEW e \in Editors, NEW op \in EditOps, NEW wants \in SUBSET Services,
           Start(e, op, wants), op \in Lists => (Offered \ wants) \cap ActiveBooked = {}
    PROVE  OfferInv'
<1>1. offer \in [Services -> 0 .. MaxOffers]
  BY OfferAssumption DEF OfferInv, OfferTypeOK
<1> DEFINE edit == [op |-> op, rows |-> offer, wants |-> wants]
<1>2. edit \in Editing /\ edit.op = op /\ edit.rows = offer /\ edit.wants = wants
  BY <1>1 DEF Editing
<1> HIDE DEF edit
<1>3. /\ DOMAIN editing' = Editors /\ editing'[e] = edit
      /\ \A f \in Editors \ {e} : editing'[f] = editing[f]
      /\ UNCHANGED <<catalog, offer, offers, booked, beside>>
  BY DEF Start, OfferInv, edit
<1>4. Removes(e)' \subseteq IF op \in Lists THEN Offered \ wants ELSE {}
  BY <1>2, <1>3 DEF Removes, Offered, Lists
<1>5. \A b \in Booked : booked[b].status = "active" => booked[b].service \notin Removes(e)'
  BY <1>4 DEF ActiveBooked
<1>6. \A f \in Editors \ {e} : Removes(f)' = Removes(f)
  BY <1>3, RemovesFixed
<1>7. OfferTypeOK'
  BY <1>2, <1>3 DEF OfferInv, OfferTypeOK
<1> QED BY <1>3, <1>5, <1>6, <1>7 DEF OfferInv, BookedIsOffered, Offered

\* A request that ends, and what it leaves to the others
LEMMA EndedInv ==
    ASSUME OfferInv, NEW e \in Editors, EditEnds(e)
    PROVE  /\ DOMAIN editing' = Editors
           /\ \A f \in Editors : editing'[f] = NotEditing \/ editing'[f] \in Editing
           /\ \A f \in Editors : editing'[f] # NotEditing => editing[f] # NotEditing /\ Removes(f)' = Removes(f)
<1>1. DOMAIN editing' = Editors /\ editing'[e] = NotEditing
      /\ \A f \in Editors \ {e} : editing'[f] = editing[f]
  BY DEF EditEnds, OfferInv
<1>2. \A f \in Editors \ {e} : Removes(f)' = Removes(f)
  BY <1>1, RemovesFixed
<1> QED BY <1>1, <1>2 DEF OfferInv, OfferTypeOK

\* A new list takes nothing away that is booked.
LEMMA SaveOffersInv ==
    ASSUME OfferInv, NEW e \in Editors, SaveOffers(e)
    PROVE  OfferInv'
<1> DEFINE gone == {s \in Removes(e) : offer[s] = editing[e].rows[s]}
<1>1. /\ editing[e].op \in Lists /\ Adds(e) \subseteq catalog
      /\ Adds(e) # {} => offers < MaxOffers
      /\ offer' = [s \in Services |-> IF s \in Adds(e) THEN offers + 1
                                      ELSE IF s \in gone THEN 0 ELSE offer[s]]
      /\ offers' = IF Adds(e) = {} THEN offers ELSE offers + 1
      /\ EditEnds(e) /\ UNCHANGED <<catalog, booked, beside>>
  BY DEF SaveOffers
<1>2. editing[e] # NotEditing
  BY <1>1 DEF Lists, NotEditing
<1>3. gone \subseteq Removes(e)
  OBVIOUS
<1> HIDE DEF gone
<1>4. offers \in Nat /\ offers' \in Nat /\ offers <= offers' /\ offers' <= MaxOffers
      /\ (Adds(e) # {} => offers' = offers + 1)
  BY <1>1, OfferAssumption DEF OfferInv, OfferTypeOK
<1>5. \A s \in Services : offer[s] \in 0 .. offers
  BY DEF OfferInv, OfferTypeOK
<1>6. \A s \in Services : offer'[s] = IF s \in Adds(e) THEN offers + 1
                                      ELSE IF s \in gone THEN 0 ELSE offer[s]
  BY <1>1
<1>7. \A s \in Services : offer'[s] \in 0 .. offers'
  BY <1>4, <1>5, <1>6
<1>8. offer' \in [Services -> 0 .. offers']
  BY <1>1, <1>7
<1>9. \A s \in Services : offer'[s] > 0 => s \in catalog
  BY <1>1, <1>4, <1>5, <1>6 DEF OfferInv, OfferTypeOK
<1>10. OfferTypeOK'
  BY <1>1, <1>4, <1>8, <1>9, EndedInv DEF OfferInv, OfferTypeOK
<1>11. \A s \in Offered : s \notin Removes(e) => s \in Offered'
  BY <1>3, <1>4, <1>5, <1>6 DEF Offered
<1>12. BookedIsOffered'
  BY <1>1, <1>2, <1>11 DEF OfferInv, BookedIsOffered
<1> QED BY <1>1, <1>4, <1>10, <1>12, EndedInv DEF OfferInv

\* A booking is written in time, or beside a withdrawal.
LEMMA SaveBookedInv ==
    ASSUME OfferInv, NEW e \in Editors, NEW b \in Booked, SaveBooked(e, b)
    PROVE  OfferInv'
<1> DEFINE s == CHOOSE w \in editing[e].wants : TRUE
<1>1. /\ s \in catalog /\ EditEnds(e) /\ UNCHANGED <<catalog, offer, offers>>
      /\ booked' = [booked EXCEPT ![b] = [service |-> s, status |-> "active"]]
      /\ beside' = IF offer[s] = 0 \/ \E f \in Editors : editing[f] # NotEditing /\ s \in Removes(f)
                   THEN beside \cup {b} ELSE beside
  BY DEF SaveBooked
<1> HIDE DEF s
<1>2. s \in Services /\ offer[s] \in 0 .. offers
  BY <1>1 DEF OfferInv, OfferTypeOK
<1>3. booked' \in [Booked -> BookedRow] /\ booked'[b].service = s
      /\ \A c \in Booked \ {b} : booked'[c] = booked[c]
  BY <1>1, <1>2 DEF OfferInv, OfferTypeOK, BookedRow
<1>4. beside \subseteq beside' /\ beside' \subseteq Booked
  BY <1>1 DEF OfferInv, OfferTypeOK
<1>5. b \notin beside' => offer[s] # 0 /\ \A f \in Editors : editing[f] # NotEditing => s \notin Removes(f)
  BY <1>1
<1>6. OfferTypeOK'
  BY <1>1, <1>3, <1>4, EndedInv DEF OfferInv, OfferTypeOK
<1>7. BookedIsOffered'
  BY <1>1, <1>2, <1>3, <1>4, <1>5 DEF OfferInv, BookedIsOffered, Offered
<1>8. \A c \in Booked \ beside', f \in Editors :
         booked'[c].status = "active" /\ editing'[f] # NotEditing => booked'[c].service \notin Removes(f)'
  BY <1>1, <1>3, <1>4, <1>5, EndedInv DEF OfferInv
<1> QED BY <1>1, <1>6, <1>7, <1>8, EndedInv DEF OfferInv

\* What leaves the catalog is not booked, unless beside a withdrawal.
LEMMA DropServiceInv ==
    ASSUME OfferInv, NEW e \in Editors, DropService(e)
    PROVE  OfferInv'
<1>1. /\ editing[e].wants \cap Offered = {} /\ catalog' = catalog \ editing[e].wants
      /\ booked' = [b \in Booked |-> IF booked[b].service \in editing[e].wants
                                     THEN [booked[b] EXCEPT !.service = NoService] ELSE booked[b]]
      /\ EditEnds(e) /\ UNCHANGED <<offer, offers, beside>>
  BY DEF DropService
<1>2. ASSUME NEW b \in Booked PROVE /\ booked'[b] \in BookedRow
                                    /\ booked'[b].status = booked[b].status
                                    /\ (booked[b].service \in Offered => booked'[b] = booked[b])
  <2>1. booked[b] \in BookedRow
    BY DEF OfferInv, OfferTypeOK
  <2> QED BY <1>1, <2>1 DEF BookedRow
<1>3. booked' \in [Booked -> BookedRow]
  BY <1>1, <1>2
<1>4. OfferTypeOK'
  BY <1>1, <1>3, EndedInv DEF OfferInv, OfferTypeOK, Offered
<1>5. \A b \in Booked \ beside : booked'[b].status = "active" => booked'[b] = booked[b]
  BY <1>2 DEF OfferInv, BookedIsOffered
<1>6. BookedIsOffered'
  BY <1>1, <1>5 DEF OfferInv, BookedIsOffered, Offered
<1>7. \A b \in Booked \ beside', f \in Editors :
         booked'[b].status = "active" /\ editing'[f] # NotEditing => booked'[b].service \notin Removes(f)'
  <2> SUFFICES ASSUME NEW b \in Booked \ beside', NEW f \in Editors,
                      booked'[b].status = "active", editing'[f] # NotEditing
               PROVE  booked'[b].service \notin Removes(f)'
    OBVIOUS
  <2>1. editing[f] # NotEditing /\ Removes(f)' = Removes(f)
    BY <1>1, EndedInv
  <2>2. b \in Booked \ beside /\ booked'[b] = booked[b] /\ booked[b].status = "active"
    BY <1>1, <1>5
  <2>3. booked[b].service \notin Removes(f)
    BY <2>1, <2>2 DEF OfferInv
  <2> QED BY <2>1, <2>2, <2>3
<1> QED BY <1>1, <1>4, <1>6, <1>7, EndedInv DEF OfferInv

\* A booking that is closed, or made active again
LEMMA RebookedInv ==
    ASSUME OfferInv, NEW b \in Booked, CloseBooking(b) \/ ReviveBooking(b)
    PROVE  OfferInv'
<1>1. PICK status \in {"active", "closed"} :
         /\ booked' = [booked EXCEPT ![b].status = status]
         /\ beside \subseteq beside' /\ beside' \subseteq beside \cup {b}
         /\ status = "active" => b \in beside'
  BY DEF CloseBooking, ReviveBooking
<1>2. UNCHANGED <<catalog, offer, offers, editing>>
  BY DEF CloseBooking, ReviveBooking
<1>3. booked[b] \in BookedRow /\ booked \in [Booked -> BookedRow]
  BY DEF OfferInv, OfferTypeOK
<1>4. booked' \in [Booked -> BookedRow] /\ booked'[b].status = status
      /\ \A c \in Booked \ {b} : booked'[c] = booked[c]
  BY <1>1, <1>3 DEF BookedRow
<1>5. \A e \in Editors : Removes(e)' = Removes(e)
  BY <1>2, RemovesFixed
<1>6. OfferTypeOK'
  BY <1>1, <1>2, <1>4 DEF OfferInv, OfferTypeOK
<1>7. \A c \in Booked \ beside' : booked'[c].status = "active" => booked'[c] = booked[c]
  BY <1>1, <1>4
<1>8. BookedIsOffered'
  BY <1>1, <1>2, <1>7 DEF OfferInv, BookedIsOffered, Offered
<1>9. \A c \in Booked \ beside', e \in Editors :
         booked'[c].status = "active" /\ editing'[e] # NotEditing => booked'[c].service \notin Removes(e)'
  BY <1>1, <1>2, <1>5, <1>7 DEF OfferInv
<1> QED BY <1>2, <1>6, <1>8, <1>9 DEF OfferInv

\* No step of the offers breaks the inductive invariant.
LEMMA OfferNextInv == OfferInv /\ [OfferNext]_offerVars => OfferInv'
<1> SUFFICES ASSUME OfferInv, [OfferNext]_offerVars PROVE OfferInv'
  OBVIOUS
<1>1. ASSUME UNCHANGED <<offer, offers, booked, editing, beside>>, catalog \subseteq catalog',
             catalog' \subseteq Services
      PROVE  OfferInv'
  <2>1. \A e \in Editors : Removes(e)' = Removes(e)
    BY <1>1, RemovesFixed
  <2>2. OfferTypeOK' /\ BookedIsOffered'
    BY <1>1 DEF OfferInv, OfferTypeOK, BookedIsOffered, Offered
  <2> QED BY <1>1, <2>1, <2>2 DEF OfferInv
<1>2. CASE UNCHANGED offerVars
  BY <1>1, <1>2 DEF offerVars, OfferInv, OfferTypeOK
<1>3. ASSUME NEW s \in Services, AddToCatalog(s) PROVE OfferInv'
  BY <1>1, <1>3 DEF AddToCatalog, OfferInv, OfferTypeOK
<1>4. ASSUME NEW e \in Editors, NEW wants \in SUBSET Services, ReadReplace(e, wants) PROVE OfferInv'
  BY <1>4, StartInv DEF ReadReplace, EditOps
<1>5. ASSUME NEW e \in Editors, NEW s \in Services,
             ReadCreate(e, s) \/ ReadDelete(e, s) \/ ReadBook(e, s) \/ ReadDrop(e, s)
      PROVE  OfferInv'
  <2>1. Offered \subseteq Services /\ (Offered \ (Offered \cup {s})) \cap ActiveBooked = {}
    BY DEF Offered
  <2>2. CASE ReadCreate(e, s)
    BY <2>1, <2>2, StartInv DEF ReadCreate, EditOps
  <2>3. CASE ReadDelete(e, s)
    <3>1. (Offered \ (Offered \ {s})) \cap ActiveBooked = {}
      BY <2>3 DEF ReadDelete
    <3> QED BY <2>1, <2>3, <3>1, StartInv DEF ReadDelete, EditOps
  <2>4. CASE ReadBook(e, s)
    BY <2>4, StartInv DEF ReadBook, EditOps, Lists
  <2>5. CASE ReadDrop(e, s)
    BY <2>5, StartInv DEF ReadDrop, EditOps, Lists
  <2> QED BY <1>5, <2>2, <2>3, <2>4, <2>5
<1>6. ASSUME NEW e \in Editors, StopEditing(e) PROVE OfferInv'
  <2>1. EditEnds(e) /\ UNCHANGED <<catalog, offer, offers, booked, beside>>
    BY <1>6 DEF StopEditing
  <2>2. OfferTypeOK' /\ BookedIsOffered'
    BY <2>1, EndedInv DEF OfferInv, OfferTypeOK, BookedIsOffered, Offered
  <2> QED BY <2>1, <2>2, EndedInv DEF OfferInv
<1> QED BY <1>2, <1>3, <1>4, <1>5, <1>6, SaveOffersInv, SaveBookedInv, DropServiceInv, RebookedInv DEF OfferNext

\* For every set of links, accounts, services, bookings and requests: the flags of a profile
\* (sync_stripe_connect_flag, upsert_from_oauth) promise no more than its connection and
\* its account hold, and an active booking is of a service that its advisor still offers
\* (_active_booked_service_ids), each except where two requests wrote beside one another.
THEOREM OffersAreHonest == ConnectionSpec /\ OfferSpec => []OffersHonest
<1>1. OfferInv => BookedIsOffered
  BY DEF OfferInv
<1>2. OfferSpec => []BookedIsOffered
  BY OfferInitInv, OfferNextInv, <1>1, PTL DEF OfferSpec
<1>3. GateHonest /\ BookedIsOffered => OffersHonest
  BY DEF OffersHonest
<1> QED BY GateIsHonest, <1>2, <1>3, PTL

-----------------------------------------------------------------------------
(* The booking on its parties' screens                                        *)

\* A set of numbers that is bounded and not empty has a greatest one.
LEMMA Greatest ==
    ASSUME NEW n \in Nat, NEW T \in SUBSET (0 .. n), T # {}
    PROVE  Max(T) \in T /\ \A y \in T : Max(T) >= y
<1> DEFINE less == OpToRel(<, Nat)
           gaps == {k \in Nat : \E y \in T : k = n - y}
<1>1. IsWellFoundedOn(less, Nat) /\ gaps \subseteq Nat /\ gaps # {}
  <2>1. PICK y \in T : TRUE
    OBVIOUS
  <2>2. n - y \in gaps
    OBVIOUS
  <2> QED BY <2>2, NatLessThanWellFounded
<1> HIDE DEF less
<1>2. PICK k \in gaps : \A j \in gaps : <<j, k>> \notin less
  BY <1>1, WFMin
<1>3. PICK x \in T : k = n - x
  OBVIOUS
<1>4. ASSUME NEW y \in T PROVE x >= y
  <2>1. n - y \in gaps
    OBVIOUS
  <2>2. <<n - y, k>> \notin less
    BY <1>2, <2>1
  <2>3. n - y >= k
    BY <2>1, <2>2 DEF less, OpToRel
  <2> QED BY <1>3, <2>3
<1> QED BY <1>4 DEF Max

\* The times that other_party_activity_at_by_booking looks at besides the row's own
Arrived(v) == IF v = "seeker" THEN notes \cup {r.created : r \in requests}
              ELSE {r.fulfilled : r \in requests}

\* Who has news has been sent something later than what they last opened.
DeskInv ==
    /\ DeskTypeOK /\ DOMAIN visiting = Visitors
    /\ booking.seekerRead <= moment /\ booking.advisorRead <= moment
    /\ \A c \in Visitors : visiting[c].op = "fulfill" =>
          \E r \in requests : r.created = visiting[c].request
    /\ \A v \in news : \E t \in Arrived(v) : t > ReadAt(booking, v)

LEMMA StampType == Stamp \subseteq Nat /\ (\A n \in Stamp : n <= MaxMoments) /\ MaxMoments \in Nat
BY DeskAssumption DEF Stamp

LEMMA DeskInitInv == DeskInit => DeskInv
<1> SUFFICES ASSUME DeskInit PROVE DeskInv
  OBVIOUS
<1>1. MaxHour - 1 \in 1 .. MaxHour /\ 0 \in Stamp /\ 1 \in Stamp /\ 0 \in 0 .. MaxHour
  BY DeskAssumption DEF Stamp
<1>2. booking \in BookingRow /\ booking.seekerRead = 0 /\ booking.advisorRead = 0
  BY <1>1 DEF DeskInit, BookingRow
<1>3. DOMAIN visiting = Visitors /\ \A c \in Visitors : visiting[c] = NoVisit
  BY DEF DeskInit
<1>4. \A c \in Visitors : visiting[c].op # "fulfill"
  BY <1>3 DEF NoVisit
<1>5. DeskTypeOK
  BY <1>1, <1>2, <1>3 DEF DeskInit, DeskTypeOK
<1> QED BY <1>2, <1>3, <1>4, <1>5 DEF DeskInit, DeskInv

\* What is in the news is shown as unread.
LEMMA NewsAreFlagged == DeskInv => NewsFlagged
<1> SUFFICES ASSUME DeskInv, NEW v \in news PROVE IsUnread(v)
  BY DEF NewsFlagged
<1> DEFINE times == (IF booking.by # v THEN {booking.at} ELSE {})
                    \cup (IF v = "seeker" THEN notes \cup {r.created : r \in requests}
                          ELSE {r.fulfilled : r \in {q \in requests : q.fulfilled > 0}})
<1>1. PICK t \in Arrived(v) : t > ReadAt(booking, v)
  BY DEF DeskInv
<1>2. ReadAt(booking, v) \in Nat /\ booking.at \in Stamp
  BY StampType DEF DeskInv, DeskTypeOK, BookingRow, ReadAt
<1>3. \A r \in requests : r.created \in Stamp /\ r.fulfilled \in Stamp
  BY DEF DeskInv, DeskTypeOK, DocumentRequest
<1>4. t \in Nat
  BY <1>3, StampType DEF Arrived, DeskInv, DeskTypeOK
<1>5. t > 0
  BY <1>1, <1>2, <1>4
<1>6. t \in times
  <2>1. CASE v = "seeker"
    BY <2>1 DEF Arrived
  <2>2. CASE v # "seeker"
    <3>1. PICK r \in requests : t = r.fulfilled
      BY <2>2 DEF Arrived
    <3> QED BY <1>5, <2>2, <3>1
  <2> QED BY <2>1, <2>2
<1>7. times \subseteq 0 .. MaxMoments
  <2>1. notes \subseteq Stamp
    BY DEF DeskInv, DeskTypeOK
  <2> QED BY <1>2, <1>3, <2>1 DEF Stamp
<1>8. Activity(v) = Latest(times)
  BY DEF Activity
<1> HIDE DEF times
<1>9. Max(times) >= t /\ Max(times) \in Nat
  <2>1. times \in SUBSET (0 .. MaxMoments) /\ times # {} /\ MaxMoments \in Nat
    BY <1>6, <1>7, StampType
  <2>2. Max(times) \in times /\ \A y \in times : Max(times) >= y
    BY <2>1, Greatest
  <2>3. Max(times) \in 0 .. MaxMoments /\ Max(times) >= t
    BY <1>6, <2>1, <2>2
  <2> QED BY <2>1, <2>3
<1>10. Latest(times) = Max(times)
  BY <1>6 DEF Latest
<1> QED BY <1>1, <1>2, <1>4, <1>8, <1>9, <1>10 DEF IsUnread

\* The buttons are computed from what the operations check.
LEMMA ButtonsWork == DeskTypeOK => CapabilitiesHonest
<1> SUFFICES ASSUME DeskTypeOK, NEW v \in Parties
             PROVE  /\ CanCancel(booking, v) => MayCancel(booking, v)
                    /\ CanReschedule(booking, v) =>
                          \A to \in hour + 1 .. MaxHour : MayReschedule(booking, v, to)
  BY DEF CapabilitiesHonest
<1>1. hour \in Nat /\ MaxHour \in Nat
  BY DeskAssumption DEF DeskTypeOK
<1>2. CanCancel(booking, v) \/ CanReschedule(booking, v) => IsActive(booking) /\ InNotice(booking, v)
  BY DEF CanCancel, CanReschedule, IsActive, InNotice, WithinNotice, Parties
<1>3. \A to \in hour + 1 .. MaxHour : to > hour
  BY <1>1
<1> QED BY <1>2, <1>3 DEF MayCancel, MayReschedule

\* What an operation makes of its copy, and what the UPDATE makes of the row
LEMMA EditedType ==
    ASSUME NEW s \in Visit, s.op \in RowOps, moment' \in Stamp
    PROVE  /\ Edited(s) \in BookingRow
           /\ ~(s.op = "read" /\ s.party = "seeker") => Edited(s).seekerRead = s.row.seekerRead
           /\ ~(s.op = "read" /\ s.party = "advisor") => Edited(s).advisorRead = s.row.advisorRead
           /\ Edited(s).seekerRead \in {s.row.seekerRead, moment'}
           /\ Edited(s).advisorRead \in {s.row.advisorRead, moment'}
<1>1. PICK b \in BookingRow : b = s.row
  BY DEF Visit
<1>2. s.party \in Parties /\ s.to \in 1 .. MaxHour
  BY DEF Visit
<1>3. PICK important \in BOOLEAN : important = ~b.important
  OBVIOUS
<1>4. PICK interpreter \in BOOLEAN : interpreter = ~b.interpreter
  OBVIOUS
<1>5. CASE s.op = "cancel"
  <2>1. Edited(s) = [b EXCEPT !.status = "cancelled", !.by = s.party]
    BY <1>1, <1>5 DEF Edited
  <2> QED BY <1>1, <1>2, <1>5, <2>1 DEF BookingRow
<1>6. CASE s.op = "reschedule"
  <2>1. Edited(s) = [b EXCEPT !.start = s.to, !.by = s.party]
    BY <1>1, <1>6 DEF Edited
  <2> QED BY <1>1, <1>2, <1>6, <2>1 DEF BookingRow
<1>7. CASE s.op = "accept"
  <2>1. Edited(s) = [b EXCEPT !.status = "confirmed", !.later = FALSE, !.by = s.party]
    BY <1>1, <1>7 DEF Edited
  <2> QED BY <1>1, <1>2, <1>7, <2>1 DEF BookingRow
<1>8. CASE s.op = "reject"
  <2>1. Edited(s) = [b EXCEPT !.status = "rejected", !.by = s.party]
    BY <1>1, <1>8 DEF Edited
  <2> QED BY <1>1, <1>2, <1>8, <2>1 DEF BookingRow
<1>9. CASE s.op = "later"
  <2>1. Edited(s) = [b EXCEPT !.later = TRUE, !.by = s.party]
    BY <1>1, <1>9 DEF Edited
  <2> QED BY <1>1, <1>2, <1>9, <2>1 DEF BookingRow
<1>10. CASE s.op = "complete"
  <2>1. Edited(s) = [b EXCEPT !.status = "completed", !.by = s.party]
    BY <1>1, <1>10 DEF Edited
  <2> QED BY <1>1, <1>2, <1>10, <2>1 DEF BookingRow
<1>11. CASE s.op = "no_show"
  <2>1. Edited(s) = [b EXCEPT !.status = "no_show", !.by = s.party]
    BY <1>1, <1>11 DEF Edited
  <2> QED BY <1>1, <1>2, <1>11, <2>1 DEF BookingRow
<1>12. CASE s.op = "important"
  <2>1. Edited(s) = [b EXCEPT !.important = ~b.important, !.by = s.party]
    BY <1>1, <1>12 DEF Edited
  <2>2. Edited(s) = [b EXCEPT !.important = important, !.by = s.party]
    BY <1>3, <2>1
  <2> QED BY <1>1, <1>2, <1>12, <2>2 DEF BookingRow
<1>13. CASE s.op = "interpreter"
  <2>1. Edited(s) = [b EXCEPT !.interpreter = ~b.interpreter, !.by = s.party]
    BY <1>1, <1>13 DEF Edited
  <2>2. Edited(s) = [b EXCEPT !.interpreter = interpreter, !.by = s.party]
    BY <1>4, <2>1
  <2> QED BY <1>1, <1>2, <1>13, <2>2 DEF BookingRow
<1>14. CASE s.op = "read"
  <2>1. CASE s.party = "seeker"
    BY <1>1, <1>14, <2>1 DEF Edited, BookingRow
  <2>2. CASE s.party = "advisor"
    BY <1>1, <1>14, <2>2 DEF Edited, BookingRow
  <2> QED BY <1>2, <2>1, <2>2 DEF Parties
<1> QED BY <1>5, <1>6, <1>7, <1>8, <1>9, <1>10, <1>11, <1>12, <1>13, <1>14 DEF RowOps, AdvisorOps

LEMMA FlushType ==
    ASSUME NEW b \in BookingRow, NEW seen \in BookingRow, NEW new \in BookingRow, NEW at \in Stamp
    PROVE  LET after == [Flush(b, seen, new) EXCEPT !.at = at] IN
           /\ after \in BookingRow
           /\ after.seekerRead = IF new.seekerRead = seen.seekerRead THEN b.seekerRead ELSE new.seekerRead
           /\ after.advisorRead = IF new.advisorRead = seen.advisorRead THEN b.advisorRead ELSE new.advisorRead
BY DEF Flush, BookingRow

\* A visit that ends
LEMMA EndedVisit ==
    ASSUME DeskInv, NEW c \in Visitors, EndVisit(c)
    PROVE  /\ DOMAIN visiting' = Visitors
           /\ \A d \in Visitors : visiting'[d] = NoVisit \/ visiting'[d] \in Visit
           /\ \A d \in Visitors : visiting'[d].op = "fulfill" => visiting'[d] = visiting[d]
<1>1. DOMAIN visiting' = Visitors /\ visiting'[c] = NoVisit
      /\ \A d \in Visitors \ {c} : visiting'[d] = visiting[d]
  BY DEF EndVisit, DeskInv
<1>2. visiting'[c].op # "fulfill"
  BY <1>1 DEF NoVisit
<1> QED BY <1>1, <1>2 DEF DeskInv, DeskTypeOK

LEMMA PassesType ==
    ASSUME DeskInv, Passes
    PROVE  moment \in Nat /\ moment' = moment + 1 /\ moment' \in Stamp
BY DeskAssumption DEF DeskInv, DeskTypeOK, Stamp, Passes

\* A request begins.
LEMMA VisitingInv ==
    ASSUME DeskInv, NEW c \in Visitors, NEW op \in RowOps \cup PostOps, NEW party \in Parties,
           NEW to \in 1 .. MaxHour, NEW request \in {0} \cup Stamp,
           Visiting(c, op, party, to, request),
           op = "fulfill" => \E r \in requests : r.created = request
    PROVE  DeskInv'
<1>1. moment \in Nat /\ moment' = moment + 1 /\ moment' \in Stamp
  BY PassesType DEF Visiting
<1>2. PICK now \in Stamp : now = moment'
  BY <1>1
<1> DEFINE visit == [op |-> op, party |-> party, began |-> now, row |-> booking, to |-> to,
                     request |-> request]
<1>3. visit \in Visit /\ visit.op = op /\ visit.request = request
  BY DEF DeskInv, DeskTypeOK, Visit
<1>4. visiting' = [visiting EXCEPT ![c] = visit] /\ UNCHANGED <<booking, notes, requests, hour, news>>
  BY <1>2 DEF Visiting
<1> HIDE DEF visit
<1>5. /\ DOMAIN visiting' = Visitors /\ visiting'[c] = visit
      /\ \A d \in Visitors \ {c} : visiting'[d] = visiting[d]
  BY <1>4 DEF DeskInv
<1>6. DeskTypeOK'
  BY <1>1, <1>3, <1>4, <1>5 DEF DeskInv, DeskTypeOK
<1>7. booking'.seekerRead <= moment' /\ booking'.advisorRead <= moment'
  <2>1. booking.seekerRead \in Nat /\ booking.advisorRead \in Nat
    BY StampType DEF DeskInv, DeskTypeOK, BookingRow
  <2> QED BY <1>1, <1>4, <2>1 DEF DeskInv
<1>8. \A d \in Visitors : visiting'[d].op = "fulfill" => \E r \in requests' : r.created = visiting'[d].request
  BY <1>3, <1>4, <1>5 DEF DeskInv
<1>9. \A v \in news' : \E t \in Arrived(v)' : t > ReadAt(booking, v)'
  BY <1>4 DEF DeskInv, Arrived, ReadAt
<1> QED BY <1>5, <1>6, <1>7, <1>8, <1>9 DEF DeskInv

\* The row of the booking is written; only the opening of a menu moves what was read.
LEMMA SaveBookingInv ==
    ASSUME DeskInv, NEW c \in Visitors, SaveBooking(c)
    PROVE  DeskInv'
<1>1. /\ visiting[c].op \in RowOps /\ Passes /\ EndVisit(c) /\ UNCHANGED <<notes, requests, hour>>
      /\ booking' = [Flush(booking, visiting[c].row, Edited(visiting[c])) EXCEPT !.at = visiting[c].began]
      /\ news' = IF visiting[c].op = "read" THEN news \ {visiting[c].party} ELSE news
  BY DEF SaveBooking
<1>2. visiting[c] \in Visit
  BY <1>1 DEF DeskInv, DeskTypeOK, NoVisit, RowOps, AdvisorOps
<1>3. moment \in Nat /\ moment' = moment + 1 /\ moment' \in Stamp
  BY <1>1, PassesType
<1>4. visiting[c].row \in BookingRow /\ visiting[c].began \in Stamp /\ visiting[c].party \in Parties
  BY <1>2 DEF Visit
<1>5. PICK new \in BookingRow : new = Edited(visiting[c])
  BY <1>1, <1>2, <1>3, EditedType
<1>6. /\ ~(visiting[c].op = "read" /\ visiting[c].party = "seeker") => new.seekerRead = visiting[c].row.seekerRead
      /\ ~(visiting[c].op = "read" /\ visiting[c].party = "advisor") => new.advisorRead = visiting[c].row.advisorRead
      /\ new.seekerRead \in {visiting[c].row.seekerRead, moment'}
      /\ new.advisorRead \in {visiting[c].row.advisorRead, moment'}
  BY <1>1, <1>2, <1>3, <1>5, EditedType
<1>7. booking \in BookingRow
  BY DEF DeskInv, DeskTypeOK
<1>8. /\ booking' \in BookingRow
      /\ booking'.seekerRead = IF new.seekerRead = visiting[c].row.seekerRead THEN booking.seekerRead ELSE new.seekerRead
      /\ booking'.advisorRead = IF new.advisorRead = visiting[c].row.advisorRead THEN booking.advisorRead ELSE new.advisorRead
  BY <1>1, <1>4, <1>5, <1>7, FlushType
<1>9. booking'.seekerRead <= moment' /\ booking'.advisorRead <= moment'
  <2>1. booking.seekerRead \in Nat /\ booking.advisorRead \in Nat
    BY <1>7, StampType DEF BookingRow
  <2>2. booking.seekerRead <= moment /\ booking.advisorRead <= moment
    BY DEF DeskInv
  <2>3. booking'.seekerRead \in {booking.seekerRead, moment'} /\ booking'.advisorRead \in {booking.advisorRead, moment'}
    BY <1>6, <1>8
  <2> QED BY <1>3, <2>1, <2>2, <2>3
<1>10. DeskTypeOK'
  <2>1. news' \subseteq Parties
    BY <1>1 DEF DeskInv, DeskTypeOK
  <2> QED BY <1>1, <1>3, <1>8, <2>1, EndedVisit DEF DeskInv, DeskTypeOK
<1>11. ASSUME NEW v \in news' PROVE \E t \in Arrived(v)' : t > ReadAt(booking, v)'
  <2>1. v \in news /\ v \in Parties
    BY <1>1 DEF DeskInv, DeskTypeOK
  <2>2. ~(visiting[c].op = "read" /\ visiting[c].party = v)
    BY <1>1
  <2>3. ReadAt(booking, v)' = ReadAt(booking, v)
    BY <1>6, <1>8, <2>1, <2>2 DEF ReadAt, Parties
  <2>4. Arrived(v)' = Arrived(v)
    BY <1>1 DEF Arrived
  <2> QED BY <2>1, <2>3, <2>4 DEF DeskInv
<1>12. \A d \in Visitors : visiting'[d].op = "fulfill" => \E r \in requests' : r.created = visiting'[d].request
  BY <1>1, EndedVisit DEF DeskInv
<1> QED BY <1>1, <1>9, <1>10, <1>11, <1>12, EndedVisit DEF DeskInv

\* Something is added for the seeker: it is news if it was begun after they last looked.
LEMMA AddedInv ==
    ASSUME DeskInv, NEW c \in Visitors, Passes, EndVisit(c), UNCHANGED <<booking, hour>>,
           visiting[c] \in Visit, notes \subseteq notes', requests \subseteq requests',
           notes' \subseteq Stamp, requests' \subseteq DocumentRequest,
           visiting[c].began \in notes' \cup {r.created : r \in requests'},
           news' = news \cup Fresh(visiting[c], "seeker")
    PROVE  DeskInv'
<1>1. moment \in Nat /\ moment' = moment + 1 /\ moment' \in Stamp
  BY PassesType
<1>2. booking.seekerRead \in Nat /\ booking.advisorRead \in Nat
  BY StampType DEF DeskInv, DeskTypeOK, BookingRow
<1>3. booking'.seekerRead <= moment' /\ booking'.advisorRead <= moment'
  BY <1>1, <1>2 DEF DeskInv
<1>4. DeskTypeOK'
  <2>1. news' \subseteq Parties
    BY DEF DeskInv, DeskTypeOK, Fresh, Parties
  <2> QED BY <1>1, <2>1, EndedVisit DEF DeskInv, DeskTypeOK
<1>5. \A v : Arrived(v) \subseteq Arrived(v)' /\ ReadAt(booking, v)' = ReadAt(booking, v)
  BY DEF Arrived, ReadAt
<1>6. visiting[c].began \in Arrived("seeker")'
  BY DEF Arrived
<1>7. \A v \in news' : \E t \in Arrived(v)' : t > ReadAt(booking, v)'
  <2>1. ASSUME NEW v \in news PROVE \E t \in Arrived(v)' : t > ReadAt(booking, v)'
    BY <1>5 DEF DeskInv
  <2>2. ASSUME NEW v \in Fresh(visiting[c], "seeker") PROVE \E t \in Arrived(v)' : t > ReadAt(booking, v)'
    <3>1. v = "seeker" /\ visiting[c].began > ReadAt(booking, "seeker")
      BY <2>2 DEF Fresh
    <3> QED BY <1>5, <1>6, <3>1
  <2> QED BY <2>1, <2>2
<1>8. \A d \in Visitors : visiting'[d].op = "fulfill" => \E r \in requests' : r.created = visiting'[d].request
  BY EndedVisit DEF DeskInv
<1> QED BY <1>3, <1>4, <1>7, <1>8, EndedVisit DEF DeskInv

\* A request is fulfilled, later than anything the advisor has opened.
LEMMA SaveFulfilledInv ==
    ASSUME DeskInv, NEW c \in Visitors, SaveFulfilled(c)
    PROVE  DeskInv'
<1>1. moment \in Nat /\ moment' = moment + 1 /\ moment' \in Stamp
  BY PassesType DEF SaveFulfilled
<1>2. PICK now \in Stamp : now = moment'
  BY <1>1
<1> DEFINE Marked(r) == IF r.created = visiting[c].request THEN [r EXCEPT !.fulfilled = now] ELSE r
<1>3. /\ visiting[c].op = "fulfill" /\ EndVisit(c) /\ UNCHANGED <<booking, notes, hour>>
      /\ requests' = {Marked(r) : r \in requests} /\ news' = news \cup {"advisor"}
  BY <1>2 DEF SaveFulfilled
<1>4. ASSUME NEW r \in requests
      PROVE  /\ Marked(r) \in DocumentRequest /\ Marked(r).created = r.created
             /\ r.created = visiting[c].request => Marked(r).fulfilled = now
  <2>1. r \in DocumentRequest
    BY DEF DeskInv, DeskTypeOK
  <2> QED BY <2>1 DEF DocumentRequest
<1> HIDE DEF Marked
<1>5. booking.seekerRead \in Nat /\ booking.advisorRead \in Nat /\ now \in Nat
  BY StampType DEF DeskInv, DeskTypeOK, BookingRow
<1>6. booking'.seekerRead <= moment' /\ booking'.advisorRead <= moment'
  BY <1>1, <1>3, <1>5 DEF DeskInv
<1>7. DeskTypeOK'
  <2>1. news' \subseteq Parties /\ requests' \subseteq DocumentRequest
    BY <1>3, <1>4 DEF DeskInv, DeskTypeOK, Parties
  <2> QED BY <1>1, <1>3, <2>1, EndedVisit DEF DeskInv, DeskTypeOK
<1>8. \A r \in requests : \E q \in requests' : q.created = r.created
  BY <1>3, <1>4
<1>9. \A d \in Visitors : visiting'[d].op = "fulfill" => \E r \in requests' : r.created = visiting'[d].request
  <2> SUFFICES ASSUME NEW d \in Visitors, visiting'[d].op = "fulfill"
               PROVE  \E r \in requests' : r.created = visiting'[d].request
    OBVIOUS
  <2>1. visiting'[d] = visiting[d]
    BY <1>3, EndedVisit
  <2>2. PICK r \in requests : r.created = visiting[d].request
    BY <2>1 DEF DeskInv
  <2> QED BY <1>8, <2>1, <2>2
<1>10. \E t \in Arrived("advisor")' : t > ReadAt(booking, "advisor")'
  <2>1. PICK r \in requests : r.created = visiting[c].request
    BY <1>3 DEF DeskInv
  <2>2. Marked(r) \in requests' /\ Marked(r).fulfilled = now
    BY <1>3, <1>4, <2>1
  <2>3. now \in Arrived("advisor")'
    BY <2>2 DEF Arrived
  <2>4. ReadAt(booking, "advisor")' = booking.advisorRead
    BY <1>3 DEF ReadAt
  <2>5. now > booking.advisorRead
    BY <1>1, <1>2, <1>5 DEF DeskInv
  <2> QED BY <2>3, <2>4, <2>5
<1>11. ASSUME NEW v \in news, v # "advisor" PROVE \E t \in Arrived(v)' : t > ReadAt(booking, v)'
  <2>1. v = "seeker"
    BY <1>11 DEF DeskInv, DeskTypeOK, Parties
  <2>2. PICK t \in notes \cup {r.created : r \in requests} : t > ReadAt(booking, v)
    BY <2>1 DEF DeskInv, Arrived
  <2>3. t \in notes' \cup {r.created : r \in requests'}
    BY <1>3, <1>8
  <2>4. ReadAt(booking, v)' = ReadAt(booking, v)
    BY <1>3 DEF ReadAt
  <2> QED BY <2>1, <2>2, <2>3, <2>4 DEF Arrived
<1> QED BY <1>3, <1>6, <1>7, <1>9, <1>10, <1>11, EndedVisit DEF DeskInv

\* No step at the desk breaks the inductive invariant.
LEMMA DeskNextInv == DeskInv /\ [DeskNext]_bookingDeskVars => DeskInv'
<1> SUFFICES ASSUME DeskInv, [DeskNext]_bookingDeskVars PROVE DeskInv'
  OBVIOUS
<1>1. CASE UNCHANGED bookingDeskVars
  BY <1>1 DEF bookingDeskVars, DeskInv, DeskTypeOK, Arrived, ReadAt
<1>2. CASE HourPasses
  <2>1. hour' \in 0 .. MaxHour /\ UNCHANGED <<booking, notes, requests, visiting, moment, news>>
    BY <1>2, DeskAssumption DEF HourPasses, DeskInv, DeskTypeOK
  <2> QED BY <2>1 DEF DeskInv, DeskTypeOK, Arrived, ReadAt
<1>3. 1 \in 1 .. MaxHour
  BY DeskAssumption
<1>4. ASSUME NEW c \in Visitors, NEW op \in RowOps, NEW party \in Parties, NEW to \in 1 .. MaxHour,
             OpenBooking(c, op, party, to)
      PROVE  DeskInv'
  <2>1. op # "fulfill"
    BY DEF RowOps, AdvisorOps
  <2> QED BY <1>4, <2>1, VisitingInv DEF OpenBooking
<1>5. ASSUME NEW c \in Visitors, NEW op \in {"note", "ask"}, OpenPost(c, op) PROVE DeskInv'
  BY <1>3, <1>5, VisitingInv DEF OpenPost, PostOps, Parties
<1>6. ASSUME NEW c \in Visitors, NEW r \in requests, OpenFulfill(c, r) PROVE DeskInv'
  <2>1. r.created \in Stamp
    BY DEF DeskInv, DeskTypeOK, DocumentRequest
  <2> QED BY <1>3, <1>6, <2>1, VisitingInv DEF OpenFulfill, PostOps, Parties
<1>7. ASSUME NEW c \in Visitors, visiting[c].op \in PostOps
      PROVE  visiting[c] \in Visit /\ visiting[c].began \in Stamp
  <2>1. visiting[c] \in Visit
    BY <1>7 DEF DeskInv, DeskTypeOK, NoVisit, PostOps
  <2> QED BY <2>1 DEF Visit
<1>8. ASSUME NEW c \in Visitors, SaveNote(c) PROVE DeskInv'
  <2>1. visiting[c] \in Visit /\ visiting[c].began \in Stamp
    BY <1>7, <1>8 DEF SaveNote, PostOps
  <2>2. notes' = notes \cup {visiting[c].began} /\ notes' \subseteq Stamp /\ requests' = requests
        /\ requests \subseteq DocumentRequest
    BY <1>8, <2>1 DEF SaveNote, DeskInv, DeskTypeOK
  <2> QED BY <1>8, <2>1, <2>2, AddedInv DEF SaveNote
<1>9. ASSUME NEW c \in Visitors, SaveRequest(c) PROVE DeskInv'
  <2>1. visiting[c] \in Visit /\ visiting[c].began \in Stamp
    BY <1>7, <1>9 DEF SaveRequest, PostOps
  <2> DEFINE wish == [created |-> visiting[c].began, fulfilled |-> 0]
  <2>2. wish \in DocumentRequest /\ wish.created = visiting[c].began
    BY <2>1, DeskAssumption DEF DocumentRequest, Stamp
  <2>3. requests' = requests \cup {wish}
    BY <1>9 DEF SaveRequest
  <2> HIDE DEF wish
  <2>4. /\ requests' \subseteq DocumentRequest /\ notes' = notes /\ notes \subseteq Stamp
        /\ visiting[c].began \in {r.created : r \in requests'}
    BY <1>9, <2>2, <2>3 DEF SaveRequest, DeskInv, DeskTypeOK
  <2> QED BY <1>9, <2>1, <2>3, <2>4, AddedInv DEF SaveRequest
<1>10. ASSUME NEW c \in Visitors, StopVisit(c) PROVE DeskInv'
  <2>1. EndVisit(c) /\ UNCHANGED <<booking, notes, requests, moment, hour, news>>
    BY <1>10 DEF StopVisit
  <2>2. DeskTypeOK'
    BY <2>1, EndedVisit DEF DeskInv, DeskTypeOK
  <2>3. \A d \in Visitors : visiting'[d].op = "fulfill" => \E r \in requests' : r.created = visiting'[d].request
    BY <2>1, EndedVisit DEF DeskInv
  <2> QED BY <2>1, <2>2, <2>3, EndedVisit DEF DeskInv, Arrived, ReadAt
<1>11. ASSUME NEW c \in Visitors, NEW op \in RowOps, NEW party \in Parties,
              IF op = "reschedule" THEN \E to \in 1 .. MaxHour : OpenBooking(c, op, party, to)
              ELSE OpenBooking(c, op, party, 1)
       PROVE  DeskInv'
  BY <1>3, <1>4, <1>11
<1> QED BY <1>1, <1>2, <1>5, <1>6, <1>8, <1>9, <1>10, <1>11, SaveBookingInv, SaveFulfilledInv DEF DeskNext

\* For every number of requests, moments and posts: a button that compute_capabilities
\* shows is not refused, and what has come to a party since they last opened the menu
\* (mark_actions_read) is shown as unread (compute_is_unread), whichever copies of the row
\* are written over it.
THEOREM DeskIsHonest == DeskSpec => []DeskHonest
<1>1. DeskInv => DeskHonest
  BY NewsAreFlagged, ButtonsWork DEF DeskInv, DeskHonest
<1> QED BY DeskInitInv, DeskNextInv, <1>1, PTL DEF DeskSpec

-----------------------------------------------------------------------------
(* The visa journey                                                           *)

LEMMA VisibleSteps == IsFiniteSet(VisibleStepKeys) /\ Cardinality(VisibleStepKeys) = 4
<1>1. VisibleStepKeys = ((({} \cup {"assessment"}) \cup {"advisor"}) \cup {"documentation"}) \cup {"submission"}
  BY DEF VisibleStepKeys, StepKeys
<1>2. IsFiniteSet({}) /\ Cardinality({}) = 0
  BY FS_EmptySet
<1>3. /\ IsFiniteSet({} \cup {"assessment"})
      /\ Cardinality({} \cup {"assessment"}) = 1
  BY <1>2, FS_AddElement
<1>4. /\ IsFiniteSet(({} \cup {"assessment"}) \cup {"advisor"})
      /\ Cardinality(({} \cup {"assessment"}) \cup {"advisor"}) = 2
  BY <1>3, FS_AddElement
<1>5. /\ IsFiniteSet((({} \cup {"assessment"}) \cup {"advisor"}) \cup {"documentation"})
      /\ Cardinality((({} \cup {"assessment"}) \cup {"advisor"}) \cup {"documentation"}) = 3
  BY <1>4, FS_AddElement
<1>6. /\ IsFiniteSet(((({} \cup {"assessment"}) \cup {"advisor"}) \cup {"documentation"}) \cup {"submission"})
      /\ Cardinality(((({} \cup {"assessment"}) \cup {"advisor"}) \cup {"documentation"}) \cup {"submission"}) = 4
  BY <1>5, FS_AddElement
<1> QED BY <1>1, <1>6

\* The sum that is divided by the number of the steps
LEMMA OverallIs ==
    ASSUME NEW statuses, \A k \in StepKeys : Percent(k, statuses[k]) \in Nat
    PROVE  OverallProgress(statuses) =
             Nearest(Percent("assessment", statuses["assessment"]) + Percent("advisor", statuses["advisor"])
                     + Percent("documentation", statuses["documentation"])
                     + Percent("submission", statuses["submission"]), 4)
<1> DEFINE w == [k \in StepKeys |-> Percent(k, statuses[k])]
<1>1. \A k \in StepKeys : w[k] = Percent(k, statuses[k]) /\ w[k] \in Nat
  OBVIOUS
<1>2. OverallProgress(statuses) = Nearest(FoldFunctionOnSet(+, 0, w, VisibleStepKeys), 4)
  BY VisibleSteps DEF OverallProgress
<1> HIDE DEF w
<1>3. PICK f : Sums(w, SUBSET VisibleStepKeys, f)
  BY VisibleSteps, SumsExist
<1>4. FoldFunctionOnSet(+, 0, w, VisibleStepKeys) = (CHOOSE g : Sums(w, SUBSET VisibleStepKeys, g))[VisibleStepKeys]
  BY DEF FoldFunctionOnSet, MapThenFoldSet, Sums
<1>5. FoldFunctionOnSet(+, 0, w, VisibleStepKeys) = TotalOf(w, VisibleStepKeys)
  BY <1>3, <1>4, VisibleSteps, TotalIs
<1>6. \A T \in SUBSET VisibleStepKeys : IsFiniteSet(T) /\ \A k \in T : w[k] \in Int
  BY <1>1, VisibleSteps, FS_Subset DEF VisibleStepKeys
<1>7. ASSUME NEW T \in SUBSET VisibleStepKeys, NEW k \in T
      PROVE  TotalOf(w, T) = w[k] + TotalOf(w, T \ {k})
  BY <1>6, TotalSplit
<1>8. VisibleStepKeys = {"assessment", "advisor", "documentation", "submission"}
  BY DEF VisibleStepKeys, StepKeys
<1>9. TotalOf(w, {"submission"}) = w["submission"] + TotalOf(w, {})
  <2>1. {"submission"} \ {"submission"} = {} /\ {"submission"} \in SUBSET VisibleStepKeys
    BY <1>8
  <2> QED BY <1>7, <2>1
<1>10. TotalOf(w, {"documentation", "submission"}) = w["documentation"] + TotalOf(w, {"submission"})
  <2>1. /\ {"documentation", "submission"} \ {"documentation"} = {"submission"}
        /\ {"documentation", "submission"} \in SUBSET VisibleStepKeys
    BY <1>8
  <2> QED BY <1>7, <2>1
<1>11. TotalOf(w, {"advisor", "documentation", "submission"})
         = w["advisor"] + TotalOf(w, {"documentation", "submission"})
  <2>1. /\ {"advisor", "documentation", "submission"} \ {"advisor"} = {"documentation", "submission"}
        /\ {"advisor", "documentation", "submission"} \in SUBSET VisibleStepKeys
    BY <1>8
  <2> QED BY <1>7, <2>1
<1>12. TotalOf(w, VisibleStepKeys) = w["assessment"] + TotalOf(w, {"advisor", "documentation", "submission"})
  <2>1. /\ VisibleStepKeys \ {"assessment"} = {"advisor", "documentation", "submission"}
        /\ "assessment" \in VisibleStepKeys /\ VisibleStepKeys \in SUBSET VisibleStepKeys
    BY <1>8
  <2> QED BY <1>7, <2>1
<1>13. TotalOf(w, {}) = 0
  BY TotalEmpty
<1>14. /\ w["assessment"] \in Nat /\ w["advisor"] \in Nat
       /\ w["documentation"] \in Nat /\ w["submission"] \in Nat
  BY <1>1 DEF StepKeys
<1>15. TotalOf(w, VisibleStepKeys) = w["assessment"] + w["advisor"] + w["documentation"] + w["submission"]
  BY <1>9, <1>10, <1>11, <1>12, <1>13, <1>14
<1> QED BY <1>1, <1>2, <1>5, <1>15 DEF StepKeys

\* Rounding does not lead out of a range of whole numbers.
LEMMA NearestWithin ==
    ASSUME NEW n \in Nat, NEW d \in Nat, d > 0, n <= 100 * d
    PROVE  Nearest(n, d) \in 0 .. 100
<1> DEFINE low == n \div d
           rest == n % d
<1>1. low \in Nat /\ rest \in 0 .. d - 1 /\ n = d * low + rest
  OBVIOUS
<1>2. low <= 100
  <2>1. SUFFICES ASSUME low >= 101 PROVE FALSE
    BY <1>1
  <2>2. d * low >= d * 101
    BY <1>1, <2>1
  <2> QED BY <1>1, <2>2
<1>3. low = 100 => rest = 0
  BY <1>1
<1>4. Nearest(n, d) = IF 2 * rest > d \/ (2 * rest = d /\ low % 2 = 1) THEN low + 1 ELSE low
  BY DEF Nearest
<1> HIDE DEF low, rest
<1>5. CASE rest = 0
  BY <1>1, <1>2, <1>4, <1>5
<1>6. CASE rest # 0
  BY <1>1, <1>2, <1>3, <1>4, <1>6
<1> QED BY <1>5, <1>6

LEMMA NearestFull == ASSUME NEW n \in 0 .. 400 PROVE Nearest(n, 4) = 100 <=> n >= 398
BY DEF Nearest

\* What a step contributes
LEMMA PercentIs ==
    /\ DocumentProgress \in 0 .. 100
    /\ \A k \in StepKeys, status \in {"completed", "in_progress", "pending"} :
          /\ Percent(k, status) \in 0 .. 100
          /\ status = "completed" => Percent(k, status) = 100
          /\ k # "documentation" /\ status # "completed" => Percent(k, status) <= 50
<1>1. DocumentProgress \in 0 .. 100
  <2>1. Cardinality(Approved) <= Cardinality(Required) /\ IsFiniteSet(Approved)
    BY JourneyAssumption, FS_Subset DEF Approved
  <2>2. Cardinality(Approved) \in Nat /\ Cardinality(Required) \in Nat /\ Cardinality(Required) # 0
    BY <2>1, JourneyAssumption, FS_CardinalityType, FS_EmptySet
  <2>3. PICK n, d : n = 100 * Cardinality(Approved) /\ d = Cardinality(Required)
    OBVIOUS
  <2>4. n \in Nat /\ d \in Nat /\ d > 0 /\ n <= 100 * d
    BY <2>1, <2>2, <2>3
  <2>5. Nearest(n, d) \in 0 .. 100
    BY <2>4, NearestWithin
  <2> QED BY <2>3, <2>5 DEF DocumentProgress
<1> DEFINE Within(k, status) == /\ Percent(k, status) \in 0 .. 100
                                /\ status = "completed" => Percent(k, status) = 100
                                /\ k # "documentation" /\ status # "completed" => Percent(k, status) <= 50
<1>2. ASSUME NEW k \in StepKeys, NEW status \in {"completed", "in_progress", "pending"}
      PROVE  Within(k, status)
  <2>1. CASE status = "completed"
    BY <2>1 DEF Percent
  <2>2. CASE status = "in_progress"
    <3>1. Percent(k, status) = IF k = "documentation" THEN DocumentProgress ELSE 50
      BY <2>2 DEF Percent
    <3>2. status # "completed" /\ 50 \in 0 .. 100
      BY <2>2
    <3> QED BY <1>1, <3>1, <3>2
  <2>3. CASE status = "pending"
    BY <2>3 DEF Percent
  <2> QED BY <2>1, <2>2, <2>3
<1>3. \A k \in StepKeys, status \in {"completed", "in_progress", "pending"} : Within(k, status)
  <2> HIDE DEF Within
  <2> QED BY <1>2
<1> QED BY <1>1, <1>3

\* Each step is unlocked by the one before it.
LEMMA StepsInOrder ==
    ASSUME NEW scope
    PROVE  LET statuses == Statuses(scope) IN
           /\ \A k \in StepKeys : statuses[k] \in {"completed", "in_progress", "pending"}
           /\ statuses["submission"] = "completed" => statuses["application_preparation"] = "completed"
           /\ statuses["application_preparation"] = "completed" => statuses["documentation"] = "completed"
           /\ statuses["documentation"] = "completed" => statuses["assessment"] = "completed"
<1> DEFINE recommended == Recommended(scope)
           advisor == AdvisorStep(recommended)
           documents == DocumentStep(advisor # "pending")
           review == ReviewStep(documents = "completed")
           submission == SubmissionStep(review = "completed")
<1>1. advisor \in {"completed", "in_progress", "pending"} /\ (advisor # "pending" => recommended)
  BY DEF AdvisorStep
<1>2. documents \in {"completed", "in_progress", "pending"} /\ (documents = "completed" => advisor # "pending")
  BY DEF DocumentStep
<1>3. review \in {"completed", "in_progress", "pending"} /\ (review = "completed" => documents = "completed")
  BY DEF ReviewStep
<1>4. submission \in {"completed", "in_progress", "pending"} /\ (submission = "completed" => review = "completed")
  BY DEF SubmissionStep
<1>5. Statuses(scope) = [assessment |-> IF recommended THEN "completed" ELSE "pending",
                         advisor |-> advisor, documentation |-> documents,
                         application_preparation |-> review, submission |-> submission]
  BY DEF Statuses
<1> HIDE DEF recommended, advisor, documents, review, submission
<1> QED BY <1>1, <1>2, <1>3, <1>4, <1>5 DEF StepKeys

\* The cover is full when there is nothing left to do, in every state.
LEMMA FullIsDone == FullMeansDone
<1> SUFFICES ASSUME NEW scope
             PROVE  LET statuses == Statuses(scope)
                        full == OverallProgress(statuses) = 100
                    IN /\ full <=> ApplicationState(statuses) = "completed"
                       /\ full <=> CurrentStatus(statuses) = "completed"
  BY DEF FullMeansDone
<1> DEFINE statuses == Statuses(scope)
<1>1. /\ \A k \in StepKeys : statuses[k] \in {"completed", "in_progress", "pending"}
      /\ statuses["submission"] = "completed" => statuses["application_preparation"] = "completed"
      /\ statuses["application_preparation"] = "completed" => statuses["documentation"] = "completed"
      /\ statuses["documentation"] = "completed" => statuses["assessment"] = "completed"
  BY StepsInOrder
<1> HIDE DEF statuses
<1>2. ASSUME NEW k \in StepKeys
      PROVE  /\ Percent(k, statuses[k]) \in 0 .. 100 /\ Percent(k, statuses[k]) \in Nat
             /\ statuses[k] = "completed" => Percent(k, statuses[k]) = 100
             /\ k # "documentation" /\ statuses[k] # "completed" => Percent(k, statuses[k]) <= 50
  BY <1>1, PercentIs
<1> DEFINE done == \A k \in StepKeys : statuses[k] = "completed"
           a == Percent("assessment", statuses["assessment"])
           b == Percent("advisor", statuses["advisor"])
           c == Percent("documentation", statuses["documentation"])
           d == Percent("submission", statuses["submission"])
<1>3. OverallProgress(statuses) = Nearest(a + b + c + d, 4)
  BY <1>2, OverallIs
<1>4. /\ a \in 0 .. 100 /\ b \in 0 .. 100 /\ c \in 0 .. 100 /\ d \in 0 .. 100
      /\ statuses["submission"] # "completed" => d <= 50
      /\ statuses["advisor"] # "completed" => b <= 50
  BY <1>2 DEF StepKeys
<1>5. done => a = 100 /\ b = 100 /\ c = 100 /\ d = 100
  BY <1>2 DEF StepKeys
<1>6. statuses["submission"] = "completed" /\ statuses["advisor"] = "completed" => done
  BY <1>1 DEF StepKeys
<1> HIDE DEF a, b, c, d, done
<1>7. a + b + c + d \in 0 .. 400 /\ (a + b + c + d >= 398 <=> done)
  BY <1>4, <1>5, <1>6
<1>8. OverallProgress(statuses) = 100 <=> done
  BY <1>3, <1>7, NearestFull
<1>9. ApplicationState(statuses) = "completed" <=> done
  <2>1. done => ~\A k \in StepKeys : statuses[k] = "pending"
    BY DEF StepKeys, done
  <2> QED BY <2>1 DEF ApplicationState, done
<1>10. CurrentStatus(statuses) = "completed" <=> done
  <2> DEFINE shown == {statuses[k] : k \in VisibleStepKeys}
  <2>1. CurrentStatus(statuses) = "completed" <=> "in_progress" \notin shown /\ "pending" \notin shown
    BY DEF CurrentStatus
  <2>2. "in_progress" \notin shown /\ "pending" \notin shown
          <=> \A k \in VisibleStepKeys : statuses[k] = "completed"
    BY <1>1 DEF VisibleStepKeys
  <2>3. done => \A k \in VisibleStepKeys : statuses[k] = "completed"
    BY DEF VisibleStepKeys, done
  <2>4. (\A k \in VisibleStepKeys : statuses[k] = "completed") => done
    BY <1>6 DEF VisibleStepKeys, StepKeys
  <2> QED BY <2>1, <2>2, <2>3, <2>4
<1> QED BY <1>8, <1>9, <1>10 DEF statuses

\* The recommendations are those for the first destination and visa type of the profile, or
\* they have been saved by a request that had read another intent.
JourneyInv ==
    /\ JourneyTypeOK /\ DOMAIN page = Pages
    /\ \A p \in Pages : page[p].op \in {"onboarding", "profile"} => page[p].to # NoIntent
    /\ MatchesCurrent

LEMMA JourneyInitInv == JourneyInit => JourneyInv
<1> SUFFICES ASSUME JourneyInit PROVE JourneyInv
  OBVIOUS
<1>1. sessions \in [Sessions -> Session]
  BY DEF JourneyInit, Session
<1>2. DOMAIN page = Pages /\ \A p \in Pages : page[p] = NoPage
  BY DEF JourneyInit
<1>3. JourneyTypeOK
  BY <1>1, <1>2 DEF JourneyInit, JourneyTypeOK
<1>4. \A p \in Pages : page[p].op \notin {"onboarding", "profile"}
  BY <1>2 DEF NoPage
<1> QED BY <1>2, <1>3, <1>4 DEF JourneyInit, JourneyInv, MatchesCurrent

\* A request that has read its page has the type of one.
LEMMA PageType ==
    ASSUME JourneyInv, NEW p \in Pages, page[p].op # "idle"
    PROVE  page[p] \in Page /\ page[p].intent \in Intents \cup {NoIntent} /\ page[p].to \in Intents \cup {NoIntent}
<1>1. page[p] \in Page
  BY DEF JourneyInv, JourneyTypeOK, NoPage
<1> QED BY <1>1 DEF Page

\* A request that ends, having written the profile, the recommendations and the submission
LEMMA ClosedInv ==
    ASSUME JourneyInv, NEW p \in Pages, ClosePage(p), UNCHANGED <<engaged, sessions, papers, spare>>,
           intent' \in Intents \cup {NoIntent}, matches' \in Served \cup {NoIntent},
           outrun' \in BOOLEAN, submitted' \in BOOLEAN, MatchesCurrent'
    PROVE  JourneyInv'
<1>1. DOMAIN page' = Pages /\ page'[p] = NoPage /\ \A q \in Pages \ {p} : page'[q] = page[q]
  BY DEF ClosePage, JourneyInv
<1>2. page'[p].op \notin {"onboarding", "profile"}
  BY <1>1 DEF NoPage
<1>3. JourneyTypeOK'
  BY <1>1 DEF JourneyInv, JourneyTypeOK
<1> QED BY <1>1, <1>2, <1>3 DEF JourneyInv

\* The recommendations for an intent are those of the profile, if it is the intent of it.
LEMMA ReplacedCurrent ==
    ASSUME JourneyInv, NEW i \in Intents \cup {NoIntent}, NEW current \in BOOLEAN,
           ReplaceMatches(i, current), current => intent' = i
    PROVE  matches' \in Served \cup {NoIntent} /\ outrun' \in BOOLEAN /\ MatchesCurrent'
<1>1. matches' = (IF i \in Served THEN i ELSE NoIntent) /\ (outrun' = ~current)
  BY DEF ReplaceMatches, MatchFor
<1>2. outrun' \in BOOLEAN /\ (~current => outrun')
  BY <1>1
<1>3. matches' \in Served \cup {NoIntent} /\ (matches' # NoIntent => matches' = i)
  BY <1>1
<1> QED BY <1>2, <1>3 DEF MatchesCurrent

LEMMA SaveProfileInv == ASSUME JourneyInv, NEW p \in Pages, SaveProfile(p) PROVE JourneyInv'
<1> DEFINE first(i) == IF i = NoIntent THEN NoIntent ELSE Primary[i]
<1>1. PICK current \in BOOLEAN : current <=> page[p].intent = intent
  OBVIOUS
<1>2. page[p].op \in {"onboarding", "profile"} /\ ClosePage(p)
      /\ UNCHANGED <<engaged, sessions, papers, spare, submitted>>
  BY DEF SaveProfile
<1>3. page[p].to \in Intents /\ page[p].intent \in Intents \cup {NoIntent}
  BY <1>2, PageType DEF JourneyInv
<1>4. intent' \in Intents \cup {NoIntent} /\ (current => intent' = page[p].to)
  BY <1>1, <1>3 DEF SaveProfile, JourneyInv, JourneyTypeOK
<1>5. submitted' \in BOOLEAN
  BY <1>2 DEF JourneyInv, JourneyTypeOK
<1>6. CASE page[p].op = "onboarding" \/ first(page[p].to) # first(page[p].intent)
  <2>1. ReplaceMatches(intent', page[p].intent = intent)
    BY <1>6 DEF SaveProfile
  <2>2. PICK i \in Intents \cup {NoIntent} : i = intent'
    BY <1>4
  <2>3. matches' = MatchFor(i) /\ outrun' = ~current
    BY <1>1, <2>1, <2>2 DEF ReplaceMatches
  <2>4. ReplaceMatches(i, current)
    BY <2>3 DEF ReplaceMatches
  <2> QED BY <1>2, <1>4, <1>5, <2>2, <2>4, ReplacedCurrent, ClosedInv
<1>7. CASE ~(page[p].op = "onboarding" \/ first(page[p].to) # first(page[p].intent))
  <2>1. matches' = matches /\ outrun' = (outrun \/ ~(page[p].intent = intent))
    BY <1>7 DEF SaveProfile
  <2>2. outrun' \in BOOLEAN /\ (outrun \/ ~current <=> outrun')
    BY <1>1, <2>1
  <2>3. matches' \in Served \cup {NoIntent}
    BY <2>1 DEF JourneyInv, JourneyTypeOK
  <2>4. MatchesCurrent'
    <3>1. SUFFICES ASSUME matches # NoIntent, ~outrun, current
                   PROVE  intent' # NoIntent /\ Primary[matches] = Primary[intent']
      BY <2>1, <2>2 DEF MatchesCurrent
    <3>2. intent = page[p].intent /\ intent # NoIntent /\ Primary[matches] = Primary[intent]
      BY <1>1, <3>1 DEF JourneyInv, MatchesCurrent
    <3>3. intent' = page[p].to /\ intent' # NoIntent
      BY <1>3, <1>4, <3>1, JourneyAssumption
    <3> QED BY <1>7, <3>2, <3>3
  <2> QED BY <1>2, <1>4, <1>5, <2>2, <2>3, <2>4, ClosedInv
<1> QED BY <1>6, <1>7

\* What the recommendations are replaced by, for the intent a request has read
LEMMA RematchedInv ==
    ASSUME JourneyInv, NEW p \in Pages, page[p].op # "idle", ClosePage(p),
           ReplaceMatches(page[p].intent, page[p].intent = intent),
           UNCHANGED <<intent, engaged, sessions, papers, spare>>, submitted' \in BOOLEAN
    PROVE  JourneyInv'
<1>1. PICK current \in BOOLEAN : current <=> page[p].intent = intent
  OBVIOUS
<1>2. PICK i \in Intents \cup {NoIntent} : i = page[p].intent
  BY PageType
<1>3. matches' = MatchFor(i) /\ outrun' = ~current
  BY <1>1, <1>2 DEF ReplaceMatches
<1>4. ReplaceMatches(i, current)
  BY <1>3 DEF ReplaceMatches
<1>5. intent' \in Intents \cup {NoIntent}
  BY DEF JourneyInv, JourneyTypeOK
<1> QED BY <1>1, <1>2, <1>4, <1>5, ReplacedCurrent, ClosedInv

\* What the journey depends on moves.
LEMMA AroundInv ==
    ASSUME JourneyInv, UNCHANGED <<intent, matches, submitted, page, outrun>>,
           engaged' \in BOOLEAN, spare' \in BOOLEAN, sessions' \in [Sessions -> Session],
           papers' \in [Required -> {"missing", "under_review", "rejected", "approved"}]
    PROVE  JourneyInv'
BY DEF JourneyInv, JourneyTypeOK, MatchesCurrent

LEMMA SessionMovesInv == ASSUME JourneyInv, NEW s \in Sessions, SessionMoves(s) PROVE JourneyInv'
<1>1. sessions \in [Sessions -> Session] /\ sessions[s] \in Session
  BY DEF JourneyInv, JourneyTypeOK
<1>2. PICK unpaid \in BOOLEAN : unpaid = ~sessions[s].paid
  OBVIOUS
<1>3. ASSUME NEW over \in {"active", "over"}, NEW request \in {"none", "requested", "fulfilled"}
      PROVE  [status |-> over, paid |-> unpaid, request |-> request] \in Session
  BY DEF Session
<1>4. \A status \in {"active", "over"} : [sessions[s] EXCEPT !.status = status] \in Session
  BY <1>1 DEF Session
<1>5. \A request \in {"none", "requested", "fulfilled"} : [sessions[s] EXCEPT !.request = request] \in Session
  BY <1>1 DEF Session
<1>6. PICK new \in Session : sessions' = [sessions EXCEPT ![s] = new]
  <2>1. CASE sessions' = [sessions EXCEPT ![s].status = "active"]
    BY <1>1, <1>4, <2>1
  <2>2. CASE sessions' = [sessions EXCEPT ![s].status = "over"]
    BY <1>1, <1>4, <2>2
  <2>3. ASSUME NEW request \in {"none", "requested", "fulfilled"}, sessions' = [sessions EXCEPT ![s].request = request]
        PROVE  \E new \in Session : sessions' = [sessions EXCEPT ![s] = new]
    BY <1>1, <1>5, <2>3
  <2>4. ASSUME NEW over \in {"active", "over"}, NEW request \in {"none", "requested", "fulfilled"},
               sessions' = [sessions EXCEPT ![s] = [status |-> over, paid |-> ~sessions[s].paid, request |-> request]]
        PROVE  \E new \in Session : sessions' = [sessions EXCEPT ![s] = new]
    <3>1. sessions' = [sessions EXCEPT ![s] = [status |-> over, paid |-> unpaid, request |-> request]]
      BY <1>2, <2>4
    <3> QED BY <1>3, <3>1
  <2> QED BY <2>1, <2>2, <2>3, <2>4 DEF SessionMoves
<1>7. sessions' \in [Sessions -> Session]
  BY <1>1, <1>6
<1> QED BY <1>7, AroundInv DEF SessionMoves, JourneyInv, JourneyTypeOK

\* No step of the journey breaks the inductive invariant.
LEMMA JourneyNextInv == JourneyInv /\ [JourneyNext]_journeyVars => JourneyInv'
<1> SUFFICES ASSUME JourneyInv, [JourneyNext]_journeyVars PROVE JourneyInv'
  OBVIOUS
<1>1. CASE UNCHANGED journeyVars
  BY <1>1, AroundInv DEF journeyVars, JourneyInv, JourneyTypeOK
<1>2. ASSUME NEW p \in Pages, NEW op \in {"onboarding", "profile", "dashboard", "journey", "submit"},
             NEW to \in Intents \cup {NoIntent}, OpenPage(p, op, to)
      PROVE  JourneyInv'
  <2> DEFINE new == [op |-> op, intent |-> intent, to |-> to]
  <2>1. new \in Page /\ new.op = op /\ new.to = to
    BY DEF Page, JourneyInv, JourneyTypeOK
  <2>2. /\ page' = [page EXCEPT ![p] = new] /\ (op \in {"onboarding", "profile"} <=> to # NoIntent)
        /\ UNCHANGED <<intent, matches, engaged, sessions, papers, spare, submitted, outrun>>
    BY <1>2 DEF OpenPage
  <2> HIDE DEF new
  <2>3. DOMAIN page' = Pages /\ page'[p] = new /\ \A q \in Pages \ {p} : page'[q] = page[q]
    BY <2>2 DEF JourneyInv
  <2>4. JourneyTypeOK'
    BY <2>1, <2>2, <2>3 DEF JourneyInv, JourneyTypeOK
  <2> QED BY <2>1, <2>2, <2>3, <2>4 DEF JourneyInv, MatchesCurrent
<1>3. ASSUME NEW p \in Pages, SaveMatches(p) PROVE JourneyInv'
  <2>1. page[p].op # "idle" /\ submitted' \in BOOLEAN
    BY <1>3 DEF SaveMatches, JourneyInv, JourneyTypeOK
  <2> QED BY <1>3, <2>1, RematchedInv DEF SaveMatches
<1>4. ASSUME NEW p \in Pages, ShowJourney(p) \/ StopPage(p) PROVE JourneyInv'
  <2>1. ClosePage(p) /\ UNCHANGED <<intent, matches, engaged, sessions, papers, spare, submitted, outrun>>
    BY <1>4 DEF ShowJourney, StopPage
  <2>2. MatchesCurrent'
    BY <2>1 DEF JourneyInv, MatchesCurrent
  <2> QED BY <2>1, <2>2, ClosedInv DEF JourneyInv, JourneyTypeOK
<1>5. ASSUME NEW p \in Pages, SaveSubmitted(p) PROVE JourneyInv'
  <2>1. page[p].op # "idle" /\ submitted' \in BOOLEAN
    BY <1>5 DEF SaveSubmitted
  <2>2. CASE matches = NoIntent
    BY <1>5, <2>1, <2>2, RematchedInv DEF SaveSubmitted
  <2>3. CASE matches # NoIntent
    <3>1. /\ ClosePage(p) /\ UNCHANGED <<intent, matches, engaged, sessions, papers, spare, outrun>>
      BY <1>5, <2>3 DEF SaveSubmitted
    <3>2. MatchesCurrent'
      BY <3>1 DEF JourneyInv, MatchesCurrent
    <3> QED BY <2>1, <3>1, <3>2, ClosedInv DEF JourneyInv, JourneyTypeOK
  <2> QED BY <2>2, <2>3
<1>6. CASE Engage
  <2>1. engaged' \in BOOLEAN
    BY <1>6 DEF Engage
  <2> QED BY <1>6, <2>1, AroundInv DEF Engage, JourneyInv, JourneyTypeOK
<1>7. CASE PaperMoves
  <2>1. papers' \in [Required -> {"missing", "under_review", "rejected", "approved"}] /\ spare' \in BOOLEAN
    BY <1>7 DEF PaperMoves, JourneyInv, JourneyTypeOK
  <2> QED BY <1>7, <2>1, AroundInv DEF PaperMoves, JourneyInv, JourneyTypeOK
<1> QED BY <1>1, <1>2, <1>3, <1>4, <1>5, <1>6, <1>7, SaveProfileInv, SessionMovesInv DEF JourneyNext

\* For every set of intents, bookings, required documents and requests: the cover of the
\* journey (weighted_progress) is full exactly when every step is completed, and the
\* recommendations that are shown (refresh_for_seeker) are those of the profile, unless a
\* request that had read another intent has saved them.
THEOREM JourneyIsHonest == JourneySpec => []JourneyHonest
<1>1. JourneyInv => JourneyHonest
  BY FullIsDone DEF JourneyInv, JourneyHonest
<1> QED BY JourneyInitInv, JourneyNextInv, <1>1, PTL DEF JourneySpec

-----------------------------------------------------------------------------
(* What the open windows of a conversation show                               *)

\* A frame of op has been sent of the message and its request has not committed.
Ahead(op, t) == \E p \in Handlers : Pending(p) /\ handler[p].op = op /\ handler[p].of = t

\* A receipt of the message is committed and its frame not sent.
Late(t) == \E p \in Handlers : handler[p].over /\ handler[p].step = "flushed" /\ handler[p].of = t

\* A receipt is committed and the inboxes not told.
Uncounted == \E p \in Handlers : handler[p].over /\ handler[p].step # "pushed"

\* Who has pushed a change that a preview can show
PushedShape(p) == PushedOnly(p) /\ handler[p].op \notin {"read", "receipt"}

\* What the handlers know of the messages they are at
JobsReal ==
    /\ \A t \in LineIds : t > taken => line[t] = NoLine
    /\ \A p \in Handlers :
          LET job == handler[p] IN
          job # NoJob =>
            /\ job.over => job.op = "receipt" /\ job.step # "begun" /\ line[job.of].read
            /\ job.op = "receipt" /\ job.step \in {"announced", "pushed"} => job.over
            /\ IF job.op = "send" THEN line[job.of] = NoLine /\ job.of <= taken
               ELSE line[job.of] # NoLine
            /\ job.op \in {"read", "receipt"} => line[job.of].by # job.by
    /\ \A p, q \in Handlers :
          handler[p].op = "send" /\ handler[q].op = "send" /\ handler[p].of = handler[q].of => p = q

\* An open thread shows what is committed and what it was sent ahead of it.
ShownInv(u, t) ==
    t \in window[u].shown <=> Ahead("send", t) \/ (t \in Visible(line) /\ ~Ahead("delete", t))

TicksInv(u, t) ==
    /\ Ahead("send", t) => t \notin window[u].ticks
    /\ t \in Visible(line) /\ ~Ahead("delete", t) /\ line[t].by = u /\ ~Late(t) =>
          (t \in window[u].ticks <=> line[t].read \/ Ahead("read", t))

ThreadInv ==
    \A u \in Sides :
        /\ window[u].ticks \subseteq window[u].shown
        /\ window[u].wire = "open" =>
              \A t \in LineIds \ window[u].doubtful : ShownInv(u, t) /\ TicksInv(u, t)

\* The badge counts what the one that pushed is going to commit.
BadgeInv(u) ==
    /\ \A p, q \in Handlers : PushedOnly(p) /\ PushedOnly(q) => p = q
    /\ \/ Uncounted
       \/ /\ \A p \in Handlers :
                PushedOnly(p) => inbox[u].badge = unread_count(Written(line, handler[p]), u)
          /\ (\A p \in Handlers : ~PushedOnly(p)) => inbox[u].badge = unread_count(line, u)

\* So does the preview show it; what reads a message changes none.
PreviewInv(u) ==
    /\ \A p, q \in Handlers : PushedShape(p) /\ PushedShape(q) => p = q
    /\ \A p \in Handlers :
          PushedShape(p) => inbox[u].preview = message_preview(Written(line, handler[p]))
    /\ (\A p \in Handlers : ~PushedShape(p)) => inbox[u].preview = message_preview(line)

InboxInv ==
    \A u \in Sides :
        inbox[u].wire = "open" => /\ inbox[u].vague \/ BadgeInv(u)
                                  /\ inbox[u].hazy \/ PreviewInv(u)

LinesTyped ==
    /\ DOMAIN line = LineIds
    /\ \A t \in LineIds : line[t] = NoLine \/ line[t] \in Line
    /\ lastAt \in 0 .. MaxLines /\ taken \in 0 .. MaxLines

JobsTyped ==
    /\ DOMAIN handler = Handlers
    /\ \A p \in Handlers : handler[p] = NoJob \/ handler[p] \in Job
    /\ \A p, q \in Handlers : handler[p].locks /\ handler[q].locks => p = q

ScreensTyped ==
    /\ DOMAIN window = Sides /\ DOMAIN inbox = Sides
    /\ \A u \in Sides : window[u] \in Window /\ inbox[u] \in Inbox

LiveInv == LinesTyped /\ JobsTyped /\ ScreensTyped /\ JobsReal /\ ThreadInv /\ InboxInv

LEMMA LiveKinds ==
    /\ \A r \in Line : r # NoLine
    /\ \A j \in Job : j # NoJob /\ j.step # "idle" /\ j.op # "idle"
    /\ NoJob.op = "idle" /\ NoJob.step = "idle" /\ NoJob.over = FALSE /\ NoJob.locks = FALSE
<1>1. ASSUME NEW r \in Line PROVE r # NoLine
  <2>1. r.by \in Sides
    BY DEF Line
  <2> QED BY <2>1 DEF NoLine, Sides
<1>2. ASSUME NEW j \in Job PROVE j # NoJob /\ j.step # "idle" /\ j.op # "idle"
  <2>1. j.step \in {"begun", "flushed", "announced", "pushed"}
        /\ j.op \in {"send", "edit", "delete", "read", "receipt"}
    BY DEF Job
  <2> QED BY <2>1 DEF NoJob
<1> QED BY <1>1, <1>2 DEF NoJob

\* What a write leaves in the row
LEMMA WrittenRow ==
    ASSUME NEW rows, NEW job \in Job,
           job.op # "send" => rows[job.of] \in Line
    PROVE  \E r \in Line :
              /\ Written(rows, job) = [rows EXCEPT ![job.of] = r]
              /\ job.op = "send" => r = [by |-> job.by, read |-> FALSE, edited |-> FALSE,
                                         deleted |-> FALSE, removed |-> FALSE]
              /\ job.op = "edit" => r = [rows[job.of] EXCEPT !.edited = TRUE]
              /\ job.op = "delete" => r = [rows[job.of] EXCEPT !.deleted = TRUE]
              /\ job.op \in {"read", "receipt"} => r = [rows[job.of] EXCEPT !.read = TRUE]
<1> DEFINE of == job.of
           sent == [by |-> job.by, read |-> FALSE, edited |-> FALSE, deleted |-> FALSE, removed |-> FALSE]
           changed == [rows[of] EXCEPT !.edited = TRUE]
           gone == [rows[of] EXCEPT !.deleted = TRUE]
           seen == [rows[of] EXCEPT !.read = TRUE]
<1>1. of \in LineIds /\ job.by \in Sides /\ job.op \in {"send", "edit", "delete", "read", "receipt"}
  BY DEF Job
<1>2. sent \in Line
  BY <1>1 DEF Line
<1>3. job.op # "send" => changed \in Line /\ gone \in Line /\ seen \in Line
  BY DEF Line
<1>4. /\ job.op = "send" => Written(rows, job) = [rows EXCEPT ![of] = sent]
      /\ job.op = "edit" => Written(rows, job) = [rows EXCEPT ![of] = changed]
      /\ job.op = "delete" => Written(rows, job) = [rows EXCEPT ![of] = gone]
      /\ job.op \in {"read", "receipt"} => Written(rows, job) = [rows EXCEPT ![of] = seen]
  BY DEF Written
<1> HIDE DEF sent, changed, gone, seen
<1>5. \E r \in Line :
         /\ Written(rows, job) = [rows EXCEPT ![of] = r]
         /\ job.op = "send" => r = sent
         /\ job.op = "edit" => r = changed
         /\ job.op = "delete" => r = gone
         /\ job.op \in {"read", "receipt"} => r = seen
  BY <1>1, <1>2, <1>3, <1>4
<1> QED BY <1>5 DEF sent, changed, gone, seen

\* What is typed stays so, and the other messages are left.
LEMMA WrittenElse ==
    ASSUME NEW rows, DOMAIN rows = LineIds,
           \A t \in LineIds : rows[t] = NoLine \/ rows[t] \in Line,
           NEW job \in Job, job.op # "send" => rows[job.of] # NoLine
    PROVE  LET w == Written(rows, job) IN
           /\ DOMAIN w = LineIds
           /\ \A t \in LineIds : w[t] = NoLine \/ w[t] \in Line
           /\ \A t \in LineIds : t # job.of => w[t] = rows[t]
           /\ w[job.of] \in Line
<1> DEFINE w == Written(rows, job)
<1>1. job.of \in LineIds
  BY DEF Job
<1>2. PICK r \in Line : w = [rows EXCEPT ![job.of] = r]
  BY <1>1, WrittenRow
<1> HIDE DEF w
<1>3. /\ DOMAIN w = LineIds
      /\ \A t \in LineIds : w[t] = NoLine \/ w[t] \in Line
      /\ \A t \in LineIds : t # job.of => w[t] = rows[t]
      /\ w[job.of] \in Line
  BY <1>1, <1>2
<1> QED BY <1>3 DEF w

\* The same, field by field
LEMMA WrittenFields ==
    ASSUME NEW rows, DOMAIN rows = LineIds,
           \A t \in LineIds : rows[t] = NoLine \/ rows[t] \in Line,
           NEW job \in Job, job.op # "send" => rows[job.of] # NoLine
    PROVE  LET w == Written(rows, job) IN
           /\ w[job.of] # NoLine
           /\ job.op = "send" => /\ w[job.of].by = job.by
                                 /\ ~w[job.of].read /\ ~w[job.of].edited
                                 /\ ~w[job.of].deleted /\ ~w[job.of].removed
           /\ job.op # "send" =>
                 /\ w[job.of].by = rows[job.of].by
                 /\ w[job.of].removed = rows[job.of].removed
                 /\ job.op # "edit" => w[job.of].edited = rows[job.of].edited
                 /\ job.op # "delete" => w[job.of].deleted = rows[job.of].deleted
                 /\ job.op \notin {"read", "receipt"} => w[job.of].read = rows[job.of].read
           /\ job.op = "edit" => w[job.of].edited
           /\ job.op = "delete" => w[job.of].deleted
           /\ job.op \in {"read", "receipt"} => w[job.of].read
<1> DEFINE w == Written(rows, job)
<1>0. job.op # "send" => rows[job.of] \in Line
  BY DEF Job
<1>1. /\ w[job.of] \in Line
      /\ job.op = "send" => w[job.of] = [by |-> job.by, read |-> FALSE, edited |-> FALSE,
                                              deleted |-> FALSE, removed |-> FALSE]
      /\ job.op = "edit" => w[job.of] = [rows[job.of] EXCEPT !.edited = TRUE]
      /\ job.op = "delete" => w[job.of] = [rows[job.of] EXCEPT !.deleted = TRUE]
      /\ job.op \in {"read", "receipt"} => w[job.of] = [rows[job.of] EXCEPT !.read = TRUE]
  <2>1. PICK r \in Line :
           /\ w = [rows EXCEPT ![job.of] = r]
           /\ job.op = "send" => r = [by |-> job.by, read |-> FALSE, edited |-> FALSE,
                                      deleted |-> FALSE, removed |-> FALSE]
           /\ job.op = "edit" => r = [rows[job.of] EXCEPT !.edited = TRUE]
           /\ job.op = "delete" => r = [rows[job.of] EXCEPT !.deleted = TRUE]
           /\ job.op \in {"read", "receipt"} => r = [rows[job.of] EXCEPT !.read = TRUE]
    BY <1>0, WrittenRow
  <2> HIDE DEF w
  <2>2. job.of \in LineIds
    BY DEF Job
  <2>3. w[job.of] = r
    BY <2>1, <2>2
  <2> QED BY <2>1, <2>3
<1>2. job.op \in {"send", "edit", "delete", "read", "receipt"} /\ job.of \in LineIds
  BY DEF Job
<1>3. w[job.of] # NoLine
  BY <1>1, LiveKinds
<1>4. job.op # "send" => rows[job.of] \in Line
  BY <1>2
<1> HIDE DEF w
<1>5. job.op = "send" => /\ w[job.of].by = job.by
                         /\ ~w[job.of].read /\ ~w[job.of].edited
                         /\ ~w[job.of].deleted /\ ~w[job.of].removed
  BY <1>1
<1>6. job.op # "send" =>
         /\ w[job.of].by = rows[job.of].by
         /\ w[job.of].removed = rows[job.of].removed
         /\ job.op # "edit" => w[job.of].edited = rows[job.of].edited
         /\ job.op # "delete" => w[job.of].deleted = rows[job.of].deleted
         /\ job.op \notin {"read", "receipt"} => w[job.of].read = rows[job.of].read
  BY <1>1, <1>2, <1>4 DEF Line
<1>7. job.op = "edit" => w[job.of].edited
  BY <1>1, <1>4 DEF Line
<1>8. job.op = "delete" => w[job.of].deleted
  BY <1>1, <1>4 DEF Line
<1>9. job.op \in {"read", "receipt"} => w[job.of].read
  BY <1>1, <1>4 DEF Line
<1> QED BY <1>3, <1>5, <1>6, <1>7, <1>8, <1>9 DEF w

LEMMA LiveTyped == LinesTyped /\ JobsTyped /\ ScreensTyped => LiveTypeOK
<1> SUFFICES ASSUME LinesTyped, JobsTyped, ScreensTyped PROVE LiveTypeOK
  OBVIOUS
<1> DEFINE holders == {p \in Handlers : handler[p].locks}
<1>1. Cardinality(holders) <= 1
  <2>1. CASE holders = {}
    <3>1. Cardinality({}) = 0
      BY FS_EmptySet
    <3> HIDE DEF holders
    <3> QED BY <2>1, <3>1
  <2>2. CASE holders # {}
    <3>1. PICK p \in holders : TRUE
      BY <2>2
    <3>2. holders = {p}
      BY <3>1 DEF JobsTyped
    <3>3. Cardinality({p}) = 1
      BY FS_Singleton
    <3> HIDE DEF holders
    <3> QED BY <3>2, <3>3
  <2> QED BY <2>1, <2>2
<1>2. Cardinality({p \in Handlers : handler[p].locks}) <= 1
  BY <1>1
<1> QED BY <1>2 DEF LinesTyped, JobsTyped, ScreensTyped, LiveTypeOK

\* A handler takes its next step, or ends.
LEMMA JobMoves ==
    ASSUME JobsTyped, NEW p \in Handlers, NEW j, j = NoJob \/ j \in Job,
           handler' = [handler EXCEPT ![p] = j],
           j.locks => Unlocked \/ handler[p].locks
    PROVE  /\ JobsTyped'
           /\ handler'[p] = j
           /\ \A q \in Handlers \ {p} : handler'[q] = handler[q]
<1>1. DOMAIN handler' = Handlers /\ handler'[p] = j
      /\ \A q \in Handlers \ {p} : handler'[q] = handler[q]
  BY DEF JobsTyped
<1>2. ASSUME NEW q \in Handlers PROVE handler'[q] = NoJob \/ handler'[q] \in Job
  BY <1>1 DEF JobsTyped
<1>3. ASSUME NEW q \in Handlers, NEW r \in Handlers, handler'[q].locks, handler'[r].locks
      PROVE  q = r
  <2>1. CASE q = p /\ r # p
    <3>1. handler[r].locks
      BY <1>1, <1>3, <2>1
    <3>2. handler[p].locks
      BY <1>1, <1>3, <2>1, <3>1 DEF Unlocked
    <3> QED BY <2>1, <3>1, <3>2 DEF JobsTyped
  <2>2. CASE q # p /\ r = p
    <3>1. handler[q].locks
      BY <1>1, <1>3, <2>2
    <3>2. handler[p].locks
      BY <1>1, <1>3, <2>2, <3>1 DEF Unlocked
    <3> QED BY <2>2, <3>1, <3>2 DEF JobsTyped
  <2>3. CASE q # p /\ r # p
    BY <1>1, <1>3, <2>3 DEF JobsTyped
  <2> QED BY <2>1, <2>2, <2>3
<1> QED BY <1>1, <1>2, <1>3 DEF JobsTyped

LEMMA LinesWritten ==
    ASSUME LinesTyped, JobsReal, NEW p \in Handlers, handler[p] \in Job,
           line' = Written(line, handler[p]), UNCHANGED <<lastAt, taken>>
    PROVE  LinesTyped'
<1>1. handler[p].op # "send" => line[handler[p].of] # NoLine
  BY LiveKinds DEF JobsReal
<1>2. /\ DOMAIN line' = LineIds
      /\ \A t \in LineIds : line'[t] = NoLine \/ line'[t] \in Line
  BY <1>1, WrittenElse DEF LinesTyped
<1> QED BY <1>2 DEF LinesTyped

LEMMA VisibleLines == ASSUME NEW rows PROVE Public(rows) \subseteq LineIds /\ Visible(rows) \subseteq LineIds
BY DEF Public, Visible

LEMMA LastMessage ==
    ASSUME NEW rows
    PROVE  last_message(rows) \in Visible(rows) \cup {0} /\ last_message(rows) \in 0 .. MaxLines
<1>1. Visible(rows) \cup {0} \in SUBSET (0 .. MaxLines) /\ Visible(rows) \cup {0} # {}
  BY LinesAssumption, VisibleLines DEF LineIds
<1>2. Max(Visible(rows) \cup {0}) \in Visible(rows) \cup {0}
  BY <1>1, LinesAssumption, Greatest
<1> QED BY <1>1, <1>2 DEF last_message

LEMMA BadgeType == ASSUME NEW rows, NEW u PROVE unread_count(rows, u) \in 0 .. MaxLines
<1> DEFINE unread == {t \in Public(rows) : rows[t].by # u /\ ~rows[t].read}
<1>1. unread \subseteq LineIds
  BY VisibleLines
<1>2. IsFiniteSet(LineIds) /\ Cardinality(LineIds) = MaxLines
  BY LinesAssumption, FS_Interval DEF LineIds
<1>3. IsFiniteSet(unread) /\ Cardinality(unread) <= MaxLines
  <2> HIDE DEF unread
  <2> QED BY <1>1, <1>2, FS_Subset
<1>4. Cardinality(unread) \in Nat
  BY <1>3, FS_CardinalityType
<1>5. Cardinality(unread) \in 0 .. MaxLines
  BY <1>3, <1>4, LinesAssumption
<1> QED BY <1>5 DEF unread_count

LEMMA PreviewType ==
    ASSUME NEW rows, DOMAIN rows = LineIds,
           \A t \in LineIds : rows[t] = NoLine \/ rows[t] \in Line
    PROVE  message_preview(rows) \in (0 .. MaxLines) \X BOOLEAN
<1> DEFINE t == last_message(rows)
<1>1. t \in Visible(rows) \cup {0} /\ t \in 0 .. MaxLines
  BY LastMessage
<1> HIDE DEF t
<1>2. (t # 0 /\ rows[t].edited) \in BOOLEAN
  BY <1>1 DEF Visible, Public, Line
<1>3. <<t, t # 0 /\ rows[t].edited>> \in (0 .. MaxLines) \X BOOLEAN
  BY <1>1, <1>2
<1> QED BY <1>3 DEF t, message_preview

LEMMA LiveInitInv == LiveInit => LiveInv
<1> SUFFICES ASSUME LiveInit PROVE LiveInv
  OBVIOUS
<1>1. LinesTyped
  BY LinesAssumption DEF LiveInit, LinesTyped
<1>2. DOMAIN handler = Handlers /\ \A p \in Handlers : handler[p] = NoJob
  BY DEF LiveInit
<1>3. JobsTyped /\ JobsReal
  BY <1>1, <1>2, LiveKinds DEF JobsTyped, JobsReal, LiveInit
<1>4. ASSUME NEW u \in Sides PROVE window[u] \in Window /\ inbox[u] \in Inbox
  <2>1. window[u] = [wire |-> "none", shown |-> {}, ticks |-> {}, doubtful |-> {}]
    BY DEF LiveInit
  <2>2. inbox[u] = [wire |-> "none", badge |-> 0, preview |-> <<0, FALSE>>, vague |-> FALSE, hazy |-> FALSE]
    BY DEF LiveInit
  <2>3. 0 \in 0 .. MaxLines
    BY LinesAssumption
  <2>6. <<0, FALSE>> \in (0 .. MaxLines) \X BOOLEAN
    BY <2>3
  <2>4. window[u] \in Window
    BY <2>1 DEF Window, Wire
  <2>5. inbox[u] \in Inbox
    BY <2>2, <2>3, <2>6 DEF Inbox, Wire
  <2> QED BY <2>4, <2>5
<1>5. ScreensTyped
  BY <1>4 DEF ScreensTyped, LiveInit
<1>6. ThreadInv /\ InboxInv
  BY DEF ThreadInv, InboxInv, LiveInit
<1> QED BY <1>1, <1>3, <1>5, <1>6 DEF LiveInv

-----------------------------------------------------------------------------
\* What the handlers do to the messages and to each other

LEMMA LinesKept == ASSUME LinesTyped, UNCHANGED <<line, lastAt, taken>> PROVE LinesTyped'
BY DEF LinesTyped

LEMMA ScreensKept == ASSUME ScreensTyped, UNCHANGED <<window, inbox>> PROVE ScreensTyped'
BY DEF ScreensTyped

\* Nothing but the screens changes.
LEMMA JobsKept ==
    ASSUME LinesTyped, JobsTyped, JobsReal, UNCHANGED <<line, lastAt, taken, handler>>
    PROVE  LinesTyped' /\ JobsTyped' /\ JobsReal'
BY DEF LinesTyped, JobsTyped, JobsReal

\* A handler takes a step with the message it is at.
LEMMA JobStays ==
    ASSUME JobsTyped, JobsReal, NEW p \in Handlers, NEW j \in Job, handler[p] \in Job,
           handler' = [handler EXCEPT ![p] = j], UNCHANGED <<line, taken>>,
           j.op = handler[p].op, j.of = handler[p].of, j.by = handler[p].by,
           j.over = handler[p].over, j.step # "begun",
           j.op = "receipt" /\ j.step \in {"announced", "pushed"} => j.over
    PROVE  JobsReal'
<1>1. handler'[p] = j /\ \A q \in Handlers \ {p} : handler'[q] = handler[q]
  BY DEF JobsTyped
<1>2. \A q \in Handlers : handler'[q].op = handler[q].op /\ handler'[q].of = handler[q].of
  BY <1>1
<1>3. \A t \in LineIds : t > taken' => line'[t] = NoLine
  BY DEF JobsReal
<1>4. ASSUME NEW q \in Handlers, handler'[q] # NoJob
      PROVE  /\ handler'[q].over => handler'[q].op = "receipt" /\ handler'[q].step # "begun"
                                    /\ line'[handler'[q].of].read
             /\ handler'[q].op = "receipt" /\ handler'[q].step \in {"announced", "pushed"}
                   => handler'[q].over
             /\ IF handler'[q].op = "send"
                THEN line'[handler'[q].of] = NoLine /\ handler'[q].of <= taken'
                ELSE line'[handler'[q].of] # NoLine
             /\ handler'[q].op \in {"read", "receipt"} => line'[handler'[q].of].by # handler'[q].by
  <2>1. CASE q = p
    BY <1>1, <2>1, LiveKinds DEF JobsReal
  <2>2. CASE q # p
    BY <1>1, <1>4, <2>2 DEF JobsReal
  <2> QED BY <2>1, <2>2
<1> QED BY <1>2, <1>3, <1>4 DEF JobsReal

\* A handler is done, or its request rolls back.
LEMMA JobGone ==
    ASSUME JobsTyped, JobsReal, NEW p \in Handlers,
           handler' = [handler EXCEPT ![p] = NoJob], UNCHANGED <<line, taken>>
    PROVE  JobsReal'
<1>1. handler'[p] = NoJob /\ \A q \in Handlers \ {p} : handler'[q] = handler[q]
  BY DEF JobsTyped
<1>2. \A t \in LineIds : t > taken' => line'[t] = NoLine
  BY DEF JobsReal
<1> QED BY <1>1, <1>2, LiveKinds DEF JobsReal

\* What p writes leaves the messages of the others as real as they were.
LEMMA JobsWrite ==
    ASSUME LinesTyped, JobsTyped, JobsReal, NEW p \in Handlers, handler[p] \in Job,
           line' = Written(line, handler[p]), UNCHANGED taken,
           NEW q \in Handlers \ {p}, handler'[q] = handler[q], handler'[q] # NoJob
    PROVE  /\ handler'[q].over => handler'[q].op = "receipt" /\ handler'[q].step # "begun"
                                  /\ line'[handler'[q].of].read
           /\ handler'[q].op = "receipt" /\ handler'[q].step \in {"announced", "pushed"}
                 => handler'[q].over
           /\ IF handler'[q].op = "send"
              THEN line'[handler'[q].of] = NoLine /\ handler'[q].of <= taken'
              ELSE line'[handler'[q].of] # NoLine
           /\ handler'[q].op \in {"read", "receipt"} => line'[handler'[q].of].by # handler'[q].by
<1> DEFINE job == handler[p]
           its == handler[q]
<1>1. job # NoJob /\ its # NoJob /\ its \in Job /\ its.of \in LineIds /\ job.of \in LineIds
  BY LiveKinds DEF JobsTyped, Job
<1>2. job.op # "send" => line[job.of] # NoLine
  BY <1>1 DEF JobsReal
<1>3. \A t \in LineIds \ {job.of} : line'[t] = line[t]
  <2>1. DOMAIN line = LineIds /\ \A t \in LineIds : line[t] = NoLine \/ line[t] \in Line
    BY DEF LinesTyped
  <2> HIDE DEF job
  <2>2. job \in Job
    BY DEF job
  <2>3. \A t \in LineIds : t # job.of => Written(line, job)[t] = line[t]
    BY <1>2, <2>1, <2>2, WrittenElse
  <2>4. line' = Written(line, job)
    BY DEF job
  <2> QED BY <2>3, <2>4
<1>4. /\ line'[job.of] # NoLine
      /\ job.op # "send" =>
            /\ line'[job.of].by = line[job.of].by
            /\ job.op \notin {"read", "receipt"} => line'[job.of].read = line[job.of].read
      /\ job.op \in {"read", "receipt"} => line'[job.of].read
  BY <1>2, WrittenFields DEF LinesTyped
<1>5. its.of # job.of => line'[its.of] = line[its.of]
  BY <1>1, <1>3
<1>6. /\ its.over => its.op = "receipt" /\ its.step # "begun" /\ line[its.of].read
      /\ its.op = "receipt" /\ its.step \in {"announced", "pushed"} => its.over
      /\ IF its.op = "send" THEN line[its.of] = NoLine /\ its.of <= taken
         ELSE line[its.of] # NoLine
      /\ its.op \in {"read", "receipt"} => line[its.of].by # its.by
  BY <1>1 DEF JobsReal
<1>7. its.of = job.of => job.op # "send" /\ its.op # "send"
  <2> SUFFICES ASSUME its.of = job.of PROVE job.op # "send" /\ its.op # "send"
    OBVIOUS
  <2>1. ~(job.op = "send" /\ its.op = "send")
    BY DEF JobsReal
  <2>2. job.op = "send" => line[job.of] = NoLine
    BY <1>1 DEF JobsReal
  <2> QED BY <1>2, <1>6, <2>1, <2>2
<1>8. CASE its.of # job.of
  BY <1>5, <1>6, <1>8
<1>9. CASE its.of = job.of
  <2>1. /\ line'[its.of] # NoLine
        /\ line'[its.of].by = line[its.of].by
        /\ line[its.of].read => line'[its.of].read
    BY <1>4, <1>7, <1>9
  <2> HIDE DEF its, job
  <2>2. handler'[q] = its
    BY DEF its
  <2> QED BY <1>6, <1>7, <1>9, <2>1, <2>2
<1> QED BY <1>8, <1>9

\* What is committed stays within the messages that were taken.
LEMMA TakenWrite ==
    ASSUME LinesTyped, JobsReal, NEW p \in Handlers, handler[p] \in Job,
           line' = Written(line, handler[p]), UNCHANGED taken
    PROVE  \A t \in LineIds : t > taken' => line'[t] = NoLine
<1> DEFINE job == handler[p]
<1>1. job # NoJob /\ job.of \in LineIds
  BY LiveKinds DEF Job
<1>2. job.op # "send" => line[job.of] # NoLine
  BY <1>1 DEF JobsReal
<1>3. \A t \in LineIds \ {job.of} : line'[t] = line[t]
  <2>1. DOMAIN line = LineIds /\ \A t \in LineIds : line[t] = NoLine \/ line[t] \in Line
    BY DEF LinesTyped
  <2> HIDE DEF job
  <2>2. job \in Job
    BY DEF job
  <2>3. \A t \in LineIds : t # job.of => Written(line, job)[t] = line[t]
    BY <1>2, <2>1, <2>2, WrittenElse
  <2>4. line' = Written(line, job)
    BY DEF job
  <2> QED BY <2>3, <2>4
<1>4. ~(job.of > taken)
  BY <1>1, <1>2, LinesAssumption DEF JobsReal, LineIds, LinesTyped
<1> QED BY <1>3, <1>4 DEF JobsReal

LEMMA JobsAre ==
    ASSUME JobsTyped, NEW p \in Handlers
    PROVE  /\ handler[p] # NoJob => handler[p] \in Job
           /\ handler[p].step # "idle" => handler[p] \in Job
           /\ handler[p].over => handler[p] \in Job
           /\ Pending(p) => handler[p] \in Job
           /\ PushedOnly(p) => handler[p] \in Job
BY LiveKinds DEF JobsTyped, Pending, PushedOnly

\* A window, or the inboxes, change.
LEMMA WindowMoves ==
    ASSUME ScreensTyped, DOMAIN window' = Sides, \A u \in Sides : window'[u] \in Window, UNCHANGED inbox
    PROVE  ScreensTyped'
BY DEF ScreensTyped

LEMMA InboxMoves ==
    ASSUME ScreensTyped, DOMAIN inbox' = Sides, \A u \in Sides : inbox'[u] \in Inbox, UNCHANGED window
    PROVE  ScreensTyped'
BY DEF ScreensTyped

LEMMA OpenWindowTypes ==
    ASSUME LiveInv, NEW u \in Sides, OpenWindow(u)
    PROVE  LinesTyped' /\ JobsTyped' /\ ScreensTyped' /\ JobsReal'
<1> USE DEF LiveInv
<1>1. LinesTyped' /\ JobsTyped' /\ JobsReal'
  BY JobsKept DEF OpenWindow
<1> DEFINE fresh == [wire |-> "open", shown |-> Visible(line),
                     ticks |-> {t \in Visible(line) : line[t].read},
                     doubtful |-> {handler[p].of : p \in {q \in Handlers : Pending(q)}}]
<1>2. fresh \in Window
  <2>1. {handler[p].of : p \in {q \in Handlers : Pending(q)}} \subseteq LineIds
    BY JobsAre DEF Job
  <2>2. Visible(line) \subseteq LineIds
    BY VisibleLines
  <2> QED BY <2>1, <2>2 DEF Window, Wire
<1> HIDE DEF fresh
<1>3. window' = [window EXCEPT ![u] = fresh] /\ UNCHANGED inbox
  BY DEF OpenWindow, fresh
<1>4. DOMAIN window' = Sides /\ \A s \in Sides : window'[s] \in Window
  BY <1>2, <1>3 DEF ScreensTyped
<1> QED BY <1>1, <1>3, <1>4, WindowMoves

LEMMA OpenInboxTypes ==
    ASSUME LiveInv, NEW u \in Sides, OpenInbox(u)
    PROVE  LinesTyped' /\ JobsTyped' /\ ScreensTyped' /\ JobsReal'
<1> USE DEF LiveInv
<1>1. LinesTyped' /\ JobsTyped' /\ JobsReal'
  BY JobsKept DEF OpenInbox
<1> DEFINE early == \E p \in Handlers : PushedOnly(p)
           fresh == [wire |-> "open", badge |-> unread_count(line, u), preview |-> message_preview(line),
                     vague |-> early, hazy |-> early]
<1>2. fresh \in Inbox
  <2>1. unread_count(line, u) \in 0 .. MaxLines
    BY BadgeType
  <2>2. message_preview(line) \in (0 .. MaxLines) \X BOOLEAN
    BY PreviewType DEF LinesTyped
  <2>3. early \in BOOLEAN
    OBVIOUS
  <2> HIDE DEF early
  <2> QED BY <2>1, <2>2, <2>3 DEF Inbox, Wire
<1> HIDE DEF fresh
<1>3. inbox' = [inbox EXCEPT ![u] = fresh] /\ UNCHANGED window
  BY DEF OpenInbox, fresh
<1>4. DOMAIN inbox' = Sides /\ \A s \in Sides : inbox'[s] \in Inbox
  BY <1>2, <1>3 DEF ScreensTyped
<1> QED BY <1>1, <1>3, <1>4, InboxMoves

LEMMA LeaveTypes ==
    ASSUME LiveInv, NEW u \in Sides, Leave(u)
    PROVE  LinesTyped' /\ JobsTyped' /\ ScreensTyped' /\ JobsReal'
<1> USE DEF LiveInv
<1>1. LinesTyped' /\ JobsTyped' /\ JobsReal'
  BY JobsKept DEF Leave
<1>2. PICK wire \in {"none", "dead"} :
         \/ window' = [window EXCEPT ![u].wire = wire] /\ UNCHANGED inbox
         \/ inbox' = [inbox EXCEPT ![u].wire = wire] /\ UNCHANGED window
  BY DEF Leave
<1>3. CASE window' = [window EXCEPT ![u].wire = wire] /\ UNCHANGED inbox
  <2>1. [window[u] EXCEPT !.wire = wire] \in Window
    BY DEF ScreensTyped, Window, Wire
  <2>2. DOMAIN window' = Sides /\ \A s \in Sides : window'[s] \in Window
    BY <1>3, <2>1 DEF ScreensTyped
  <2> QED BY <1>1, <1>3, <2>2, WindowMoves
<1>4. CASE inbox' = [inbox EXCEPT ![u].wire = wire] /\ UNCHANGED window
  <2>1. [inbox[u] EXCEPT !.wire = wire] \in Inbox
    BY DEF ScreensTyped, Inbox, Wire
  <2>2. DOMAIN inbox' = Sides /\ \A s \in Sides : inbox'[s] \in Inbox
    BY <1>4, <2>1 DEF ScreensTyped
  <2> QED BY <1>1, <1>4, <2>2, InboxMoves
<1> QED BY <1>2, <1>3, <1>4

LEMMA ReceiveTypes ==
    ASSUME LiveInv, NEW p \in Handlers, NEW op \in {"send", "edit", "delete", "read", "receipt"},
           NEW u \in Sides, NEW t \in LineIds, Receive(p, op, u, t)
    PROVE  LinesTyped' /\ JobsTyped' /\ ScreensTyped' /\ JobsReal'
<1> USE DEF LiveInv
<1> DEFINE j == [op |-> op, of |-> t, by |-> u, step |-> "begun", over |-> FALSE,
                 last |-> lastAt, locks |-> FALSE]
<1>1. /\ handler[p] = NoJob /\ handler' = [handler EXCEPT ![p] = j]
      /\ UNCHANGED <<line, lastAt, window, inbox>>
      /\ IF op = "send" THEN t = taken + 1 /\ taken' = t
         ELSE line[t] # NoLine /\ MayDo(op, u, line[t]) /\ UNCHANGED taken
  BY DEF Receive
<1>2. j \in Job /\ ~j.locks
  BY DEF Job, LinesTyped
<1>3. j.op = op /\ j.of = t /\ j.by = u /\ j.step = "begun" /\ ~j.over
  OBVIOUS
<1> HIDE DEF j
<1>4. JobsTyped' /\ handler'[p] = j /\ \A q \in Handlers \ {p} : handler'[q] = handler[q]
  BY <1>1, <1>2, JobMoves
<1>5. LinesTyped'
  BY <1>1, LinesAssumption DEF LinesTyped, LineIds
<1>6. ScreensTyped'
  BY <1>1, ScreensKept
<1>7. taken <= taken' /\ taken \in Nat /\ taken' \in Nat
  BY <1>1, LinesAssumption DEF LinesTyped
<1>8. \A s \in LineIds : s > taken' => line'[s] = NoLine
  BY <1>1, <1>7 DEF JobsReal, LineIds
<1>9. op \in {"read", "receipt"} => line[t].by # u
  BY <1>1 DEF MayDo
<1>10. IF op = "send" THEN line[t] = NoLine /\ t <= taken' ELSE line[t] # NoLine
  BY <1>1, <1>7 DEF JobsReal, LineIds
<1>11. ASSUME NEW q \in Handlers, handler'[q] # NoJob
       PROVE  /\ handler'[q].over => handler'[q].op = "receipt" /\ handler'[q].step # "begun"
                                     /\ line'[handler'[q].of].read
              /\ handler'[q].op = "receipt" /\ handler'[q].step \in {"announced", "pushed"}
                    => handler'[q].over
              /\ IF handler'[q].op = "send"
                 THEN line'[handler'[q].of] = NoLine /\ handler'[q].of <= taken'
                 ELSE line'[handler'[q].of] # NoLine
              /\ handler'[q].op \in {"read", "receipt"} => line'[handler'[q].of].by # handler'[q].by
  <2>1. CASE q = p
    BY <1>1, <1>3, <1>4, <1>9, <1>10, <2>1
  <2>2. CASE q # p
    <3>1. handler'[q] = handler[q] /\ handler[q] # NoJob
      BY <1>4, <1>11, <2>2
    <3>2. handler[q].of \in LineIds
      BY <3>1, JobsAre DEF Job
    <3>3. handler[q].of <= taken => handler[q].of <= taken'
      BY <1>7, <3>2 DEF LineIds
    <3> QED BY <1>1, <3>1, <3>3 DEF JobsReal
  <2> QED BY <2>1, <2>2
<1>12. ASSUME NEW q \in Handlers, NEW r \in Handlers, handler'[q].op = "send",
              handler'[r].op = "send", handler'[q].of = handler'[r].of
       PROVE  q = r
  <2>1. ASSUME NEW s \in Handlers, s # p, handler'[s].op = "send" PROVE handler'[s].of <= taken
    <3>1. handler'[s] = handler[s] /\ handler[s] # NoJob
      BY <1>4, <2>1, LiveKinds
    <3> QED BY <2>1, <3>1 DEF JobsReal
  <2>2. handler'[p].op = "send" => handler'[p].of = taken + 1
    BY <1>1, <1>3, <1>4
  <2>3. ASSUME NEW s \in Handlers, s # p, handler'[s].op = "send", handler'[p].op = "send"
        PROVE  handler'[s].of # handler'[p].of
    <3>1. handler'[s].of <= taken
      BY <2>1, <2>3
    <3> QED BY <1>7, <2>2, <2>3, <3>1
  <2>4. CASE q # p /\ r # p
    BY <1>4, <1>12, <2>4 DEF JobsReal
  <2> QED BY <1>12, <2>3, <2>4
<1> QED BY <1>4, <1>5, <1>6, <1>8, <1>11, <1>12 DEF JobsReal

\* What reaches the open windows
LEMMA Broadcast ==
    ASSUME NEW told, NEW to, broadcast(told, to)
    PROVE  /\ DOMAIN window' = Sides
           /\ \A s \in Sides :
                 window'[s] = IF s \notin to THEN window[s]
                              ELSE IF window[s].wire = "open" THEN told[s]
                              ELSE [window[s] EXCEPT !.wire = "none"]
BY DEF broadcast

LEMMA SendUsers ==
    ASSUME NEW told, NEW to, send_users(told, to)
    PROVE  /\ DOMAIN inbox' = Sides
           /\ \A s \in Sides :
                 inbox'[s] = IF s \notin to THEN inbox[s]
                             ELSE IF inbox[s].wire = "open" THEN told[s]
                             ELSE [inbox[s] EXCEPT !.wire = "none"]
BY DEF send_users

LEMMA FlushTypes ==
    ASSUME LiveInv, NEW p \in Handlers, FlushLine(p)
    PROVE  LinesTyped' /\ JobsTyped' /\ ScreensTyped' /\ JobsReal'
<1> USE DEF LiveInv
<1>1. handler[p] \in Job /\ handler[p].step = "begun" /\ UNCHANGED <<line, lastAt, taken, window, inbox>>
  BY JobsAre DEF FlushLine
<1>2. PICK held \in BOOLEAN : held = (handler[p].op = "send")
  OBVIOUS
<1> DEFINE j == [handler[p] EXCEPT !.step = "flushed", !.locks = held]
<1>3. handler' = [handler EXCEPT ![p] = j] /\ (held => Unlocked)
  BY <1>2 DEF FlushLine
<1>4. /\ j \in Job /\ j.step = "flushed" /\ j.locks = held
      /\ j.op = handler[p].op /\ j.of = handler[p].of /\ j.by = handler[p].by /\ j.over = handler[p].over
  BY <1>1, <1>2 DEF Job
<1> HIDE DEF j
<1>5. JobsTyped'
  BY <1>3, <1>4, JobMoves
<1>6. JobsReal'
  BY <1>1, <1>3, <1>4, JobStays
<1> QED BY <1>1, <1>5, <1>6, LinesKept, ScreensKept

LEMMA ReceiptTypes ==
    ASSUME LiveInv, NEW p \in Handlers, CommitReceipt(p)
    PROVE  LinesTyped' /\ JobsTyped' /\ ScreensTyped' /\ JobsReal'
<1> USE DEF LiveInv
<1>1. /\ handler[p] \in Job /\ handler[p].op = "receipt" /\ handler[p].step = "flushed"
      /\ line' = Written(line, handler[p]) /\ UNCHANGED <<lastAt, taken, window, inbox>>
  BY JobsAre DEF CommitReceipt
<1> DEFINE j == [handler[p] EXCEPT !.over = TRUE]
<1>2. /\ j \in Job /\ j.over /\ j.step = "flushed" /\ j.op = "receipt" /\ j.of = handler[p].of
      /\ j.by = handler[p].by /\ j.locks = handler[p].locks
  BY <1>1 DEF Job
<1>3. handler' = [handler EXCEPT ![p] = j]
  BY DEF CommitReceipt
<1> HIDE DEF j
<1>4. JobsTyped' /\ handler'[p] = j /\ \A q \in Handlers \ {p} : handler'[q] = handler[q]
  BY <1>2, <1>3, JobMoves
<1>5. LinesTyped'
  BY <1>1, LinesWritten
<1>6. \A t \in LineIds : t > taken' => line'[t] = NoLine
  BY <1>1, TakenWrite
<1>7. /\ line'[j.of] # NoLine /\ line'[j.of].read /\ line'[j.of].by = line[j.of].by
      /\ line[j.of].by # j.by
  <2>1. line[j.of] # NoLine /\ line[j.of].by # j.by
    BY <1>1, <1>2, LiveKinds DEF JobsReal
  <2>2. DOMAIN line = LineIds /\ \A t \in LineIds : line[t] = NoLine \/ line[t] \in Line
    BY DEF LinesTyped
  <2>3. LET w == Written(line, handler[p]) IN
        w[j.of] # NoLine /\ w[j.of].read /\ w[j.of].by = line[j.of].by
    BY <1>1, <1>2, <2>1, <2>2, WrittenFields
  <2> QED BY <1>1, <2>1, <2>3
<1>8. ASSUME NEW q \in Handlers, handler'[q] # NoJob
      PROVE  /\ handler'[q].over => handler'[q].op = "receipt" /\ handler'[q].step # "begun"
                                    /\ line'[handler'[q].of].read
             /\ handler'[q].op = "receipt" /\ handler'[q].step \in {"announced", "pushed"}
                   => handler'[q].over
             /\ IF handler'[q].op = "send"
                THEN line'[handler'[q].of] = NoLine /\ handler'[q].of <= taken'
                ELSE line'[handler'[q].of] # NoLine
             /\ handler'[q].op \in {"read", "receipt"} => line'[handler'[q].of].by # handler'[q].by
  <2>1. CASE q = p
    BY <1>2, <1>4, <1>7, <2>1
  <2>2. CASE q # p
    <3>1. q \in Handlers \ {p} /\ handler'[q] = handler[q]
      BY <1>4, <2>2
    <3> QED BY <1>1, <1>8, <3>1, JobsWrite
  <2> QED BY <2>1, <2>2
<1>9. \A q \in Handlers : handler'[q].op = handler[q].op /\ handler'[q].of = handler[q].of
  BY <1>1, <1>2, <1>4
<1>10. \A q, r \in Handlers :
          handler'[q].op = "send" /\ handler'[r].op = "send" /\ handler'[q].of = handler'[r].of => q = r
  BY <1>9 DEF JobsReal
<1> QED BY <1>1, <1>4, <1>5, <1>6, <1>8, <1>10, ScreensKept DEF JobsReal

LEMMA AnnounceTypes ==
    ASSUME LiveInv, NEW p \in Handlers, Announce(p)
    PROVE  LinesTyped' /\ JobsTyped' /\ ScreensTyped' /\ JobsReal'
<1> USE DEF LiveInv
<1> DEFINE job == handler[p]
           frame(w) == CASE job.op = "send"   -> [w EXCEPT !.shown = @ \cup {job.of}]
                      [] job.op = "edit"   -> w
                      [] job.op = "delete" -> [w EXCEPT !.shown = @ \ {job.of}, !.ticks = @ \ {job.of}]
                      [] job.op \in {"read", "receipt"} ->
                            [w EXCEPT !.ticks = @ \cup ({job.of} \cap w.shown)]
           j == [handler[p] EXCEPT !.step = "announced"]
<1>1. /\ job \in Job /\ job.step = "flushed" /\ (job.op = "receipt" => job.over)
      /\ UNCHANGED <<line, lastAt, taken, inbox>> /\ handler' = [handler EXCEPT ![p] = j]
  BY JobsAre DEF Announce
<1>2. /\ j \in Job /\ j.step = "announced" /\ j.op = job.op /\ j.of = job.of /\ j.by = job.by
      /\ j.over = job.over /\ j.locks = job.locks
  BY <1>1 DEF Job
<1> HIDE DEF j
<1>3. JobsTyped'
  BY <1>1, <1>2, JobMoves
<1>4. JobsReal'
  BY <1>1, <1>2, JobStays
<1>5. \A w \in Window : frame(w) \in Window
  <2>1. job.of \in LineIds /\ job.op \in {"send", "edit", "delete", "read", "receipt"}
    BY <1>1 DEF Job
  <2> HIDE DEF job
  <2> QED BY <2>1 DEF Window
<1> DEFINE told == [s \in Sides |-> frame(window[s])]
           to == IF job.op = "receipt" THEN {Counterpart(job.by)} ELSE Sides
<1>6. broadcast(told, to)
  BY DEF Announce
<1> HIDE DEF frame, to, told
<1>7. /\ DOMAIN window' = Sides
      /\ \A s \in Sides :
             window'[s] = IF s \notin to THEN window[s]
                          ELSE IF window[s].wire = "open" THEN told[s]
                          ELSE [window[s] EXCEPT !.wire = "none"]
  BY <1>6, Broadcast
<1>8. ASSUME NEW s \in Sides PROVE window'[s] \in Window
  <2>1. [window[s] EXCEPT !.wire = "none"] \in Window
    BY DEF ScreensTyped, Window, Wire
  <2>2. told[s] = frame(window[s])
    BY DEF told
  <2> QED BY <1>5, <1>7, <2>1, <2>2 DEF ScreensTyped
<1>9. DOMAIN window' = Sides
  BY <1>7
<1> QED BY <1>1, <1>3, <1>4, <1>8, <1>9, LinesKept, WindowMoves

LEMMA AsReadTyped ==
    ASSUME LinesTyped, JobsReal, NEW p \in Handlers, handler[p] \in Job
    PROVE  /\ DOMAIN AsRead(p) = LineIds
           /\ \A t \in LineIds : AsRead(p)[t] = NoLine \/ AsRead(p)[t] \in Line
<1>1. handler[p].op # "send" => line[handler[p].of] # NoLine
  BY LiveKinds DEF JobsReal
<1>2. DOMAIN line = LineIds /\ \A t \in LineIds : line[t] = NoLine \/ line[t] \in Line
  BY DEF LinesTyped
<1>3. LET w == Written(line, handler[p]) IN
      DOMAIN w = LineIds /\ \A t \in LineIds : w[t] = NoLine \/ w[t] \in Line
  BY <1>1, <1>2, WrittenElse
<1>4. CASE handler[p].over
  BY <1>2, <1>4 DEF AsRead
<1>5. CASE ~handler[p].over
  BY <1>3, <1>5 DEF AsRead
<1> QED BY <1>4, <1>5

LEMMA PushTypes ==
    ASSUME LiveInv, NEW p \in Handlers, PushInbox(p)
    PROVE  LinesTyped' /\ JobsTyped' /\ ScreensTyped' /\ JobsReal'
<1> USE DEF LiveInv
<1> DEFINE job == handler[p]
           rows == AsRead(p)
           moves == job.op = "delete" /\ last_message(rows) # job.last
           unseen == \E q \in Handlers \ {p} : PushedOnly(q)
           counted(i, u) == [i EXCEPT !.badge = unread_count(rows, u), !.vague = unseen]
           late == unseen \/ job.of # last_message(rows)
           frame(i, u) ==
            CASE job.op \in {"read", "receipt"} -> counted(i, u)
              [] job.op = "send" -> [counted(i, u) EXCEPT !.preview = <<job.of, FALSE>>, !.hazy = late]
              [] job.op \in {"edit", "delete"} -> [counted(i, u) EXCEPT
                     !.preview = message_preview(rows), !.hazy = unseen]
<1>1. /\ job \in Job /\ job.step = "announced" /\ UNCHANGED <<line, lastAt, taken, window>>
      /\ (moves => Unlocked)
  BY JobsAre DEF PushInbox
<1>2. PICK held \in BOOLEAN : held = (job.locks \/ moves)
  OBVIOUS
<1> DEFINE j == [handler[p] EXCEPT !.step = "pushed", !.locks = held]
<1>3. handler' = [handler EXCEPT ![p] = j]
  BY <1>2 DEF PushInbox
<1>4. /\ j \in Job /\ j.step = "pushed" /\ j.locks = held
      /\ j.op = handler[p].op /\ j.of = handler[p].of /\ j.by = handler[p].by /\ j.over = handler[p].over
  BY <1>1, <1>2 DEF Job
<1> HIDE DEF j
<1>5. JobsTyped'
  BY <1>1, <1>2, <1>3, <1>4, JobMoves
<1>6. JobsReal'
  <2>1. job.op = "receipt" => job.over
    BY <1>1, LiveKinds DEF JobsReal
  <2> QED BY <1>1, <1>3, <1>4, <2>1, JobStays
<1> DEFINE told == [u \in Sides |-> frame(inbox[u], u)]
<1>7. send_users(told, Participants(job))
  BY DEF PushInbox
<1>8. /\ \A u : unread_count(rows, u) \in 0 .. MaxLines
      /\ message_preview(rows) \in (0 .. MaxLines) \X BOOLEAN
  BY <1>1, BadgeType, PreviewType, AsReadTyped
<1>9. job.of \in 0 .. MaxLines /\ job.op \in {"send", "edit", "delete", "read", "receipt"}
  BY <1>1, LinesAssumption DEF Job, LineIds
<1>10. <<job.of, FALSE>> \in (0 .. MaxLines) \X BOOLEAN
  BY <1>9
<1>11. unseen \in BOOLEAN /\ late \in BOOLEAN
  OBVIOUS
<1>12. ASSUME NEW u \in Sides, NEW i \in Inbox PROVE frame(i, u) \in Inbox
  <2> DEFINE n == unread_count(rows, u)
             m == message_preview(rows)
             own == <<job.of, FALSE>>
  <2>1. n \in 0 .. MaxLines /\ m \in (0 .. MaxLines) \X BOOLEAN /\ own \in (0 .. MaxLines) \X BOOLEAN
    BY <1>8, <1>10
  <2> HIDE DEF unseen, late, n, m, own
  <2>2. counted(i, u) \in Inbox
    <3>1. counted(i, u) = [i EXCEPT !.badge = n, !.vague = unseen]
      BY DEF n
    <3> QED BY <1>11, <2>1, <3>1 DEF Inbox
  <2> DEFINE c == counted(i, u)
  <2> HIDE DEF c
  <2>3. c \in Inbox
    BY <2>2 DEF c
  <2>4. frame(i, u) = CASE job.op \in {"read", "receipt"} -> c
              [] job.op = "send" -> [c EXCEPT !.preview = own, !.hazy = late]
              [] job.op \in {"edit", "delete"} -> [c EXCEPT !.preview = m, !.hazy = unseen]
    BY DEF c, own, m
  <2>5. [c EXCEPT !.preview = own, !.hazy = late] \in Inbox
        /\ [c EXCEPT !.preview = m, !.hazy = unseen] \in Inbox
    BY <1>11, <2>1, <2>3 DEF Inbox
  <2> HIDE DEF frame
  <2> QED BY <1>9, <2>3, <2>4, <2>5
<1> HIDE DEF frame, told
<1>13. /\ DOMAIN inbox' = Sides
      /\ \A s \in Sides :
             inbox'[s] = IF s \notin Participants(job) THEN inbox[s]
                         ELSE IF inbox[s].wire = "open" THEN told[s]
                         ELSE [inbox[s] EXCEPT !.wire = "none"]
  BY <1>7, SendUsers
<1>14. ASSUME NEW u \in Sides PROVE inbox'[u] \in Inbox
  <2>1. [inbox[u] EXCEPT !.wire = "none"] \in Inbox
    BY DEF ScreensTyped, Inbox, Wire
  <2>2. told[u] = frame(inbox[u], u)
    BY DEF told
  <2> QED BY <1>13, <1>12, <2>1, <2>2 DEF ScreensTyped
<1>15. DOMAIN inbox' = Sides
  BY <1>13
<1> QED BY <1>1, <1>5, <1>6, <1>14, <1>15, LinesKept, InboxMoves

LEMMA CommitTypes ==
    ASSUME LiveInv, NEW p \in Handlers, CommitJob(p)
    PROVE  LinesTyped' /\ JobsTyped' /\ ScreensTyped' /\ JobsReal'
<1> USE DEF LiveInv
<1> DEFINE job == handler[p]
<1>1. /\ job \in Job /\ job.step = "pushed" /\ UNCHANGED <<taken, window, inbox>>
      /\ line' = (IF job.over THEN line ELSE Written(line, job))
      /\ handler' = [handler EXCEPT ![p] = NoJob]
  BY JobsAre DEF CommitJob
<1>2. JobsTyped' /\ handler'[p] = NoJob /\ \A q \in Handlers \ {p} : handler'[q] = handler[q]
  BY <1>1, LiveKinds, JobMoves
<1>3. lastAt' \in 0 .. MaxLines
  <2>1. job.of \in 0 .. MaxLines
    BY <1>1, LinesAssumption DEF Job, LineIds
  <2>2. last_message(Written(line, job)) \in 0 .. MaxLines
    BY LastMessage
  <2>3. lastAt' = IF job.op = "send" THEN job.of
                  ELSE IF job.op = "delete" /\ job.locks THEN last_message(Written(line, job)) ELSE lastAt
    BY DEF CommitJob
  <2> QED BY <2>1, <2>2, <2>3 DEF LinesTyped
<1>4. CASE job.over
  <2>1. UNCHANGED <<line, taken>>
    BY <1>1, <1>4
  <2>2. JobsReal'
    BY <1>1, <2>1, JobGone
  <2>3. LinesTyped'
    BY <1>3, <2>1 DEF LinesTyped
  <2> QED BY <1>1, <1>2, <2>2, <2>3, ScreensKept
<1>5. CASE ~job.over
  <2>1. line' = Written(line, handler[p])
    BY <1>1, <1>5
  <2>2. handler[p].op # "send" => line[handler[p].of] # NoLine
    BY <1>1, LiveKinds DEF JobsReal
  <2>3. /\ DOMAIN line' = LineIds
        /\ \A t \in LineIds : line'[t] = NoLine \/ line'[t] \in Line
    BY <1>1, <2>1, <2>2, WrittenElse DEF LinesTyped
  <2>4. LinesTyped'
    BY <1>1, <1>3, <2>3 DEF LinesTyped
  <2>5. \A t \in LineIds : t > taken' => line'[t] = NoLine
    BY <1>1, <2>1, TakenWrite
  <2>6. ASSUME NEW q \in Handlers, handler'[q] # NoJob
        PROVE  /\ handler'[q].over => handler'[q].op = "receipt" /\ handler'[q].step # "begun"
                                      /\ line'[handler'[q].of].read
               /\ handler'[q].op = "receipt" /\ handler'[q].step \in {"announced", "pushed"}
                     => handler'[q].over
               /\ IF handler'[q].op = "send"
                  THEN line'[handler'[q].of] = NoLine /\ handler'[q].of <= taken'
                  ELSE line'[handler'[q].of] # NoLine
               /\ handler'[q].op \in {"read", "receipt"} => line'[handler'[q].of].by # handler'[q].by
    <3>1. q \in Handlers \ {p} /\ handler'[q] = handler[q]
      BY <1>2, <2>6
    <3> QED BY <1>1, <2>1, <2>6, <3>1, JobsWrite
  <2>7. \A q, r \in Handlers :
           handler'[q].op = "send" /\ handler'[r].op = "send" /\ handler'[q].of = handler'[r].of => q = r
    BY <1>2, LiveKinds DEF JobsReal
  <2>8. JobsReal'
    BY <2>5, <2>6, <2>7 DEF JobsReal
  <2> QED BY <1>1, <1>2, <2>4, <2>8, ScreensKept
<1> QED BY <1>4, <1>5

LEMMA AbortTypes ==
    ASSUME LiveInv, NEW p \in Handlers, AbortJob(p)
    PROVE  LinesTyped' /\ JobsTyped' /\ ScreensTyped' /\ JobsReal'
<1> USE DEF LiveInv
<1>1. /\ handler[p] \in Job /\ UNCHANGED <<line, lastAt, taken>>
      /\ handler' = [handler EXCEPT ![p] = NoJob]
  BY JobsAre DEF AbortJob
<1>2. JobsTyped'
  BY <1>1, LiveKinds, JobMoves
<1>3. JobsReal'
  BY <1>1, JobGone
<1>4. \A u \in Sides : [window[u] EXCEPT !.doubtful = @ \cup {handler[p].of}] \in Window
  BY <1>1 DEF ScreensTyped, Window, Job
<1>5. \A u \in Sides : [inbox[u] EXCEPT !.vague = TRUE, !.hazy = TRUE] \in Inbox
  BY DEF ScreensTyped, Inbox
<1>6. DOMAIN window' = Sides /\ \A u \in Sides : window'[u] \in Window
  BY <1>4 DEF AbortJob, ScreensTyped
<1>7. DOMAIN inbox' = Sides /\ \A u \in Sides : inbox'[u] \in Inbox
  BY <1>5 DEF AbortJob, ScreensTyped
<1>8. ScreensTyped'
  BY <1>6, <1>7 DEF ScreensTyped
<1> QED BY <1>1, <1>2, <1>3, <1>8, LinesKept

\* An administrator changes nothing of a message but whether it is there for the parties.
LEMMA ModeratedRow ==
    ASSUME LinesTyped, NEW t \in LineIds, NEW removed \in BOOLEAN, Moderated(t, removed)
    PROVE  /\ LinesTyped'
           /\ line[t] # NoLine /\ line'[t] # NoLine
           /\ line'[t].by = line[t].by /\ line'[t].read = line[t].read
           /\ \A s \in LineIds : s # t => line'[s] = line[s]
<1>1. line[t] \in Line /\ line' = [line EXCEPT ![t].removed = removed] /\ UNCHANGED <<lastAt, taken>>
  BY DEF Moderated, LinesTyped
<1>2. line'[t] = [line[t] EXCEPT !.removed = removed] /\ DOMAIN line' = LineIds
      /\ \A s \in LineIds : s # t => line'[s] = line[s]
  BY <1>1 DEF LinesTyped
<1>3. line'[t] \in Line /\ line'[t].by = line[t].by /\ line'[t].read = line[t].read
  BY <1>1, <1>2 DEF Line
<1>4. LinesTyped'
  BY <1>1, <1>2, <1>3 DEF LinesTyped
<1> QED BY <1>1, <1>2, <1>3, <1>4, LiveKinds

LEMMA ModeratedTypes ==
    ASSUME LiveInv, NEW t \in LineIds, NEW removed \in BOOLEAN, Moderated(t, removed)
    PROVE  LinesTyped' /\ JobsTyped' /\ ScreensTyped' /\ JobsReal'
<1> USE DEF LiveInv
<1>1. /\ LinesTyped'
      /\ line[t] # NoLine /\ line'[t] # NoLine
      /\ line'[t].by = line[t].by /\ line'[t].read = line[t].read
      /\ \A s \in LineIds : s # t => line'[s] = line[s]
  BY ModeratedRow
<1>2. UNCHANGED <<handler, taken>>
  BY DEF Moderated
<1>3. JobsTyped'
  BY <1>2 DEF JobsTyped
<1>4. \A s \in LineIds : /\ line'[s] = NoLine <=> line[s] = NoLine
                         /\ line'[s].by = line[s].by /\ line'[s].read = line[s].read
  BY <1>1
<1>5. \A s \in LineIds : s > taken' => line'[s] = NoLine
  BY <1>2, <1>4 DEF JobsReal
<1>6. ASSUME NEW q \in Handlers, handler'[q] # NoJob
      PROVE  /\ handler'[q].over => handler'[q].op = "receipt" /\ handler'[q].step # "begun"
                                    /\ line'[handler'[q].of].read
             /\ handler'[q].op = "receipt" /\ handler'[q].step \in {"announced", "pushed"}
                   => handler'[q].over
             /\ IF handler'[q].op = "send"
                THEN line'[handler'[q].of] = NoLine /\ handler'[q].of <= taken'
                ELSE line'[handler'[q].of] # NoLine
             /\ handler'[q].op \in {"read", "receipt"} => line'[handler'[q].of].by # handler'[q].by
  <2>1. handler[q] # NoJob /\ handler[q].of \in LineIds
    BY <1>2, <1>6, JobsAre DEF Job
  <2>2. handler'[q] = handler[q] /\ taken' = taken
    BY <1>2
  <2>3. /\ handler[q].over => handler[q].op = "receipt" /\ handler[q].step # "begun"
                               /\ line[handler[q].of].read
        /\ handler[q].op = "receipt" /\ handler[q].step \in {"announced", "pushed"} => handler[q].over
        /\ IF handler[q].op = "send" THEN line[handler[q].of] = NoLine /\ handler[q].of <= taken
           ELSE line[handler[q].of] # NoLine
        /\ handler[q].op \in {"read", "receipt"} => line[handler[q].of].by # handler[q].by
    BY <2>1 DEF JobsReal
  <2> QED BY <1>4, <2>1, <2>2, <2>3
<1>7. \A q, r \in Handlers :
         handler'[q].op = "send" /\ handler'[r].op = "send" /\ handler'[q].of = handler'[r].of => q = r
  BY <1>2 DEF JobsReal
<1>8. JobsReal'
  BY <1>5, <1>6, <1>7 DEF JobsReal
<1>9. \A u \in Sides : /\ [window[u] EXCEPT !.doubtful = @ \cup {t}] \in Window
                       /\ [inbox[u] EXCEPT !.vague = TRUE, !.hazy = TRUE] \in Inbox
  BY DEF ScreensTyped, Window, Inbox
<1>10. ScreensTyped'
  BY <1>9 DEF Moderated, ScreensTyped
<1> QED BY <1>1, <1>3, <1>8, <1>10

-----------------------------------------------------------------------------
\* The open threads

LEMMA VisibleIs ==
    ASSUME NEW rows, NEW t \in LineIds
    PROVE  t \in Visible(rows) <=> rows[t] # NoLine /\ ~rows[t].removed /\ ~rows[t].deleted
BY DEF Visible, Public

\* What is under way of a message is told by who has it.
LEMMA AheadElse ==
    ASSUME NEW p \in Handlers, \A q \in Handlers \ {p} : handler'[q] = handler[q], NEW t,
           \A op \in {"send", "delete", "read"} :
              Pending(p)' /\ handler'[p].op = op /\ handler'[p].of = t
                 <=> Pending(p) /\ handler[p].op = op /\ handler[p].of = t,
           handler'[p].over /\ handler'[p].step = "flushed" /\ handler'[p].of = t
              <=> handler[p].over /\ handler[p].step = "flushed" /\ handler[p].of = t
    PROVE  /\ \A op \in {"send", "delete", "read"} : Ahead(op, t)' <=> Ahead(op, t)
           /\ Late(t)' <=> Late(t)
<1>1. \A q \in Handlers \ {p} : Pending(q)' <=> Pending(q)
  BY DEF Pending
<1>2. ASSUME NEW op \in {"send", "delete", "read"} PROVE Ahead(op, t)' <=> Ahead(op, t)
  <2>1. \A q \in Handlers : Pending(q)' /\ handler'[q].op = op /\ handler'[q].of = t
                               <=> Pending(q) /\ handler[q].op = op /\ handler[q].of = t
    BY <1>1
  <2> QED BY <2>1 DEF Ahead
<1>3. \A q \in Handlers : handler'[q].over /\ handler'[q].step = "flushed" /\ handler'[q].of = t
                             <=> handler[q].over /\ handler[q].step = "flushed" /\ handler[q].of = t
  OBVIOUS
<1>4. Late(t)' <=> Late(t)
  BY <1>3 DEF Late
<1> QED BY <1>2, <1>4

\* A message nothing happened to is shown as it was.
LEMMA ThreadAt ==
    ASSUME NEW u \in Sides, NEW t \in LineIds, line'[t] = line[t],
           t \in window'[u].shown <=> t \in window[u].shown,
           t \in window'[u].ticks <=> t \in window[u].ticks,
           \A op \in {"send", "delete", "read"} : Ahead(op, t)' <=> Ahead(op, t),
           Late(t)' <=> Late(t),
           ShownInv(u, t), TicksInv(u, t)
    PROVE  ShownInv(u, t)' /\ TicksInv(u, t)'
<1>1. t \in Visible(line)' <=> t \in Visible(line)
  <2>1. t \in Visible(line)' <=> line'[t] # NoLine /\ ~line'[t].removed /\ ~line'[t].deleted
    BY VisibleIs
  <2> QED BY <2>1, VisibleIs
<1>2. /\ Ahead("send", t)' <=> Ahead("send", t)
      /\ Ahead("delete", t)' <=> Ahead("delete", t)
      /\ Ahead("read", t)' <=> Ahead("read", t)
  OBVIOUS
<1>3. ShownInv(u, t)'
  BY <1>1, <1>2 DEF ShownInv
<1>4. TicksInv(u, t)'
  BY <1>1, <1>2 DEF TicksInv
<1> QED BY <1>3, <1>4

\* Nothing that an open thread shows is under way differently.
LEMMA ThreadsKept ==
    ASSUME ThreadInv, UNCHANGED <<line, window>>,
           \A t \in LineIds : /\ \A op \in {"send", "delete", "read"} : Ahead(op, t)' <=> Ahead(op, t)
                              /\ Late(t)' <=> Late(t)
    PROVE  ThreadInv'
<1>1. ASSUME NEW u \in Sides, window'[u].wire = "open", NEW t \in LineIds \ window'[u].doubtful
      PROVE  ShownInv(u, t)' /\ TicksInv(u, t)'
  <2>1. ShownInv(u, t) /\ TicksInv(u, t)
    BY <1>1 DEF ThreadInv
  <2> QED BY <2>1, ThreadAt
<1>2. \A u \in Sides : window'[u].ticks \subseteq window'[u].shown
  BY DEF ThreadInv
<1> QED BY <1>1, <1>2 DEF ThreadInv

LEMMA OpenWindowThread ==
    ASSUME LiveInv, NEW u \in Sides, OpenWindow(u)
    PROVE  ThreadInv'
<1> USE DEF LiveInv
<1> DEFINE told == {handler[p].of : p \in {q \in Handlers : Pending(q)}}
           fresh == [wire |-> "open", shown |-> Visible(line),
                     ticks |-> {t \in Visible(line) : line[t].read}, doubtful |-> told]
<1>1. window' = [window EXCEPT ![u] = fresh] /\ UNCHANGED <<line, handler>>
  BY DEF OpenWindow
<1>2. \A t \in LineIds : /\ \A op \in {"send", "delete", "read"} : Ahead(op, t)' <=> Ahead(op, t)
                         /\ Late(t)' <=> Late(t)
  BY <1>1 DEF Ahead, Late, Pending
<1>3. /\ fresh.shown = Visible(line) /\ fresh.ticks = {t \in Visible(line) : line[t].read}
      /\ fresh.doubtful = told
  OBVIOUS
<1> HIDE DEF fresh
<1>4. window'[u] = fresh /\ \A s \in Sides \ {u} : window'[s] = window[s]
  BY <1>1 DEF ScreensTyped
<1>5. \A s \in Sides : window'[s].ticks \subseteq window'[s].shown
  BY <1>3, <1>4 DEF ThreadInv
<1>6. ASSUME NEW s \in Sides, window'[s].wire = "open", NEW t \in LineIds \ window'[s].doubtful
      PROVE  ShownInv(s, t)' /\ TicksInv(s, t)'
  <2>1. CASE s # u
    <3>1. window'[s] = window[s]
      BY <1>4, <2>1
    <3>2. ShownInv(s, t) /\ TicksInv(s, t)
      BY <1>6, <3>1 DEF ThreadInv
    <3> QED BY <1>1, <1>2, <3>1, <3>2, ThreadAt
  <2>2. CASE s = u
    <3>1. t \notin told
      BY <1>3, <1>4, <1>6, <2>2
    <3>2. \A op : ~Ahead(op, t)
      BY <3>1 DEF Ahead
    <3>3. /\ ~Ahead("send", t)' /\ ~Ahead("delete", t)' /\ ~Ahead("read", t)'
      BY <1>2, <3>2
    <3>4. t \in window'[s].shown <=> t \in Visible(line)
      BY <1>3, <1>4, <2>2
    <3>5. t \in window'[s].ticks <=> t \in Visible(line) /\ line[t].read
      BY <1>3, <1>4, <2>2
    <3> QED BY <1>1, <3>3, <3>4, <3>5 DEF ShownInv, TicksInv
  <2> QED BY <2>1, <2>2
<1> QED BY <1>5, <1>6 DEF ThreadInv

LEMMA OpenInboxThread ==
    ASSUME LiveInv, NEW u \in Sides, OpenInbox(u)
    PROVE  ThreadInv'
<1>1. UNCHANGED <<line, window, handler>>
  BY DEF OpenInbox
<1>2. \A t \in LineIds : /\ \A op \in {"send", "delete", "read"} : Ahead(op, t)' <=> Ahead(op, t)
                         /\ Late(t)' <=> Late(t)
  BY <1>1 DEF Ahead, Late, Pending
<1> QED BY <1>1, <1>2, ThreadsKept DEF LiveInv

LEMMA LeaveThread ==
    ASSUME LiveInv, NEW u \in Sides, Leave(u)
    PROVE  ThreadInv'
<1> USE DEF LiveInv
<1>1. UNCHANGED <<line, handler>>
  BY DEF Leave
<1>2. \A t \in LineIds : /\ \A op \in {"send", "delete", "read"} : Ahead(op, t)' <=> Ahead(op, t)
                         /\ Late(t)' <=> Late(t)
  BY <1>1 DEF Ahead, Late, Pending
<1>3. PICK wire \in {"none", "dead"} :
         \/ window' = [window EXCEPT ![u].wire = wire] /\ UNCHANGED inbox
         \/ inbox' = [inbox EXCEPT ![u].wire = wire] /\ UNCHANGED window
  BY DEF Leave
<1>4. CASE window' = [window EXCEPT ![u].wire = wire]
  <2>1. \A s \in Sides : /\ window'[s].shown = window[s].shown /\ window'[s].ticks = window[s].ticks
                         /\ window'[s].doubtful = window[s].doubtful
                         /\ window'[s].wire = "open" => window[s].wire = "open"
    BY <1>4 DEF ScreensTyped, Window
  <2>2. ASSUME NEW s \in Sides, window'[s].wire = "open", NEW t \in LineIds \ window'[s].doubtful
        PROVE  ShownInv(s, t)' /\ TicksInv(s, t)'
    <3>1. ShownInv(s, t) /\ TicksInv(s, t)
      BY <2>1, <2>2 DEF ThreadInv
    <3> QED BY <1>1, <1>2, <2>1, <3>1, ThreadAt
  <2>3. \A s \in Sides : window'[s].ticks \subseteq window'[s].shown
    BY <2>1 DEF ThreadInv
  <2> QED BY <2>2, <2>3 DEF ThreadInv
<1>5. CASE UNCHANGED window
  BY <1>1, <1>2, <1>5, ThreadsKept
<1> QED BY <1>3, <1>4, <1>5

LEMMA ReceiveThread ==
    ASSUME LiveInv, NEW p \in Handlers, NEW op \in {"send", "edit", "delete", "read", "receipt"},
           NEW u \in Sides, NEW t \in LineIds, Receive(p, op, u, t)
    PROVE  ThreadInv'
<1> USE DEF LiveInv
<1> DEFINE j == [op |-> op, of |-> t, by |-> u, step |-> "begun", over |-> FALSE,
                 last |-> lastAt, locks |-> FALSE]
<1>1. handler[p] = NoJob /\ handler' = [handler EXCEPT ![p] = j] /\ UNCHANGED <<line, window>>
  BY DEF Receive
<1>2. j.step = "begun" /\ ~j.over
  OBVIOUS
<1> HIDE DEF j
<1>3. handler'[p] = j /\ \A q \in Handlers \ {p} : handler'[q] = handler[q]
  BY <1>1 DEF JobsTyped
<1>4. ~Pending(p) /\ ~Pending(p)' /\ ~handler'[p].over /\ ~handler[p].over
  BY <1>1, <1>2, <1>3, LiveKinds DEF Pending
<1> QED BY <1>1, <1>3, <1>4, AheadElse, ThreadsKept

LEMMA FlushThread ==
    ASSUME LiveInv, NEW p \in Handlers, FlushLine(p)
    PROVE  ThreadInv'
<1> USE DEF LiveInv
<1>1. handler[p] \in Job /\ handler[p].step = "begun" /\ UNCHANGED <<line, window>>
  BY JobsAre DEF FlushLine
<1>2. /\ handler'[p].step = "flushed" /\ handler'[p].over = handler[p].over
      /\ \A q \in Handlers \ {p} : handler'[q] = handler[q]
  BY <1>1 DEF FlushLine, JobsTyped, Job
<1>3. ~handler[p].over
  BY <1>1, LiveKinds DEF JobsReal
<1>4. ~Pending(p) /\ ~Pending(p)'
  BY <1>1, <1>2 DEF Pending
<1> QED BY <1>1, <1>2, <1>3, <1>4, AheadElse, ThreadsKept

LEMMA PushThread ==
    ASSUME LiveInv, NEW p \in Handlers, PushInbox(p)
    PROVE  ThreadInv'
<1> USE DEF LiveInv
<1>1. handler[p] \in Job /\ handler[p].step = "announced" /\ UNCHANGED <<line, window>>
  BY JobsAre DEF PushInbox
<1>2. /\ handler'[p].step = "pushed" /\ handler'[p].over = handler[p].over
      /\ handler'[p].op = handler[p].op /\ handler'[p].of = handler[p].of
      /\ \A q \in Handlers \ {p} : handler'[q] = handler[q]
  BY <1>1 DEF PushInbox, JobsTyped, Job
<1>3. Pending(p)' <=> Pending(p)
  BY <1>1, <1>2 DEF Pending
<1> QED BY <1>1, <1>2, <1>3, AheadElse, ThreadsKept

LEMMA ReceiptThread ==
    ASSUME LiveInv, NEW p \in Handlers, CommitReceipt(p)
    PROVE  ThreadInv'
<1> USE DEF LiveInv
<1> DEFINE of == handler[p].of
<1>1. /\ handler[p] \in Job /\ handler[p].op = "receipt" /\ handler[p].step = "flushed"
      /\ ~handler[p].over /\ line' = Written(line, handler[p]) /\ UNCHANGED window
  BY JobsAre DEF CommitReceipt
<1>2. /\ handler'[p].step = "flushed" /\ handler'[p].over /\ handler'[p].op = "receipt"
      /\ handler'[p].of = of /\ \A q \in Handlers \ {p} : handler'[q] = handler[q]
  BY <1>1 DEF CommitReceipt, JobsTyped, Job
<1>3. of \in LineIds /\ line[of] # NoLine
  BY <1>1, LiveKinds DEF JobsReal, Job
<1>4. DOMAIN line = LineIds /\ \A t \in LineIds : line[t] = NoLine \/ line[t] \in Line
  BY DEF LinesTyped
<1>5. \A t \in LineIds : t # of => line'[t] = line[t]
  BY <1>1, <1>3, <1>4, WrittenElse
<1>6. /\ line'[of] # NoLine /\ line'[of].by = line[of].by /\ line'[of].deleted = line[of].deleted
      /\ line'[of].removed = line[of].removed
  BY <1>1, <1>3, <1>4, WrittenFields
<1>7. ~Pending(p) /\ ~Pending(p)'
  BY <1>1, <1>2 DEF Pending
<1> HIDE DEF of
<1>8. ASSUME NEW u \in Sides, window'[u].wire = "open", NEW t \in LineIds \ window'[u].doubtful
      PROVE  ShownInv(u, t)' /\ TicksInv(u, t)'
  <2>1. ShownInv(u, t) /\ TicksInv(u, t)
    BY <1>1, <1>8 DEF ThreadInv
  <2>2. CASE t # of
    <3>1. /\ \A op \in {"send", "delete", "read"} : Ahead(op, t)' <=> Ahead(op, t)
          /\ Late(t)' <=> Late(t)
      BY <1>1, <1>2, <1>7, <2>2, AheadElse DEF of
    <3> QED BY <1>1, <1>5, <2>1, <2>2, <3>1, ThreadAt
  <2>3. CASE t = of
    <3>1. \A op : \A q \in Handlers : Pending(q)' /\ handler'[q].op = op /\ handler'[q].of = t
                               <=> Pending(q) /\ handler[q].op = op /\ handler[q].of = t
      BY <1>2, <1>7 DEF Pending
    <3>2. /\ Ahead("send", t)' <=> Ahead("send", t)
          /\ Ahead("delete", t)' <=> Ahead("delete", t)
      BY <3>1 DEF Ahead
    <3>3. Late(t)'
      BY <1>2, <2>3 DEF Late
    <3>4. t \in Visible(line)' <=> t \in Visible(line)
      <4>1. t \in Visible(line)' <=> line'[t] # NoLine /\ ~line'[t].removed /\ ~line'[t].deleted
        BY VisibleIs
      <4> QED BY <1>3, <1>6, <2>3, <4>1, VisibleIs
    <3> QED BY <1>1, <2>1, <3>2, <3>3, <3>4 DEF ShownInv, TicksInv
  <2> QED BY <2>2, <2>3
<1>9. \A u \in Sides : window'[u].ticks \subseteq window'[u].shown
  BY <1>1 DEF ThreadInv
<1> QED BY <1>8, <1>9 DEF ThreadInv

LEMMA AnnounceThread ==
    ASSUME LiveInv, NEW p \in Handlers, Announce(p)
    PROVE  ThreadInv'
<1> USE DEF LiveInv
<1> DEFINE job == handler[p]
           frame(w) == CASE job.op = "send"   -> [w EXCEPT !.shown = @ \cup {job.of}]
                      [] job.op = "edit"   -> w
                      [] job.op = "delete" -> [w EXCEPT !.shown = @ \ {job.of}, !.ticks = @ \ {job.of}]
                      [] job.op \in {"read", "receipt"} ->
                            [w EXCEPT !.ticks = @ \cup ({job.of} \cap w.shown)]
           told == [s \in Sides |-> frame(window[s])]
           to == IF job.op = "receipt" THEN {Counterpart(job.by)} ELSE Sides
           j == [handler[p] EXCEPT !.step = "announced"]
<1>1. /\ job \in Job /\ job.step = "flushed" /\ (job.op = "receipt" => job.over)
      /\ UNCHANGED <<line, taken>> /\ handler' = [handler EXCEPT ![p] = j]
  BY JobsAre DEF Announce
<1>2. j.step = "announced" /\ j.op = job.op /\ j.of = job.of /\ j.over = job.over
  BY <1>1 DEF Job
<1>3. broadcast(told, to)
  BY DEF Announce
<1>4. \A s \in Sides : told[s] = frame(window[s])
  OBVIOUS
<1>5. /\ job.op \in {"send", "edit", "delete", "read", "receipt"} /\ job.of \in LineIds /\ job.by \in Sides
  BY <1>1 DEF Job
<1>6. /\ job.over => job.op = "receipt" /\ line[job.of].read
      /\ job.op = "send" <=> line[job.of] = NoLine
      /\ job.op \in {"read", "receipt"} => line[job.of].by # job.by
  BY <1>1, LiveKinds DEF JobsReal
<1>7. ASSUME NEW s \in Sides, NEW v, v = frame(window[s])
      PROVE  /\ v.doubtful = window[s].doubtful /\ v.wire = window[s].wire
             /\ v.shown = IF job.op = "send" THEN window[s].shown \cup {job.of}
                          ELSE IF job.op = "delete" THEN window[s].shown \ {job.of} ELSE window[s].shown
             /\ v.ticks = IF job.op = "delete" THEN window[s].ticks \ {job.of}
                          ELSE IF job.op \in {"read", "receipt"}
                               THEN window[s].ticks \cup ({job.of} \cap window[s].shown)
                               ELSE window[s].ticks
  <2> DEFINE w == window[s]
  <2>1. w \in Window
    BY DEF ScreensTyped
  <2> HIDE DEF w, job
  <2>2. v = CASE job.op = "send"   -> [w EXCEPT !.shown = @ \cup {job.of}]
              [] job.op = "edit"   -> w
              [] job.op = "delete" -> [w EXCEPT !.shown = @ \ {job.of}, !.ticks = @ \ {job.of}]
              [] job.op \in {"read", "receipt"} -> [w EXCEPT !.ticks = @ \cup ({job.of} \cap w.shown)]
    BY <1>7 DEF w
  <2> HIDE DEF frame
  <2>3. /\ v.doubtful = w.doubtful /\ v.wire = w.wire
        /\ v.shown = IF job.op = "send" THEN w.shown \cup {job.of}
                     ELSE IF job.op = "delete" THEN w.shown \ {job.of} ELSE w.shown
        /\ v.ticks = IF job.op = "delete" THEN w.ticks \ {job.of}
                     ELSE IF job.op \in {"read", "receipt"} THEN w.ticks \cup ({job.of} \cap w.shown)
                     ELSE w.ticks
    <3>1. CASE job.op = "send"
      BY <2>1, <2>2, <3>1 DEF Window
    <3>2. CASE job.op = "edit"
      BY <2>1, <2>2, <3>2 DEF Window
    <3>3. CASE job.op = "delete"
      BY <2>1, <2>2, <3>3 DEF Window
    <3>4. CASE job.op \in {"read", "receipt"}
      BY <2>1, <2>2, <3>4 DEF Window
    <3> QED BY <1>5, <3>1, <3>2, <3>3, <3>4
  <2> QED BY <2>3 DEF w
<1> HIDE DEF frame, told, to, j
<1>8. \A s \in Sides :
             window'[s] = IF s \notin to THEN window[s]
                          ELSE IF window[s].wire = "open" THEN told[s]
                          ELSE [window[s] EXCEPT !.wire = "none"]
  BY <1>3, Broadcast
<1>9. ASSUME NEW s \in Sides, s \in to, window[s].wire = "open"
      PROVE  /\ window'[s].doubtful = window[s].doubtful
             /\ window'[s].shown = IF job.op = "send" THEN window[s].shown \cup {job.of}
                        ELSE IF job.op = "delete" THEN window[s].shown \ {job.of} ELSE window[s].shown
             /\ window'[s].ticks = IF job.op = "delete" THEN window[s].ticks \ {job.of}
                        ELSE IF job.op \in {"read", "receipt"}
                             THEN window[s].ticks \cup ({job.of} \cap window[s].shown)
                             ELSE window[s].ticks
  <2>1. window'[s] = frame(window[s])
    BY <1>4, <1>8, <1>9
  <2> QED BY <1>7, <2>1
<1>10. ASSUME NEW s \in Sides, s \notin to PROVE window'[s] = window[s]
  BY <1>8, <1>10
<1>11. ASSUME NEW s \in Sides, s \in to, window[s].wire # "open"
       PROVE  /\ window'[s].wire = "none" /\ window'[s].shown = window[s].shown
              /\ window'[s].ticks = window[s].ticks
  BY <1>8, <1>11 DEF ScreensTyped, Window
<1>12. handler'[p] = j /\ \A q \in Handlers \ {p} : handler'[q] = handler[q]
  BY <1>1 DEF JobsTyped
<1>13. ~Pending(p) /\ (Pending(p)' <=> ~job.over)
  BY <1>1, <1>2, <1>12 DEF Pending
<1>14. ASSUME NEW s \in Sides PROVE window'[s].ticks \subseteq window'[s].shown
  <2>1. window[s].ticks \subseteq window[s].shown
    BY DEF ThreadInv
  <2>2. CASE s \in to /\ window[s].wire = "open"
    BY <1>9, <2>1, <2>2
  <2>3. CASE s \notin to
    BY <1>10, <2>1, <2>3
  <2>4. CASE s \in to /\ window[s].wire # "open"
    BY <1>11, <2>1, <2>4
  <2> QED BY <2>2, <2>3, <2>4
<1>15. ASSUME NEW s \in Sides, window'[s].wire = "open", NEW t \in LineIds \ window'[s].doubtful
       PROVE  ShownInv(s, t)' /\ TicksInv(s, t)'
  <2>1. window[s].wire = "open" /\ t \notin window[s].doubtful
    <3>1. CASE s \notin to
      BY <1>10, <1>15, <3>1
    <3>2. CASE s \in to
      BY <1>9, <1>11, <1>15, <3>2
    <3> QED BY <3>1, <3>2
  <2>2. ShownInv(s, t) /\ TicksInv(s, t)
    BY <2>1 DEF ThreadInv
  <2>3. CASE t # job.of
    <3>1. /\ \A op \in {"send", "delete", "read"} : Ahead(op, t)' <=> Ahead(op, t)
          /\ Late(t)' <=> Late(t)
      BY <1>2, <1>12, <2>3, AheadElse
    <3>2. /\ t \in window'[s].shown <=> t \in window[s].shown
          /\ t \in window'[s].ticks <=> t \in window[s].ticks
      BY <1>9, <1>10, <2>1, <2>3
    <3> QED BY <1>1, <2>2, <3>1, <3>2, ThreadAt
  <2>4. ASSUME t = job.of, job.op # "send" PROVE ~Ahead("send", t) /\ ~Ahead("send", t)'
    <3>1. \A q \in Handlers : Pending(q) => ~(handler[q].op = "send" /\ handler[q].of = t)
      BY <1>6, <2>4, LiveKinds DEF JobsReal, Pending
    <3>2. \A q \in Handlers : Pending(q)' => ~(handler'[q].op = "send" /\ handler'[q].of = t)
      BY <1>2, <1>12, <2>4, <3>1 DEF Pending
    <3> QED BY <3>1, <3>2 DEF Ahead
  <2>5. CASE t = job.of /\ job.op = "send"
    <3>1. t \notin Visible(line) /\ s \in to
      BY <1>6, <2>5, VisibleIs DEF to
    <3>2. ~Ahead("send", t)
      BY <1>13, <2>5 DEF Ahead, JobsReal
    <3>3. t \notin window[s].ticks
      BY <2>2, <3>1, <3>2 DEF ShownInv, ThreadInv
    <3>4. t \in window'[s].shown /\ t \notin window'[s].ticks
      BY <1>9, <2>1, <2>5, <3>1, <3>3
    <3>5. Ahead("send", t)'
      BY <1>2, <1>6, <1>12, <1>13, <2>5 DEF Ahead
    <3>6. t \notin Visible(line)'
      BY <1>1, <3>1
    <3> QED BY <3>4, <3>5, <3>6 DEF ShownInv, TicksInv
  <2>6. CASE t = job.of /\ job.op = "edit"
    <3>1. /\ \A op \in {"send", "delete", "read"} : Ahead(op, t)' <=> Ahead(op, t)
          /\ Late(t)' <=> Late(t)
      BY <1>2, <1>6, <1>12, <2>6, AheadElse
    <3>2. /\ t \in window'[s].shown <=> t \in window[s].shown
          /\ t \in window'[s].ticks <=> t \in window[s].ticks
      BY <1>9, <1>10, <2>1, <2>6
    <3> QED BY <1>1, <2>2, <3>1, <3>2, ThreadAt
  <2>7. CASE t = job.of /\ job.op = "delete"
    <3>1. Ahead("delete", t)'
      BY <1>2, <1>6, <1>12, <1>13, <2>7 DEF Ahead
    <3>2. t \notin window'[s].shown
      BY <1>9, <2>1, <2>7 DEF to
    <3> QED BY <2>4, <2>7, <3>1, <3>2 DEF ShownInv, TicksInv
  <2>8. CASE t = job.of /\ job.op \in {"read", "receipt"}
    <3>1. \A q \in Handlers : Pending(q)' /\ handler'[q].op = "delete" /\ handler'[q].of = t
                               <=> Pending(q) /\ handler[q].op = "delete" /\ handler[q].of = t
      BY <1>2, <1>12, <1>13, <2>8 DEF Pending
    <3>2. Ahead("delete", t)' <=> Ahead("delete", t)
      BY <3>1 DEF Ahead
    <3>3. t \in Visible(line)' <=> t \in Visible(line)
      BY <1>1
    <3>4. window'[s].shown = window[s].shown
      BY <1>9, <1>10, <2>1, <2>8
    <3>5. ShownInv(s, t)'
      BY <2>2, <2>4, <2>8, <3>2, <3>3, <3>4 DEF ShownInv
    <3>6. ASSUME t \in Visible(line), ~Ahead("delete", t), line[t].by = s
          PROVE  /\ t \in window'[s].ticks
                 /\ line[t].read \/ Ahead("read", t)'
      <4>1. t \in window[s].shown
        BY <2>2, <3>6 DEF ShownInv
      <4>2. s # job.by
        BY <1>6, <2>8, <3>6
      <4>3. s \in to
        BY <1>5, <4>2 DEF to, Counterpart, Sides
      <4>4. t \in window'[s].ticks
        BY <1>9, <2>1, <2>8, <4>1, <4>3
      <4>5. CASE job.op = "receipt"
        BY <1>1, <1>6, <2>8, <4>4, <4>5
      <4>6. CASE job.op = "read"
        <5>1. Ahead("read", t)'
          BY <1>2, <1>6, <1>12, <1>13, <2>8, <4>6 DEF Ahead
        <5> QED BY <4>4, <5>1
      <4> QED BY <2>8, <4>5, <4>6
    <3>7. TicksInv(s, t)'
      BY <1>1, <2>4, <2>8, <3>2, <3>3, <3>6 DEF TicksInv
    <3> QED BY <3>5, <3>7
  <2> QED BY <1>5, <2>3, <2>5, <2>6, <2>7, <2>8
<1> QED BY <1>14, <1>15 DEF ThreadInv

LEMMA CommitThread ==
    ASSUME LiveInv, NEW p \in Handlers, CommitJob(p)
    PROVE  ThreadInv'
<1> USE DEF LiveInv
<1> DEFINE job == handler[p]
<1>1. /\ job \in Job /\ job.step = "pushed" /\ UNCHANGED <<taken, window>>
      /\ line' = (IF job.over THEN line ELSE Written(line, job))
      /\ handler' = [handler EXCEPT ![p] = NoJob]
  BY JobsAre DEF CommitJob
<1>2. handler'[p] = NoJob /\ \A q \in Handlers \ {p} : handler'[q] = handler[q]
  BY <1>1 DEF JobsTyped
<1>3. ~Pending(p)' /\ ~handler'[p].over
  BY <1>2, LiveKinds DEF Pending
<1>4. /\ job.op \in {"send", "edit", "delete", "read", "receipt"} /\ job.of \in LineIds
  BY <1>1 DEF Job
<1>5. /\ job.op = "receipt" => job.over
      /\ job.op = "send" <=> line[job.of] = NoLine
  BY <1>1, LiveKinds DEF JobsReal
<1>6. CASE job.over
  <2>1. UNCHANGED <<line, window>> /\ ~Pending(p)
    BY <1>1, <1>6 DEF Pending
  <2> QED BY <1>1, <1>2, <1>3, <2>1, AheadElse, ThreadsKept
<1>7. CASE ~job.over
  <2>1. line' = Written(line, job) /\ Pending(p)
    BY <1>1, <1>7 DEF Pending
  <2>2. DOMAIN line = LineIds /\ \A t \in LineIds : line[t] = NoLine \/ line[t] \in Line
    BY DEF LinesTyped
  <2>3. \A t \in LineIds : t # job.of => line'[t] = line[t]
    BY <1>1, <1>5, <2>1, <2>2, WrittenElse
  <2>4. /\ line'[job.of] # NoLine
        /\ job.op = "send" => ~line'[job.of].read
        /\ job.op # "send" =>
              /\ line'[job.of].by = line[job.of].by
              /\ line'[job.of].removed = line[job.of].removed
              /\ job.op # "delete" => line'[job.of].deleted = line[job.of].deleted
              /\ job.op \notin {"read", "receipt"} => line'[job.of].read = line[job.of].read
        /\ job.op = "delete" => line'[job.of].deleted
        /\ job.op \in {"read", "receipt"} => line'[job.of].read
        /\ job.op = "send" => ~line'[job.of].deleted /\ ~line'[job.of].removed
    BY <1>1, <1>5, <2>1, <2>2, WrittenFields
  <2>5. ASSUME NEW s \in Sides, window'[s].wire = "open", NEW t \in LineIds \ window'[s].doubtful
        PROVE  ShownInv(s, t)' /\ TicksInv(s, t)'
    <3>1. ShownInv(s, t) /\ TicksInv(s, t)
      BY <1>1, <2>5 DEF ThreadInv
    <3>2. CASE t # job.of
      <4>1. /\ \A op \in {"send", "delete", "read"} : Ahead(op, t)' <=> Ahead(op, t)
            /\ Late(t)' <=> Late(t)
        BY <1>2, <1>3, <1>7, <3>2, AheadElse
      <4> QED BY <1>1, <2>3, <3>1, <3>2, <4>1, ThreadAt
    <3>3. \A q \in Handlers \ {p} : Pending(q)' <=> Pending(q)
      BY <1>2 DEF Pending
    <3>4. \A op : op # job.op => (Ahead(op, t)' <=> Ahead(op, t))
      BY <1>2, <1>3, <3>3 DEF Ahead
    <3>5. Late(t)' <=> Late(t)
      BY <1>1, <1>2, <1>3, <1>7 DEF Late
    <3>6. t \in Visible(line)' <=> line'[t] # NoLine /\ ~line'[t].removed /\ ~line'[t].deleted
      BY VisibleIs
    <3>7. t \in Visible(line) <=> line[t] # NoLine /\ ~line[t].removed /\ ~line[t].deleted
      BY VisibleIs
    <3>8. ASSUME t = job.of, job.op = "send"
          PROVE  ~Ahead("send", t)' /\ ~Ahead("delete", t)' /\ ~Ahead("read", t)'
      <4>1. ASSUME NEW q \in Handlers, Pending(q)', handler'[q].of = t
            PROVE  handler'[q].op \notin {"send", "delete", "read"}
        <5>1. q # p /\ handler'[q] = handler[q] /\ Pending(q)
          BY <1>2, <1>3, <3>3, <4>1
        <5>2. handler[q] # NoJob
          BY <5>1, JobsAre, LiveKinds
        <5> QED BY <1>5, <3>8, <4>1, <5>1, <5>2 DEF JobsReal
      <4> QED BY <4>1 DEF Ahead
    <3>9. ASSUME t = job.of, job.op # "send" PROVE ~Ahead("send", t)' /\ ~Ahead("send", t)
      <4>1. \A q \in Handlers : Pending(q) => ~(handler[q].op = "send" /\ handler[q].of = t)
        BY <1>5, <3>9, LiveKinds DEF JobsReal, Pending
      <4> QED BY <1>2, <1>3, <3>3, <4>1 DEF Ahead
    <3>10. CASE t = job.of /\ job.op = "send"
      <4>1. Ahead("send", t)
        BY <2>1, <3>10 DEF Ahead
      <4>2. t \in window'[s].shown /\ t \notin window'[s].ticks
        BY <1>1, <3>1, <4>1 DEF ShownInv, TicksInv
      <4> QED BY <2>4, <3>6, <3>8, <3>10, <4>2 DEF ShownInv, TicksInv
    <3>11. CASE t = job.of /\ job.op = "edit"
      <4>1. /\ Ahead("send", t)' <=> Ahead("send", t)
            /\ Ahead("delete", t)' <=> Ahead("delete", t)
            /\ Ahead("read", t)' <=> Ahead("read", t)
        BY <3>4, <3>11
      <4>2. t \in Visible(line)' <=> t \in Visible(line)
        BY <1>5, <2>4, <3>6, <3>7, <3>11
      <4>3. line'[t].by = line[t].by /\ line'[t].read = line[t].read
        BY <2>4, <3>11
      <4> QED BY <1>1, <3>1, <3>5, <4>1, <4>2, <4>3 DEF ShownInv, TicksInv
    <3>12. CASE t = job.of /\ job.op = "delete"
      <4>1. Ahead("delete", t)
        BY <2>1, <3>12 DEF Ahead
      <4>2. t \notin window'[s].shown
        BY <1>1, <3>1, <3>9, <3>12, <4>1 DEF ShownInv
      <4> QED BY <2>4, <3>6, <3>9, <3>12, <4>2 DEF ShownInv, TicksInv
    <3>13. CASE t = job.of /\ job.op = "read"
      <4>1. Ahead("delete", t)' <=> Ahead("delete", t)
        BY <3>4, <3>13
      <4>2. Ahead("read", t)
        BY <2>1, <3>13 DEF Ahead
      <4>3. t \in Visible(line)' <=> t \in Visible(line)
        BY <1>5, <2>4, <3>6, <3>7, <3>13
      <4>4. line'[t].by = line[t].by /\ line'[t].read
        BY <2>4, <3>13
      <4>5. ShownInv(s, t)'
        BY <1>1, <3>1, <3>9, <3>13, <4>1, <4>3 DEF ShownInv
      <4>6. TicksInv(s, t)'
        BY <1>1, <3>1, <3>5, <3>9, <3>13, <4>1, <4>2, <4>3, <4>4 DEF TicksInv
      <4> QED BY <4>5, <4>6
    <3> QED BY <1>4, <1>5, <1>7, <3>2, <3>10, <3>11, <3>12, <3>13
  <2>6. \A s \in Sides : window'[s].ticks \subseteq window'[s].shown
    BY <1>1 DEF ThreadInv
  <2> QED BY <2>5, <2>6 DEF ThreadInv
<1> QED BY <1>6, <1>7

LEMMA AbortThread ==
    ASSUME LiveInv, NEW p \in Handlers, AbortJob(p)
    PROVE  ThreadInv'
<1> USE DEF LiveInv
<1>1. handler[p] \in Job /\ UNCHANGED line /\ handler' = [handler EXCEPT ![p] = NoJob]
  BY JobsAre DEF AbortJob
<1>2. handler'[p] = NoJob /\ \A q \in Handlers \ {p} : handler'[q] = handler[q]
  BY <1>1 DEF JobsTyped
<1>3. ~Pending(p)' /\ ~handler'[p].over
  BY <1>2, LiveKinds DEF Pending
<1>4. CASE Pending(p) \/ handler[p].over
  <2>1. \A s \in Sides : window'[s] = [window[s] EXCEPT !.doubtful = @ \cup {handler[p].of}]
    BY <1>4 DEF AbortJob
  <2>2. \A s \in Sides : /\ window'[s].shown = window[s].shown /\ window'[s].ticks = window[s].ticks
                         /\ window'[s].doubtful = window[s].doubtful \cup {handler[p].of}
                         /\ window'[s].wire = window[s].wire
    BY <2>1 DEF ScreensTyped, Window
  <2>3. ASSUME NEW s \in Sides, window'[s].wire = "open", NEW t \in LineIds \ window'[s].doubtful
        PROVE  ShownInv(s, t)' /\ TicksInv(s, t)'
    <3>1. window[s].wire = "open" /\ t \notin window[s].doubtful /\ t # handler[p].of
      BY <2>2, <2>3
    <3>2. ShownInv(s, t) /\ TicksInv(s, t)
      BY <3>1 DEF ThreadInv
    <3>3. /\ \A op \in {"send", "delete", "read"} : Ahead(op, t)' <=> Ahead(op, t)
          /\ Late(t)' <=> Late(t)
      BY <1>2, <1>3, <3>1, AheadElse
    <3> QED BY <1>1, <2>2, <3>2, <3>3, ThreadAt
  <2>4. \A s \in Sides : window'[s].ticks \subseteq window'[s].shown
    BY <2>2 DEF ThreadInv
  <2> QED BY <2>3, <2>4 DEF ThreadInv
<1>5. CASE ~(Pending(p) \/ handler[p].over)
  <2>1. UNCHANGED window
    BY <1>5 DEF AbortJob
  <2> QED BY <1>1, <1>2, <1>3, <1>5, <2>1, AheadElse, ThreadsKept
<1> QED BY <1>4, <1>5

LEMMA ModeratedThread ==
    ASSUME LiveInv, NEW t \in LineIds, NEW removed \in BOOLEAN, Moderated(t, removed)
    PROVE  ThreadInv'
<1> USE DEF LiveInv
<1>1. UNCHANGED handler /\ \A s \in LineIds : s # t => line'[s] = line[s]
  BY ModeratedRow DEF Moderated
<1>2. \A u \in Sides : window'[u] = [window[u] EXCEPT !.doubtful = @ \cup {t}]
  BY DEF Moderated
<1>3. \A u \in Sides : /\ window'[u].shown = window[u].shown /\ window'[u].ticks = window[u].ticks
                       /\ window'[u].doubtful = window[u].doubtful \cup {t}
                       /\ window'[u].wire = window[u].wire
  BY <1>2 DEF ScreensTyped, Window
<1>4. \A s \in LineIds : /\ \A op \in {"send", "delete", "read"} : Ahead(op, s)' <=> Ahead(op, s)
                         /\ Late(s)' <=> Late(s)
  BY <1>1 DEF Ahead, Late, Pending
<1>5. ASSUME NEW u \in Sides, window'[u].wire = "open", NEW s \in LineIds \ window'[u].doubtful
      PROVE  ShownInv(u, s)' /\ TicksInv(u, s)'
  <2>1. window[u].wire = "open" /\ s \notin window[u].doubtful /\ s # t
    BY <1>3, <1>5
  <2>2. ShownInv(u, s) /\ TicksInv(u, s)
    BY <2>1 DEF ThreadInv
  <2> QED BY <1>1, <1>3, <1>4, <2>1, <2>2, ThreadAt
<1>6. \A u \in Sides : window'[u].ticks \subseteq window'[u].shown
  BY <1>3 DEF ThreadInv
<1> QED BY <1>5, <1>6 DEF ThreadInv

-----------------------------------------------------------------------------
\* The inboxes

\* The messages are the same but for who has read them.
SameShape(rows, others) ==
    \A t \in LineIds :
        /\ rows[t] = NoLine <=> others[t] = NoLine
        /\ rows[t] # NoLine => /\ rows[t].removed <=> others[t].removed
                               /\ rows[t].deleted <=> others[t].deleted
                               /\ rows[t].edited <=> others[t].edited

\* Then so is the preview.
LEMMA ShapePreview ==
    ASSUME NEW rows, NEW others, SameShape(rows, others)
    PROVE  message_preview(rows) = message_preview(others)
<1>1. Visible(rows) = Visible(others)
  <2>1. ASSUME NEW t \in LineIds PROVE t \in Visible(rows) <=> t \in Visible(others)
    <3>1. t \in Visible(rows) <=> rows[t] # NoLine /\ ~rows[t].removed /\ ~rows[t].deleted
      BY VisibleIs
    <3>2. t \in Visible(others) <=> others[t] # NoLine /\ ~others[t].removed /\ ~others[t].deleted
      BY VisibleIs
    <3> QED BY <3>1, <3>2 DEF SameShape
  <2> QED BY <2>1, VisibleLines
<1> DEFINE t == last_message(rows)
<1>2. t = last_message(others)
  BY <1>1 DEF last_message
<1>3. t \in Visible(rows) \cup {0}
  BY LastMessage
<1> HIDE DEF t
<1>4. (t # 0 /\ rows[t].edited) <=> (t # 0 /\ others[t].edited)
  BY <1>3, VisibleIs, VisibleLines DEF SameShape, Visible, Public
<1>5. <<t, t # 0 /\ rows[t].edited>> = <<t, t # 0 /\ others[t].edited>>
  BY <1>4
<1> QED BY <1>2, <1>5 DEF t, message_preview

LEMMA ShapeWritten ==
    ASSUME NEW rows, DOMAIN rows = LineIds, \A t \in LineIds : rows[t] = NoLine \/ rows[t] \in Line,
           NEW others, DOMAIN others = LineIds,
           \A t \in LineIds : others[t] = NoLine \/ others[t] \in Line,
           SameShape(rows, others), NEW job \in Job, job.op # "send" => rows[job.of] # NoLine
    PROVE  SameShape(Written(rows, job), Written(others, job))
<1> DEFINE w == Written(rows, job)
           v == Written(others, job)
<1>1. job.of \in LineIds /\ job.op \in {"send", "edit", "delete", "read", "receipt"}
  BY DEF Job
<1>2. job.op # "send" => others[job.of] # NoLine
  BY <1>1 DEF SameShape
<1>3. \A t \in LineIds : t # job.of => w[t] = rows[t]
  BY WrittenElse
<1>4. \A t \in LineIds : t # job.of => v[t] = others[t]
  BY <1>2, WrittenElse
<1>5. /\ w[job.of] # NoLine
      /\ job.op = "send" => ~w[job.of].edited /\ ~w[job.of].deleted /\ ~w[job.of].removed
      /\ job.op # "send" =>
            /\ w[job.of].removed = rows[job.of].removed
            /\ job.op # "edit" => w[job.of].edited = rows[job.of].edited
            /\ job.op # "delete" => w[job.of].deleted = rows[job.of].deleted
      /\ job.op = "edit" => w[job.of].edited
      /\ job.op = "delete" => w[job.of].deleted
  BY WrittenFields
<1>6. /\ v[job.of] # NoLine
      /\ job.op = "send" => ~v[job.of].edited /\ ~v[job.of].deleted /\ ~v[job.of].removed
      /\ job.op # "send" =>
            /\ v[job.of].removed = others[job.of].removed
            /\ job.op # "edit" => v[job.of].edited = others[job.of].edited
            /\ job.op # "delete" => v[job.of].deleted = others[job.of].deleted
      /\ job.op = "edit" => v[job.of].edited
      /\ job.op = "delete" => v[job.of].deleted
  BY <1>2, WrittenFields
<1> HIDE DEF w, v
<1>7. ASSUME NEW t \in LineIds
      PROVE  /\ w[t] = NoLine <=> v[t] = NoLine
             /\ w[t] # NoLine => /\ w[t].removed <=> v[t].removed
                                 /\ w[t].deleted <=> v[t].deleted
                                 /\ w[t].edited <=> v[t].edited
  <2>1. CASE t # job.of
    BY <1>3, <1>4, <2>1 DEF SameShape
  <2>2. CASE t = job.of /\ job.op = "send"
    BY <1>5, <1>6, <2>2
  <2>3. CASE t = job.of /\ job.op # "send"
    <3>1. /\ rows[t] # NoLine /\ (rows[t].removed <=> others[t].removed)
          /\ rows[t].deleted <=> others[t].deleted
          /\ rows[t].edited <=> others[t].edited
      BY <2>3 DEF SameShape
    <3> QED BY <1>5, <1>6, <2>3, <3>1
  <2> QED BY <2>1, <2>2, <2>3
<1>8. SameShape(w, v)
  BY <1>7 DEF SameShape
<1> QED BY <1>8 DEF w, v

\* What reads a message leaves the shape.
LEMMA ReadShape ==
    ASSUME LinesTyped, NEW job \in Job, job.op \in {"read", "receipt"}, line[job.of] # NoLine
    PROVE  SameShape(Written(line, job), line)
<1> DEFINE w == Written(line, job)
<1>1. DOMAIN line = LineIds /\ \A t \in LineIds : line[t] = NoLine \/ line[t] \in Line
  BY DEF LinesTyped
<1>2. \A t \in LineIds : t # job.of => w[t] = line[t]
  BY <1>1, WrittenElse
<1>3. /\ w[job.of] # NoLine /\ w[job.of].removed = line[job.of].removed
      /\ w[job.of].edited = line[job.of].edited /\ w[job.of].deleted = line[job.of].deleted
  BY <1>1, WrittenFields
<1> HIDE DEF w
<1>4. SameShape(w, line)
  BY <1>2, <1>3 DEF SameShape
<1> QED BY <1>4 DEF w

LEMMA ShapeOfItself == ASSUME NEW rows PROVE SameShape(rows, rows)
BY DEF SameShape

\* What a push changed, and who made it, is as it was.
LEMMA BadgeKept ==
    ASSUME NEW u \in Sides, BadgeInv(u), UNCHANGED line, inbox'[u].badge = inbox[u].badge,
           \A q \in Handlers : PushedOnly(q)' <=> PushedOnly(q),
           \A q \in Handlers : PushedOnly(q) => handler'[q] = handler[q],
           Uncounted => Uncounted'
    PROVE  BadgeInv(u)'
<1>1. \A p, q \in Handlers : PushedOnly(p)' /\ PushedOnly(q)' => p = q
  BY DEF BadgeInv
<1>2. CASE Uncounted
  BY <1>1, <1>2 DEF BadgeInv
<1>3. CASE ~Uncounted
  <2>1. ASSUME NEW q \in Handlers, PushedOnly(q)'
        PROVE  inbox'[u].badge = unread_count(Written(line', handler'[q]), u)
    <3>1. PushedOnly(q) /\ handler'[q] = handler[q] /\ line' = line
      BY <2>1
    <3>2. inbox[u].badge = unread_count(Written(line, handler[q]), u)
      BY <1>3, <3>1 DEF BadgeInv
    <3> QED BY <3>1, <3>2
  <2>2. ASSUME \A q \in Handlers : ~PushedOnly(q)' PROVE inbox'[u].badge = unread_count(line', u)
    <3>1. inbox[u].badge = unread_count(line, u) /\ line' = line
      BY <1>3, <2>2 DEF BadgeInv
    <3> QED BY <3>1
  <2> QED BY <1>1, <2>1, <2>2 DEF BadgeInv
<1> QED BY <1>2, <1>3

LEMMA PreviewKept ==
    ASSUME NEW u \in Sides, PreviewInv(u), inbox'[u].preview = inbox[u].preview,
           LinesTyped, LinesTyped', JobsTyped, JobsReal, SameShape(line', line),
           \A q \in Handlers : PushedShape(q)' <=> PushedShape(q),
           \A q \in Handlers : PushedShape(q) => handler'[q] = handler[q]
    PROVE  PreviewInv(u)'
<1>1. \A p, q \in Handlers : PushedShape(p)' /\ PushedShape(q)' => p = q
  BY DEF PreviewInv
<1>2. ASSUME NEW q \in Handlers, PushedShape(q)'
      PROVE  inbox'[u].preview = message_preview(Written(line', handler'[q]))
  <2>1. PushedShape(q) /\ handler'[q] = handler[q] /\ handler[q] \in Job
    BY <1>2, JobsAre DEF PushedShape
  <2>2. handler[q].op # "send" => line[handler[q].of] # NoLine
    BY <2>1, LiveKinds DEF JobsReal
  <2>3. handler[q].op # "send" => line'[handler[q].of] # NoLine
    BY <2>1, <2>2 DEF SameShape, Job
  <2>4. /\ DOMAIN line = LineIds /\ \A t \in LineIds : line[t] = NoLine \/ line[t] \in Line
        /\ DOMAIN line' = LineIds /\ \A t \in LineIds : line'[t] = NoLine \/ line'[t] \in Line
    BY DEF LinesTyped
  <2>5. SameShape(Written(line', handler[q]), Written(line, handler[q]))
    BY <2>1, <2>3, <2>4, ShapeWritten
  <2>6. message_preview(Written(line', handler[q])) = message_preview(Written(line, handler[q]))
    BY <2>5, ShapePreview
  <2>7. inbox[u].preview = message_preview(Written(line, handler[q]))
    BY <2>1 DEF PreviewInv
  <2> QED BY <2>1, <2>6, <2>7
<1>3. ASSUME \A q \in Handlers : ~PushedShape(q)' PROVE inbox'[u].preview = message_preview(line')
  <2>1. inbox[u].preview = message_preview(line)
    BY <1>3 DEF PreviewInv
  <2>2. message_preview(line') = message_preview(line)
    BY ShapePreview
  <2> QED BY <2>1, <2>2
<1>4. \A q \in Handlers : PushedShape(q)' => inbox'[u].preview = message_preview(Written(line', handler'[q]))
  BY <1>2
<1> QED BY <1>1, <1>3, <1>4 DEF PreviewInv

\* An entry whose frames, and whose pushes under way, are as they were
LEMMA EntryKept ==
    ASSUME LiveInv, LinesTyped', NEW u \in Sides, inbox'[u].wire = "open", inbox[u].wire = "open",
           inbox'[u].badge = inbox[u].badge, inbox'[u].preview = inbox[u].preview,
           inbox'[u].vague = inbox[u].vague, inbox'[u].hazy = inbox[u].hazy,
           UNCHANGED line,
           \A q \in Handlers : PushedOnly(q)' <=> PushedOnly(q),
           \A q \in Handlers : PushedOnly(q) => handler'[q] = handler[q],
           Uncounted => Uncounted'
    PROVE  /\ inbox'[u].vague \/ BadgeInv(u)'
           /\ inbox'[u].hazy \/ PreviewInv(u)'
<1> USE DEF LiveInv
<1>1. /\ inbox[u].vague \/ BadgeInv(u)
      /\ inbox[u].hazy \/ PreviewInv(u)
  BY DEF InboxInv
<1>2. \A q \in Handlers : /\ PushedShape(q)' <=> PushedShape(q)
                          /\ PushedShape(q) => handler'[q] = handler[q]
  BY DEF PushedShape
<1>3. SameShape(line', line)
  BY ShapeOfItself
<1>4. inbox[u].vague \/ BadgeInv(u)'
  BY <1>1, BadgeKept
<1>5. inbox[u].hazy \/ PreviewInv(u)'
  BY <1>1, <1>2, <1>3, PreviewKept
<1> QED BY <1>4, <1>5

LEMMA InboxesKept ==
    ASSUME LiveInv, LinesTyped', UNCHANGED <<line, inbox>>,
           \A q \in Handlers : PushedOnly(q)' <=> PushedOnly(q),
           \A q \in Handlers : PushedOnly(q) => handler'[q] = handler[q],
           Uncounted => Uncounted'
    PROVE  InboxInv'
<1>1. ASSUME NEW u \in Sides, inbox'[u].wire = "open"
      PROVE  /\ inbox'[u].vague \/ BadgeInv(u)'
             /\ inbox'[u].hazy \/ PreviewInv(u)'
  BY <1>1, EntryKept
<1> QED BY <1>1 DEF InboxInv

\* One handler moves, that has pushed nothing before or after it.
LEMMA InboxesElse ==
    ASSUME LiveInv, LinesTyped', UNCHANGED <<line, inbox>>, NEW p \in Handlers,
           \A q \in Handlers \ {p} : handler'[q] = handler[q],
           ~PushedOnly(p), ~PushedOnly(p)',
           handler[p].over /\ handler[p].step # "pushed" => handler'[p].over /\ handler'[p].step # "pushed"
    PROVE  InboxInv'
<1>1. \A q \in Handlers : /\ PushedOnly(q)' <=> PushedOnly(q)
                          /\ PushedOnly(q) => handler'[q] = handler[q]
  BY DEF PushedOnly
<1>2. Uncounted => Uncounted'
  BY DEF Uncounted
<1> QED BY <1>1, <1>2, InboxesKept

LEMMA ScreenInbox ==
    ASSUME LiveInv, UNCHANGED <<line, lastAt, taken, handler, inbox>>
    PROVE  InboxInv'
<1>1. LinesTyped'
  BY LinesKept DEF LiveInv
<1>2. \A q \in Handlers : PushedOnly(q)' <=> PushedOnly(q)
  BY DEF PushedOnly
<1>3. Uncounted => Uncounted'
  BY DEF Uncounted
<1> QED BY <1>1, <1>2, <1>3, InboxesKept

LEMMA OpenInboxInbox ==
    ASSUME LiveInv, NEW u \in Sides, OpenInbox(u)
    PROVE  InboxInv'
<1> USE DEF LiveInv
<1> DEFINE early == \E p \in Handlers : PushedOnly(p)
           fresh == [wire |-> "open", badge |-> unread_count(line, u), preview |-> message_preview(line),
                     vague |-> early, hazy |-> early]
<1>1. inbox' = [inbox EXCEPT ![u] = fresh] /\ UNCHANGED <<line, lastAt, taken, handler>>
  BY DEF OpenInbox
<1>2. /\ fresh.badge = unread_count(line, u) /\ fresh.preview = message_preview(line)
      /\ fresh.vague = early /\ fresh.hazy = early
  OBVIOUS
<1> HIDE DEF fresh
<1>3. inbox'[u] = fresh /\ \A s \in Sides \ {u} : inbox'[s] = inbox[s]
  BY <1>1 DEF ScreensTyped
<1>4. LinesTyped'
  BY <1>1, LinesKept
<1>5. \A q \in Handlers : PushedOnly(q)' <=> PushedOnly(q)
  BY <1>1 DEF PushedOnly
<1>6. Uncounted => Uncounted'
  BY <1>1 DEF Uncounted
<1>7. ASSUME NEW s \in Sides, inbox'[s].wire = "open"
      PROVE  /\ inbox'[s].vague \/ BadgeInv(s)'
             /\ inbox'[s].hazy \/ PreviewInv(s)'
  <2>1. CASE s # u
    BY <1>1, <1>3, <1>4, <1>5, <1>6, <1>7, <2>1, EntryKept
  <2>2. CASE s = u /\ ~early
    <3>1. \A q \in Handlers : ~PushedOnly(q)' /\ ~PushedShape(q)'
      BY <1>5, <2>2 DEF PushedShape
    <3>2. inbox'[s].badge = unread_count(line', u) /\ inbox'[s].preview = message_preview(line')
      BY <1>1, <1>2, <1>3, <2>2
    <3> QED BY <2>2, <3>1, <3>2 DEF BadgeInv, PreviewInv
  <2>3. CASE s = u /\ early
    BY <1>2, <1>3, <2>3
  <2> QED BY <2>1, <2>2, <2>3
<1> QED BY <1>7 DEF InboxInv

LEMMA LeaveInbox ==
    ASSUME LiveInv, NEW u \in Sides, Leave(u)
    PROVE  InboxInv'
<1> USE DEF LiveInv
<1>1. UNCHANGED <<line, lastAt, taken, handler>>
  BY DEF Leave
<1>2. PICK wire \in {"none", "dead"} :
         \/ window' = [window EXCEPT ![u].wire = wire] /\ UNCHANGED inbox
         \/ inbox' = [inbox EXCEPT ![u].wire = wire] /\ UNCHANGED window
  BY DEF Leave
<1>3. CASE UNCHANGED inbox
  BY <1>1, <1>3, ScreenInbox
<1>4. CASE inbox' = [inbox EXCEPT ![u].wire = wire]
  <2>1. inbox'[u].wire = wire /\ \A s \in Sides \ {u} : inbox'[s] = inbox[s]
    BY <1>4 DEF ScreensTyped, Inbox
  <2>2. LinesTyped'
    BY <1>1, LinesKept
  <2>3. \A q \in Handlers : PushedOnly(q)' <=> PushedOnly(q)
    BY <1>1 DEF PushedOnly
  <2>4. Uncounted => Uncounted'
    BY <1>1 DEF Uncounted
  <2>5. ASSUME NEW s \in Sides, inbox'[s].wire = "open"
        PROVE  /\ inbox'[s].vague \/ BadgeInv(s)'
               /\ inbox'[s].hazy \/ PreviewInv(s)'
    <3>1. s # u /\ inbox'[s] = inbox[s]
      BY <2>1, <2>5
    <3> QED BY <1>1, <2>2, <2>3, <2>4, <2>5, <3>1, EntryKept
  <2> QED BY <2>5 DEF InboxInv
<1> QED BY <1>2, <1>3, <1>4

LEMMA ReceiveInbox ==
    ASSUME LiveInv, LinesTyped', NEW p \in Handlers,
           NEW op \in {"send", "edit", "delete", "read", "receipt"},
           NEW u \in Sides, NEW t \in LineIds, Receive(p, op, u, t)
    PROVE  InboxInv'
<1> DEFINE j == [op |-> op, of |-> t, by |-> u, step |-> "begun", over |-> FALSE,
                 last |-> lastAt, locks |-> FALSE]
<1>1. handler[p] = NoJob /\ handler' = [handler EXCEPT ![p] = j] /\ UNCHANGED <<line, inbox>>
  BY DEF Receive
<1>2. j.step = "begun" /\ ~j.over
  OBVIOUS
<1> HIDE DEF j
<1>3. handler'[p] = j /\ \A q \in Handlers \ {p} : handler'[q] = handler[q]
  BY <1>1 DEF LiveInv, JobsTyped
<1>4. ~PushedOnly(p) /\ ~PushedOnly(p)' /\ ~handler[p].over
  BY <1>1, <1>2, <1>3, LiveKinds DEF PushedOnly
<1> QED BY <1>1, <1>3, <1>4, InboxesElse

LEMMA FlushInbox ==
    ASSUME LiveInv, LinesTyped', NEW p \in Handlers, FlushLine(p)
    PROVE  InboxInv'
<1> USE DEF LiveInv
<1>1. handler[p] \in Job /\ handler[p].step = "begun" /\ UNCHANGED <<line, inbox>>
  BY JobsAre DEF FlushLine
<1>2. /\ handler'[p].step = "flushed" /\ handler'[p].over = handler[p].over
      /\ \A q \in Handlers \ {p} : handler'[q] = handler[q]
  BY <1>1 DEF FlushLine, JobsTyped, Job
<1>3. ~PushedOnly(p) /\ ~PushedOnly(p)'
  BY <1>1, <1>2 DEF PushedOnly
<1> QED BY <1>1, <1>2, <1>3, InboxesElse

LEMMA AnnounceInbox ==
    ASSUME LiveInv, LinesTyped', NEW p \in Handlers, Announce(p)
    PROVE  InboxInv'
<1> USE DEF LiveInv
<1> DEFINE j == [handler[p] EXCEPT !.step = "announced"]
<1>1. /\ handler[p] \in Job /\ handler[p].step = "flushed" /\ UNCHANGED <<line, inbox>>
      /\ handler' = [handler EXCEPT ![p] = j]
  BY JobsAre DEF Announce
<1>2. j.step = "announced" /\ j.over = handler[p].over
  BY <1>1 DEF Job
<1> HIDE DEF j
<1>3. handler'[p] = j /\ \A q \in Handlers \ {p} : handler'[q] = handler[q]
  BY <1>1 DEF JobsTyped
<1>4. ~PushedOnly(p) /\ ~PushedOnly(p)'
  BY <1>1, <1>2, <1>3 DEF PushedOnly
<1> QED BY <1>1, <1>2, <1>3, <1>4, InboxesElse

LEMMA ReceiptInbox ==
    ASSUME LiveInv, LinesTyped', NEW p \in Handlers, CommitReceipt(p)
    PROVE  InboxInv'
<1> USE DEF LiveInv
<1>1. /\ handler[p] \in Job /\ handler[p].op = "receipt" /\ handler[p].step = "flushed"
      /\ line' = Written(line, handler[p]) /\ UNCHANGED inbox
  BY JobsAre DEF CommitReceipt
<1>2. /\ handler'[p].step = "flushed" /\ handler'[p].over
      /\ \A q \in Handlers \ {p} : handler'[q] = handler[q]
  BY <1>1 DEF CommitReceipt, JobsTyped, Job
<1>3. SameShape(line', line)
  <2>1. line[handler[p].of] # NoLine
    BY <1>1, LiveKinds DEF JobsReal
  <2>2. SameShape(Written(line, handler[p]), line)
    BY <1>1, <2>1, ReadShape
  <2> QED BY <1>1, <2>2
<1>4. \A q \in Handlers : /\ PushedOnly(q)' <=> PushedOnly(q)
                          /\ PushedOnly(q) => handler'[q] = handler[q]
  BY <1>1, <1>2 DEF PushedOnly
<1>5. \A q \in Handlers : /\ PushedShape(q)' <=> PushedShape(q)
                          /\ PushedShape(q) => handler'[q] = handler[q]
  BY <1>4 DEF PushedShape
<1>6. Uncounted'
  BY <1>2 DEF Uncounted
<1>7. ASSUME NEW u \in Sides, inbox'[u].wire = "open"
      PROVE  /\ inbox'[u].vague \/ BadgeInv(u)'
             /\ inbox'[u].hazy \/ PreviewInv(u)'
  <2>1. /\ inbox[u].vague \/ BadgeInv(u)
        /\ inbox[u].hazy \/ PreviewInv(u)
    BY <1>1, <1>7 DEF InboxInv
  <2>2. inbox'[u].vague \/ BadgeInv(u)'
    <3>1. BadgeInv(u) => \A q, r \in Handlers : PushedOnly(q)' /\ PushedOnly(r)' => q = r
      BY <1>4 DEF BadgeInv
    <3>2. BadgeInv(u) => BadgeInv(u)'
      BY <1>6, <3>1 DEF BadgeInv
    <3> QED BY <1>1, <2>1, <3>2
  <2>3. inbox'[u].hazy \/ PreviewInv(u)'
    BY <1>1, <1>3, <1>5, <2>1, PreviewKept
  <2> QED BY <2>2, <2>3
<1> QED BY <1>7 DEF InboxInv

LEMMA AbortInbox ==
    ASSUME LiveInv, LinesTyped', NEW p \in Handlers, AbortJob(p)
    PROVE  InboxInv'
<1> USE DEF LiveInv
<1>1. UNCHANGED line /\ handler' = [handler EXCEPT ![p] = NoJob]
  BY DEF AbortJob
<1>2. handler'[p] = NoJob /\ \A q \in Handlers \ {p} : handler'[q] = handler[q]
  BY <1>1 DEF JobsTyped
<1>3. CASE PushedOnly(p) \/ handler[p].over
  <2>1. \A u \in Sides : inbox'[u] = [inbox[u] EXCEPT !.vague = TRUE, !.hazy = TRUE]
    BY <1>3 DEF AbortJob
  <2>2. \A u \in Sides : inbox'[u].vague /\ inbox'[u].hazy
    BY <2>1 DEF ScreensTyped, Inbox
  <2> QED BY <2>2 DEF InboxInv
<1>4. CASE ~(PushedOnly(p) \/ handler[p].over)
  <2>1. UNCHANGED inbox
    BY <1>4 DEF AbortJob
  <2>2. ~PushedOnly(p)'
    BY <1>2, LiveKinds DEF PushedOnly
  <2> QED BY <1>1, <1>2, <1>4, <2>1, <2>2, InboxesElse
<1> QED BY <1>3, <1>4

LEMMA ModeratedInbox ==
    ASSUME LiveInv, NEW t \in LineIds, NEW removed \in BOOLEAN, Moderated(t, removed)
    PROVE  InboxInv'
<1>1. \A u \in Sides : inbox'[u] = [inbox[u] EXCEPT !.vague = TRUE, !.hazy = TRUE]
  BY DEF Moderated
<1>2. \A u \in Sides : inbox'[u].vague /\ inbox'[u].hazy
  BY <1>1 DEF LiveInv, ScreensTyped, Inbox
<1> QED BY <1>2 DEF InboxInv

LEMMA CommitInbox ==
    ASSUME LiveInv, LinesTyped', NEW p \in Handlers, CommitJob(p)
    PROVE  InboxInv'
<1> USE DEF LiveInv
<1> DEFINE job == handler[p]
<1>1. /\ job \in Job /\ job.step = "pushed" /\ UNCHANGED inbox
      /\ line' = (IF job.over THEN line ELSE Written(line, job))
      /\ handler' = [handler EXCEPT ![p] = NoJob]
  BY JobsAre DEF CommitJob
<1>2. handler'[p] = NoJob /\ \A q \in Handlers \ {p} : handler'[q] = handler[q]
  BY <1>1 DEF JobsTyped
<1>3. ~PushedOnly(p)'
  BY <1>2, LiveKinds DEF PushedOnly
<1>4. CASE job.over
  <2>1. ~PushedOnly(p) /\ UNCHANGED <<line, inbox>>
    BY <1>1, <1>4 DEF PushedOnly
  <2> QED BY <1>1, <1>2, <1>3, <2>1, InboxesElse
<1>5. CASE ~job.over
  <2>1. line' = Written(line, job) /\ PushedOnly(p)
    BY <1>1, <1>5 DEF PushedOnly
  <2>2. \A q \in Handlers \ {p} : (PushedOnly(q)' <=> PushedOnly(q)) /\ (PushedShape(q)' <=> PushedShape(q))
    BY <1>2 DEF PushedOnly, PushedShape
  <2>3. ~PushedShape(p)'
    BY <1>3 DEF PushedShape
  <2>4. Uncounted => Uncounted'
    BY <1>1, <1>2 DEF Uncounted
  <2>5. ASSUME NEW u \in Sides, BadgeInv(u) PROVE BadgeInv(u)'
    <3>1. \A q \in Handlers : ~PushedOnly(q)'
      BY <1>3, <2>1, <2>2, <2>5 DEF BadgeInv
    <3>2. Uncounted \/ inbox[u].badge = unread_count(Written(line, job), u)
      BY <2>1, <2>5 DEF BadgeInv
    <3> QED BY <1>1, <2>1, <2>4, <3>1, <3>2 DEF BadgeInv
  <2>6. ASSUME NEW u \in Sides, PreviewInv(u) PROVE PreviewInv(u)'
    <3>1. CASE job.op \in {"read", "receipt"}
      <4>1. line[job.of] # NoLine
        BY <1>1, <3>1, LiveKinds DEF JobsReal
      <4>2. SameShape(Written(line, job), line)
        BY <1>1, <3>1, <4>1, ReadShape
      <4>3. SameShape(line', line)
        BY <2>1, <4>2
      <4>4. ~PushedShape(p)
        BY <3>1 DEF PushedShape
      <4>5. \A q \in Handlers : /\ PushedShape(q)' <=> PushedShape(q)
                                /\ PushedShape(q) => handler'[q] = handler[q]
        BY <1>2, <2>2, <2>3, <4>4
      <4>6. inbox'[u].preview = inbox[u].preview
        BY <1>1
      <4> QED BY <2>6, <4>3, <4>5, <4>6, PreviewKept
    <3>2. CASE job.op \notin {"read", "receipt"}
      <4>1. PushedShape(p)
        BY <2>1, <3>2 DEF PushedShape
      <4>2. \A q \in Handlers : ~PushedShape(q)'
        BY <2>2, <2>3, <2>6, <4>1 DEF PreviewInv
      <4>3. inbox[u].preview = message_preview(Written(line, job))
        BY <2>6, <4>1 DEF PreviewInv
      <4> QED BY <1>1, <2>1, <4>2, <4>3 DEF PreviewInv
    <3> QED BY <3>1, <3>2
  <2> QED BY <1>1, <2>5, <2>6 DEF InboxInv
<1> QED BY <1>4, <1>5

LEMMA PushedInbox ==
    ASSUME LiveInv, LinesTyped', NEW p \in Handlers, PushInbox(p)
    PROVE  InboxInv'
<1> USE DEF LiveInv
<1> DEFINE job == handler[p]
           rows == AsRead(p)
           moves == job.op = "delete" /\ last_message(rows) # job.last
           unseen == \E q \in Handlers \ {p} : PushedOnly(q)
           counted(i, u) == [i EXCEPT !.badge = unread_count(rows, u), !.vague = unseen]
           late == unseen \/ job.of # last_message(rows)
           frame(i, u) ==
            CASE job.op \in {"read", "receipt"} -> counted(i, u)
              [] job.op = "send" -> [counted(i, u) EXCEPT !.preview = <<job.of, FALSE>>, !.hazy = late]
              [] job.op \in {"edit", "delete"} -> [counted(i, u) EXCEPT
                     !.preview = message_preview(rows), !.hazy = unseen]
           told == [u \in Sides |-> frame(inbox[u], u)]
<1>1. /\ job \in Job /\ job.step = "announced" /\ UNCHANGED <<line, lastAt, taken>>
  BY JobsAre DEF PushInbox
<1>2. PICK held \in BOOLEAN : held = (job.locks \/ moves)
  OBVIOUS
<1> DEFINE j == [handler[p] EXCEPT !.step = "pushed", !.locks = held]
<1>3. handler' = [handler EXCEPT ![p] = j]
  BY <1>2 DEF PushInbox
<1>4. j.step = "pushed" /\ j.op = job.op /\ j.of = job.of /\ j.by = job.by /\ j.over = job.over
  BY <1>1, <1>2 DEF Job
<1> HIDE DEF j
<1>5. handler'[p] = j /\ \A q \in Handlers \ {p} : handler'[q] = handler[q]
  BY <1>3 DEF JobsTyped
<1>6. send_users(told, Participants(job))
  BY DEF PushInbox
<1>7. job.op \in {"send", "edit", "delete", "read", "receipt"} /\ job.of \in LineIds
  BY <1>1 DEF Job
<1>8. /\ job.over <=> job.op = "receipt"
      /\ job.op # "send" => line[job.of] # NoLine
  BY <1>1, LiveKinds DEF JobsReal
<1>9. unseen \in BOOLEAN /\ late \in BOOLEAN
  OBVIOUS
<1>10. ASSUME NEW u \in Sides, NEW v, v = frame(inbox[u], u)
       PROVE  /\ v.badge = unread_count(rows, u) /\ v.vague = unseen
              /\ job.op \in {"read", "receipt"} => v.preview = inbox[u].preview /\ v.hazy = inbox[u].hazy
              /\ job.op = "send" => v.preview = <<job.of, FALSE>> /\ v.hazy = late
              /\ job.op \in {"edit", "delete"} => v.preview = message_preview(rows) /\ v.hazy = unseen
  <2> DEFINE n == unread_count(rows, u)
             m == message_preview(rows)
             i == inbox[u]
  <2>1. i \in Inbox
    BY DEF ScreensTyped
  <2>2. v = CASE job.op \in {"read", "receipt"} -> [i EXCEPT !.badge = n, !.vague = unseen]
              [] job.op = "send" -> [[i EXCEPT !.badge = n, !.vague = unseen] EXCEPT
                     !.preview = <<job.of, FALSE>>, !.hazy = late]
              [] job.op \in {"edit", "delete"} ->
                    [[i EXCEPT !.badge = n, !.vague = unseen] EXCEPT !.preview = m, !.hazy = unseen]
    BY <1>10
  <2> HIDE DEF n, m, i, unseen, late, rows, frame
  <2> DEFINE c == [i EXCEPT !.badge = n, !.vague = unseen]
  <2>4. /\ c.badge = n /\ c.vague = unseen /\ c.preview = i.preview /\ c.hazy = i.hazy
        /\ DOMAIN c = {"wire", "badge", "preview", "vague", "hazy"}
    BY <2>1 DEF Inbox
  <2>5. v = CASE job.op \in {"read", "receipt"} -> c
              [] job.op = "send" -> [c EXCEPT !.preview = <<job.of, FALSE>>, !.hazy = late]
              [] job.op \in {"edit", "delete"} -> [c EXCEPT !.preview = m, !.hazy = unseen]
    BY <2>2
  <2> HIDE DEF c, job
  <2>6. CASE job.op \in {"read", "receipt"}
    BY <2>4, <2>5, <2>6 DEF n, m, i
  <2>7. CASE job.op = "send"
    BY <2>4, <2>5, <2>7 DEF n, m, i
  <2>8. CASE job.op \in {"edit", "delete"}
    BY <2>4, <2>5, <2>8 DEF n, m, i
  <2> QED BY <1>7, <2>6, <2>7, <2>8
<1>11. \A u \in Sides : told[u] = frame(inbox[u], u)
  OBVIOUS
<1> HIDE DEF frame, told
<1>12. ASSUME NEW u \in Sides, inbox'[u].wire = "open"
       PROVE  inbox[u].wire = "open" /\ inbox'[u] = frame(inbox[u], u)
  <2>1. inbox'[u] = IF u \notin Participants(job) THEN inbox[u]
                    ELSE IF inbox[u].wire = "open" THEN told[u]
                    ELSE [inbox[u] EXCEPT !.wire = "none"]
    BY <1>6, SendUsers
  <2>2. u \in Participants(job)
    BY DEF Participants
  <2>3. inbox[u].wire # "open" => inbox'[u].wire = "none"
    BY <2>1, <2>2 DEF ScreensTyped, Inbox
  <2> QED BY <1>11, <1>12, <2>1, <2>2, <2>3
<1>13. /\ PushedOnly(p)' <=> ~job.over
       /\ \A q \in Handlers \ {p} : PushedOnly(q)' <=> PushedOnly(q)
  BY <1>4, <1>5 DEF PushedOnly
<1>14. rows = IF job.over THEN line ELSE Written(line, job)
  BY DEF AsRead
<1>15. Written(line', handler'[p]) = Written(line, job)
  BY <1>1, <1>4, <1>5 DEF Written
<1>16. ~PushedOnly(p)
  BY <1>1 DEF PushedOnly
<1> HIDE DEF rows, job
<1>17. ASSUME NEW u \in Sides, inbox'[u].wire = "open" PROVE inbox'[u].vague \/ BadgeInv(u)'
  <2>1. inbox'[u].badge = unread_count(rows, u) /\ inbox'[u].vague = unseen
    BY <1>10, <1>12, <1>17
  <2>2. CASE unseen
    BY <2>1, <2>2
  <2>3. CASE ~unseen
    <3>1. \A q \in Handlers \ {p} : ~PushedOnly(q)'
      BY <1>13, <2>3
    <3>2. CASE job.over
      <4>1. \A q \in Handlers : ~PushedOnly(q)'
        BY <1>13, <3>1, <3>2
      <4>2. inbox'[u].badge = unread_count(line', u)
        BY <1>1, <1>14, <2>1, <3>2
      <4> QED BY <4>1, <4>2 DEF BadgeInv
    <3>3. CASE ~job.over
      <4>1. PushedOnly(p)'
        BY <1>13, <3>3
      <4>2. inbox'[u].badge = unread_count(Written(line', handler'[p]), u)
        BY <1>14, <1>15, <2>1, <3>3
      <4>3. ASSUME NEW q \in Handlers, PushedOnly(q)' PROVE q = p
        BY <3>1, <4>3
      <4> QED BY <4>1, <4>2, <4>3 DEF BadgeInv
    <3> QED BY <3>2, <3>3
  <2> QED BY <2>2, <2>3
<1>18. ASSUME NEW u \in Sides, inbox'[u].wire = "open" PROVE inbox'[u].hazy \/ PreviewInv(u)'
  <2>1. inbox[u].hazy \/ PreviewInv(u)
    BY <1>12, <1>18 DEF InboxInv
  <2>2. CASE job.op \in {"read", "receipt"}
    <3>1. inbox'[u].preview = inbox[u].preview /\ inbox'[u].hazy = inbox[u].hazy
      BY <1>10, <1>12, <1>18, <2>2
    <3>2. ~PushedShape(p) /\ ~PushedShape(p)'
      BY <1>4, <1>5, <1>16, <2>2 DEF PushedShape
    <3>3. \A q \in Handlers : /\ PushedShape(q)' <=> PushedShape(q)
                              /\ PushedShape(q) => handler'[q] = handler[q]
      BY <1>5, <1>13, <3>2 DEF PushedShape
    <3>4. SameShape(line', line)
      BY <1>1, ShapeOfItself
    <3>5. PreviewInv(u) => PreviewInv(u)'
      BY <3>1, <3>3, <3>4, PreviewKept
    <3> QED BY <2>1, <3>1, <3>5
  <2>3. CASE job.op \notin {"read", "receipt"}
    <3>1. ~job.over /\ rows = Written(line', handler'[p])
      BY <1>8, <1>14, <1>15, <2>3
    <3>2. inbox'[u].hazy \/ (~unseen /\ inbox'[u].preview = message_preview(rows))
      <4>1. CASE job.op \in {"edit", "delete"}
        BY <1>10, <1>12, <1>18, <4>1
      <4>2. CASE job.op = "send"
        <5>1. inbox'[u].preview = <<job.of, FALSE>> /\ inbox'[u].hazy = late
          BY <1>10, <1>12, <1>18, <4>2
        <5>2. ASSUME job.of = last_message(rows) PROVE message_preview(rows) = <<job.of, FALSE>>
          <6>1. ~rows[job.of].edited
            <7>1. DOMAIN line = LineIds /\ \A t \in LineIds : line[t] = NoLine \/ line[t] \in Line
              BY DEF LinesTyped
            <7>2. ~Written(line, job)[job.of].edited
              BY <1>1, <4>2, <7>1, WrittenFields
            <7> QED BY <1>14, <3>1, <7>2
          <6>2. (job.of # 0 /\ rows[job.of].edited) = FALSE
            BY <6>1
          <6> QED BY <5>2, <6>2 DEF message_preview
        <5> QED BY <5>1, <5>2
      <4> QED BY <1>7, <2>3, <4>1, <4>2
    <3>3. PushedShape(p)'
      BY <1>4, <1>5, <1>13, <2>3, <3>1 DEF PushedShape
    <3>4. ASSUME ~unseen, inbox'[u].preview = message_preview(rows) PROVE PreviewInv(u)'
      <4>1. ASSUME NEW q \in Handlers, PushedShape(q)' PROVE q = p
        BY <1>13, <3>4, <4>1 DEF PushedShape
      <4>2. inbox'[u].preview = message_preview(Written(line', handler'[p]))
        BY <3>1, <3>4
      <4> QED BY <3>3, <4>1, <4>2 DEF PreviewInv
    <3> QED BY <3>2, <3>4
  <2> QED BY <2>2, <2>3
<1> QED BY <1>17, <1>18 DEF InboxInv

-----------------------------------------------------------------------------
LEMMA LiveNextInv == ASSUME LiveInv, [LiveNext]_liveVars PROVE LiveInv'
<1>1. ASSUME NEW u \in Sides, OpenWindow(u) PROVE LiveInv'
  <2>1. LinesTyped' /\ JobsTyped' /\ ScreensTyped' /\ JobsReal'
    BY <1>1, OpenWindowTypes
  <2>2. InboxInv'
    BY <1>1, ScreenInbox DEF OpenWindow
  <2> QED BY <1>1, <2>1, <2>2, OpenWindowThread DEF LiveInv
<1>2. ASSUME NEW u \in Sides, OpenInbox(u) PROVE LiveInv'
  BY <1>2, OpenInboxTypes, OpenInboxThread, OpenInboxInbox DEF LiveInv
<1>3. ASSUME NEW u \in Sides, Leave(u) PROVE LiveInv'
  BY <1>3, LeaveTypes, LeaveThread, LeaveInbox DEF LiveInv
<1>4. ASSUME NEW p \in Handlers, NEW op \in {"send", "edit", "delete", "read", "receipt"},
             NEW u \in Sides, NEW t \in LineIds, Receive(p, op, u, t)
      PROVE  LiveInv'
  <2>1. LinesTyped' /\ JobsTyped' /\ ScreensTyped' /\ JobsReal'
    BY <1>4, ReceiveTypes
  <2>2. ThreadInv'
    BY <1>4, ReceiveThread
  <2>3. InboxInv'
    BY <1>4, <2>1, ReceiveInbox
  <2> QED BY <2>1, <2>2, <2>3 DEF LiveInv
<1>5. ASSUME NEW p \in Handlers, FlushLine(p) PROVE LiveInv'
  BY <1>5, FlushTypes, FlushThread, FlushInbox DEF LiveInv
<1>6. ASSUME NEW p \in Handlers, CommitReceipt(p) PROVE LiveInv'
  BY <1>6, ReceiptTypes, ReceiptThread, ReceiptInbox DEF LiveInv
<1>7. ASSUME NEW p \in Handlers, Announce(p) PROVE LiveInv'
  BY <1>7, AnnounceTypes, AnnounceThread, AnnounceInbox DEF LiveInv
<1>8. ASSUME NEW p \in Handlers, PushInbox(p) PROVE LiveInv'
  BY <1>8, PushTypes, PushThread, PushedInbox DEF LiveInv
<1>9. ASSUME NEW p \in Handlers, CommitJob(p) PROVE LiveInv'
  BY <1>9, CommitTypes, CommitThread, CommitInbox DEF LiveInv
<1>10. ASSUME NEW p \in Handlers, AbortJob(p) PROVE LiveInv'
  BY <1>10, AbortTypes, AbortThread, AbortInbox DEF LiveInv
<1>11. ASSUME NEW t \in LineIds, NEW removed \in BOOLEAN, Moderated(t, removed) PROVE LiveInv'
  BY <1>11, ModeratedTypes, ModeratedThread, ModeratedInbox DEF LiveInv
<1>12. CASE UNCHANGED liveVars
  <2>1. UNCHANGED <<line, lastAt, taken, handler, window, inbox>>
    BY <1>12 DEF liveVars
  <2>2. LinesTyped' /\ JobsTyped' /\ JobsReal' /\ ScreensTyped'
    BY <2>1, JobsKept, ScreensKept DEF LiveInv
  <2>3. \A t \in LineIds : /\ \A op \in {"send", "delete", "read"} : Ahead(op, t)' <=> Ahead(op, t)
                           /\ Late(t)' <=> Late(t)
    BY <2>1 DEF Ahead, Late, Pending
  <2>4. ThreadInv'
    BY <2>1, <2>3, ThreadsKept DEF LiveInv
  <2>5. InboxInv'
    BY <2>1, ScreenInbox
  <2> QED BY <2>2, <2>4, <2>5 DEF LiveInv
<1>13. CASE LiveNext
  BY <1>1, <1>2, <1>3, <1>4, <1>5, <1>6, <1>7, <1>8, <1>9, <1>10, <1>11, <1>13 DEF LiveNext
<1> QED BY <1>12, <1>13

\* At rest nothing is ahead of what is committed.
LEMMA LiveInvTrue == LiveInv => LiveTrue
<1> SUFFICES ASSUME LiveInv, AtRest
             PROVE  /\ \A u \in Sides : window[u].wire = "open" =>
                          \A t \in LineIds \ window[u].doubtful :
                              /\ t \in window[u].shown <=> t \in Visible(line)
                              /\ t \in Visible(line) /\ line[t].by = u =>
                                    (t \in window[u].ticks <=> line[t].read)
                    /\ \A u \in Sides : inbox[u].wire = "open" =>
                          /\ inbox[u].vague \/ inbox[u].badge = unread_count(line, u)
                          /\ inbox[u].hazy \/ inbox[u].preview = message_preview(line)
  BY DEF LiveTrue, ThreadTrue, InboxTrue
<1>1. \A p \in Handlers : ~Pending(p) /\ ~PushedOnly(p) /\ ~handler[p].over
  BY LiveKinds DEF AtRest, Pending, PushedOnly
<1>2. \A op, t : ~Ahead(op, t) /\ ~Late(t)
  BY <1>1 DEF Ahead, Late
<1>3. ~Uncounted /\ \A p \in Handlers : ~PushedShape(p)
  BY <1>1 DEF Uncounted, PushedShape
<1>4. ASSUME NEW u \in Sides, window[u].wire = "open", NEW t \in LineIds \ window[u].doubtful
      PROVE  /\ t \in window[u].shown <=> t \in Visible(line)
             /\ t \in Visible(line) /\ line[t].by = u => (t \in window[u].ticks <=> line[t].read)
  BY <1>2, <1>4 DEF LiveInv, ThreadInv, ShownInv, TicksInv
<1>5. ASSUME NEW u \in Sides, inbox[u].wire = "open"
      PROVE  /\ inbox[u].vague \/ inbox[u].badge = unread_count(line, u)
             /\ inbox[u].hazy \/ inbox[u].preview = message_preview(line)
  BY <1>1, <1>3, <1>5 DEF LiveInv, InboxInv, BadgeInv, PreviewInv
<1> QED BY <1>4, <1>5

\* Whatever is sent, edited, read and deleted beside each other, by however many requests and
\* sockets, once nothing is in progress every open thread and every open list shows what is
\* committed, but for the messages and entries whose frames the code cannot put right: those of
\* a request that rolled back, or that had not seen what another one had pushed.
THEOREM WindowsAreTrue == LiveSpec => [](LiveTypeOK /\ LiveTrue /\ WindowsTrue)
<1>1. LiveInv => LiveTypeOK /\ LiveTrue /\ WindowsTrue
  BY LiveTyped, LiveInvTrue DEF LiveInv, WindowsTrue
<1> QED BY <1>1, LiveInitInv, LiveNextInv, PTL DEF LiveSpec

-----------------------------------------------------------------------------
(* The bookings on the lists                                                  *)

\* The dates of a booking are of the past, come in order, and are there when they should be.
DatesInv(r, now) ==
    /\ r.created < now /\ r.paidAt < now /\ r.confirmedAt < now /\ r.completedAt < now
    /\ r.completedAt # Unset <=> r.status = "completed"
    /\ r.status = "completed" => /\ r.start <= r.completedAt /\ r.created < r.completedAt
                                 /\ r.confirmedAt <= r.completedAt
    /\ r.paidAt # Unset => r.created < r.paidAt /\ r.confirmedAt # Unset
    /\ r.bill = "succeeded" => r.paidAt # Unset
    /\ r.bill = "pending" => r.payment = "unpaid" /\ r.due > 0
    /\ r.due > 0 /\ r.status \in {"confirmed", "completed"} => r.payment = "paid"

OpenRow(r) == r.status \in {"pending", "confirmed"}

\* Two open bookings of an advisor are not at one time.
Apart(r, o) ==
    OpenRow(r) /\ OpenRow(o) /\ r.advisor = o.advisor =>
        r.start + SessionLength <= o.start \/ o.start + SessionLength <= r.start

ScreenInv ==
    /\ ScreensTypeOK
    /\ \A b \in DOMAIN agenda : DatesInv(agenda[b], tick)
    /\ \A b, c \in DOMAIN agenda : b # c => Apart(agenda[b], agenda[c])

LEMMA AgendaRows ==
    ASSUME ScreensTypeOK
    PROVE  /\ DOMAIN agenda = 1 .. Len(agenda) /\ Len(agenda) \in Nat
           /\ \A b \in DOMAIN agenda : agenda[b] \in Appointment
           /\ tick \in Nat /\ MaxTick \in Nat
           /\ \A b \in DOMAIN agenda : agenda[b].start \in Nat /\ agenda[b].start <= MaxTick
<1>1. agenda \in Seq(Appointment) /\ tick \in 0 .. MaxTick
  BY DEF ScreensTypeOK
<1>2. /\ DOMAIN agenda = 1 .. Len(agenda) /\ Len(agenda) \in Nat
      /\ \A b \in DOMAIN agenda : agenda[b] \in Appointment
  BY <1>1
<1>3. \A b \in DOMAIN agenda : agenda[b].start \in Starts
  BY <1>2 DEF Appointment
<1>4. \A b \in DOMAIN agenda : agenda[b].start \in 0 .. MaxTick
  BY <1>3, HorizonAssumption
<1>5. \A b \in DOMAIN agenda : agenda[b].start \in Nat /\ agenda[b].start <= MaxTick
  BY <1>4, HorizonAssumption
<1> QED BY <1>1, <1>2, <1>5, HorizonAssumption

LEMMA ScreensInitInv == ScreensInit => ScreenInv
<1> SUFFICES ASSUME ScreensInit PROVE ScreenInv
  OBVIOUS
<1>1. agenda = <<>> /\ tick = 0
  BY DEF ScreensInit
<1>2. agenda \in Seq(Appointment) /\ Len(agenda) = 0 /\ DOMAIN agenda = {}
  BY <1>1
<1>3. ScreensTypeOK
  BY <1>1, <1>2, HorizonAssumption DEF ScreensTypeOK
<1> QED BY <1>2, <1>3 DEF ScreenInv

\* What the passing of time does to the dates
LEMMA DatesPass ==
    ASSUME NEW r \in Appointment, NEW now \in Nat, DatesInv(r, now)
    PROVE  DatesInv(r, now + 1)
BY HorizonAssumption DEF DatesInv, Appointment, Unset

\* A booking changes.
LEMMA RowChanges ==
    ASSUME ScreenInv, Ticks, NEW b \in DOMAIN agenda, NEW r \in Appointment,
           agenda' = [agenda EXCEPT ![b] = r],
           DatesInv(r, tick + 1),
           \A c \in DOMAIN agenda : c # b => Apart(r, agenda[c])
    PROVE  ScreenInv'
<1>1. /\ DOMAIN agenda = 1 .. Len(agenda) /\ Len(agenda) \in Nat
      /\ \A c \in DOMAIN agenda : agenda[c] \in Appointment
      /\ tick \in Nat /\ MaxTick \in Nat
  BY AgendaRows DEF ScreenInv
<1>2. agenda \in Seq(Appointment) /\ Len(agenda) <= MaxVisits /\ tick \in 0 .. MaxTick
  BY DEF ScreenInv, ScreensTypeOK
<1>3. agenda' \in Seq(Appointment) /\ Len(agenda') = Len(agenda) /\ DOMAIN agenda' = DOMAIN agenda
  BY <1>2
<1>4. tick' = tick + 1 /\ tick < MaxTick
  BY DEF Ticks
<1>5. ScreensTypeOK'
  BY <1>1, <1>2, <1>3, <1>4 DEF ScreensTypeOK
<1>6. agenda'[b] = r /\ \A c \in DOMAIN agenda : c # b => agenda'[c] = agenda[c]
  OBVIOUS
<1>7. ASSUME NEW c \in DOMAIN agenda PROVE DatesInv(agenda'[c], tick + 1)
  <2>1. CASE c = b
    BY <1>6, <2>1
  <2>2. CASE c # b
    <3>1. DatesInv(agenda[c], tick) /\ agenda[c] \in Appointment
      BY <1>1 DEF ScreenInv
    <3> QED BY <1>1, <1>6, <2>2, <3>1, DatesPass
  <2> QED BY <2>1, <2>2
<1>8. ASSUME NEW c \in DOMAIN agenda, NEW d \in DOMAIN agenda, c # d
      PROVE  Apart(agenda'[c], agenda'[d])
  <2>1. CASE c = b
    BY <1>6, <1>8, <2>1
  <2>2. CASE d = b
    <3>1. Apart(r, agenda[c])
      BY <1>8, <2>2
    <3>2. Apart(agenda[c], r)
      BY <3>1 DEF Apart
    <3> QED BY <1>6, <1>8, <2>2, <3>2
  <2>3. CASE c # b /\ d # b
    BY <1>6, <1>8, <2>3 DEF ScreenInv
  <2> QED BY <2>1, <2>2, <2>3
<1> QED BY <1>3, <1>4, <1>5, <1>7, <1>8 DEF ScreenInv

\* A booking is added.
LEMMA RowAdded ==
    ASSUME ScreenInv, Ticks, Len(agenda) < MaxVisits, NEW r \in Appointment,
           agenda' = Append(agenda, r),
           DatesInv(r, tick + 1),
           \A c \in DOMAIN agenda : Apart(r, agenda[c])
    PROVE  ScreenInv'
<1>1. /\ DOMAIN agenda = 1 .. Len(agenda) /\ Len(agenda) \in Nat
      /\ \A c \in DOMAIN agenda : agenda[c] \in Appointment
      /\ tick \in Nat /\ MaxTick \in Nat
  BY AgendaRows DEF ScreenInv
<1>2. agenda \in Seq(Appointment) /\ tick \in 0 .. MaxTick
  BY DEF ScreenInv, ScreensTypeOK
<1> DEFINE n == Len(agenda) + 1
<1>3. agenda' \in Seq(Appointment) /\ Len(agenda') = n /\ DOMAIN agenda' = DOMAIN agenda \cup {n}
      /\ n \notin DOMAIN agenda
  BY <1>1, <1>2
<1>4. tick' = tick + 1 /\ tick < MaxTick
  BY DEF Ticks
<1>5. ScreensTypeOK'
  BY <1>1, <1>2, <1>3, <1>4, HorizonAssumption DEF ScreensTypeOK
<1>6. agenda'[n] = r /\ \A c \in DOMAIN agenda : agenda'[c] = agenda[c]
  BY <1>1, <1>2
<1> HIDE DEF n
<1>7. ASSUME NEW c \in DOMAIN agenda' PROVE DatesInv(agenda'[c], tick + 1)
  <2>1. CASE c = n
    BY <1>6, <2>1
  <2>2. CASE c # n
    <3>1. c \in DOMAIN agenda
      BY <1>3, <1>7, <2>2
    <3>2. DatesInv(agenda[c], tick) /\ agenda[c] \in Appointment
      BY <1>1, <3>1 DEF ScreenInv
    <3> QED BY <1>1, <1>6, <3>1, <3>2, DatesPass
  <2> QED BY <2>1, <2>2
<1>8. ASSUME NEW c \in DOMAIN agenda', NEW d \in DOMAIN agenda', c # d
      PROVE  Apart(agenda'[c], agenda'[d])
  <2>1. CASE c = n
    <3>1. d \in DOMAIN agenda
      BY <1>3, <1>8, <2>1
    <3> QED BY <1>6, <2>1, <3>1
  <2>2. CASE d = n
    <3>1. c \in DOMAIN agenda
      BY <1>3, <1>8, <2>2
    <3>2. Apart(agenda[c], r)
      BY <3>1 DEF Apart
    <3> QED BY <1>6, <2>2, <3>1, <3>2
  <2>3. CASE c # n /\ d # n
    <3>1. c \in DOMAIN agenda /\ d \in DOMAIN agenda
      BY <1>3, <1>8, <2>3
    <3> QED BY <1>6, <1>8, <3>1 DEF ScreenInv
  <2> QED BY <2>1, <2>2, <2>3
<1> QED BY <1>3, <1>4, <1>5, <1>7, <1>8 DEF ScreenInv
LEMMA RequestedRow ==
    ASSUME ScreenInv, NEW s \in Guests, NEW a \in Hosts, NEW t \in Starts, NEW due \in {0, 1}, Ticks
    PROVE  LET r == ReservedRow(s, a, t, due) IN
           /\ r \in Appointment /\ r.advisor = a /\ r.start = t /\ r.status = "pending"
           /\ DatesInv(r, tick + 1)
<1> DEFINE r == ReservedRow(s, a, t, due)
<1>1. tick \in 0 .. MaxTick /\ tick \in Nat
  BY AgendaRows DEF ScreenInv, ScreensTypeOK
<1>2. r \in Appointment /\ r.advisor = a /\ r.start = t /\ r.status = "pending"
  BY <1>1 DEF ReservedRow, Appointment, Stage, Unset
<1>3. DatesInv(r, tick + 1)
  BY <1>1 DEF ReservedRow, DatesInv, Unset
<1> QED BY <1>2, <1>3

\* What is vacant for a booking is apart from every other one.
LEMMA VacantApart ==
    ASSUME ScreensTypeOK, NEW r, NEW t, r.start = t, NEW but, Vacant(r.advisor, t, but),
           NEW c \in DOMAIN agenda, c # but
    PROVE  Apart(r, agenda[c])
BY DEF Vacant, Apart, OpenRow, IsOpen, Ends

LEMMA RequestScreen ==
    ASSUME ScreenInv, NEW s \in Guests, NEW a \in Hosts, NEW t \in Starts, NEW due \in {0, 1},
           Request(s, a, t, due)
    PROVE  ScreenInv'
<1> DEFINE r == ReservedRow(s, a, t, due)
<1>1. Ticks /\ Len(agenda) < MaxVisits /\ Vacant(a, t, 0) /\ agenda' = Append(agenda, r)
  BY DEF Request
<1>2. r \in Appointment /\ r.advisor = a /\ r.start = t /\ DatesInv(r, tick + 1)
  BY <1>1, RequestedRow
<1> HIDE DEF r
<1>3. \A c \in DOMAIN agenda : c # 0
  BY AgendaRows DEF ScreenInv
<1>4. \A c \in DOMAIN agenda : Apart(r, agenda[c])
  <2>1. Vacant(r.advisor, t, 0) /\ r.start = t
    BY <1>1, <1>2
  <2> QED BY <1>3, <2>1, VacantApart DEF ScreenInv
<1> QED BY <1>1, <1>2, <1>4, RowAdded

LEMMA BookForScreen ==
    ASSUME ScreenInv, NEW s \in Guests, NEW a \in Hosts, NEW t \in Starts, NEW meeting \in BOOLEAN,
           BookFor(a, s, t, meeting)
    PROVE  ScreenInv'
<1> DEFINE q == ReservedRow(s, a, t, 0)
           r == [q EXCEPT !.status = "confirmed", !.payment = "paid", !.meeting = meeting]
<1>1. Ticks /\ Len(agenda) < MaxVisits /\ Vacant(a, t, 0) /\ agenda' = Append(agenda, r)
  BY DEF BookFor
<1>2. tick \in 0 .. MaxTick /\ tick \in Nat
  BY AgendaRows DEF ScreenInv, ScreensTypeOK
<1>3. r \in Appointment /\ r.advisor = a /\ r.start = t
  BY <1>2 DEF ReservedRow, Appointment, Stage, Unset
<1>4. DatesInv(r, tick + 1)
  BY <1>2 DEF ReservedRow, DatesInv, Unset
<1> HIDE DEF r, q
<1>5. \A c \in DOMAIN agenda : c # 0
  BY AgendaRows DEF ScreenInv
<1>6. \A c \in DOMAIN agenda : Apart(r, agenda[c])
  BY <1>1, <1>3, <1>5, VacantApart DEF ScreenInv
<1> QED BY <1>1, <1>3, <1>4, <1>6, RowAdded

\* A booking that stays where it is, open only if it was
LEMMA SameApart ==
    ASSUME ScreenInv, NEW b \in DOMAIN agenda, NEW r, r.start = agenda[b].start,
           r.advisor = agenda[b].advisor, OpenRow(r) => OpenRow(agenda[b])
    PROVE  \A c \in DOMAIN agenda : c # b => Apart(r, agenda[c])
BY DEF ScreenInv, Apart

\* The facts about the booking that an action starts from
LEMMA RowFacts ==
    ASSUME ScreenInv, NEW b \in DOMAIN agenda
    PROVE  /\ agenda[b] \in Appointment /\ DatesInv(agenda[b], tick)
           /\ tick \in Nat /\ tick \in 0 .. MaxTick
           /\ agenda[b].start \in Nat
BY AgendaRows DEF ScreenInv, ScreensTypeOK

LEMMA CheckoutScreen ==
    ASSUME ScreenInv, NEW b \in DOMAIN agenda, StartCheckout(b)
    PROVE  ScreenInv'
<1> DEFINE o == agenda[b]
           r == [o EXCEPT !.bill = "pending"]
<1>1. o \in Appointment /\ DatesInv(o, tick) /\ tick \in Nat /\ tick \in 0 .. MaxTick
  BY RowFacts
<1>2. /\ Ticks /\ agenda' = [agenda EXCEPT ![b] = r]
      /\ o.status \in {"pending", "confirmed"} /\ o.due > 0 /\ o.payment = "unpaid"
  BY DEF StartCheckout, IsOpen
<1> HIDE DEF o
<1>3. /\ r \in Appointment /\ r.start = o.start /\ r.advisor = o.advisor /\ r.status = o.status
      /\ r.bill = "pending" /\ r.due = o.due /\ r.payment = o.payment /\ r.created = o.created
      /\ r.paidAt = o.paidAt /\ r.confirmedAt = o.confirmedAt /\ r.completedAt = o.completedAt
  BY <1>1 DEF Appointment
<1>4. DatesInv(o, tick + 1)
  BY <1>1, DatesPass
<1> HIDE DEF r
<1>5. DatesInv(r, tick + 1)
  BY <1>2, <1>3, <1>4 DEF DatesInv
<1>6. \A c \in DOMAIN agenda : c # b => Apart(r, agenda[c])
  BY <1>3, SameApart DEF o, OpenRow
<1> QED BY <1>2, <1>3, <1>5, <1>6, RowChanges

LEMMA TakeScreen ==
    ASSUME ScreenInv, NEW b \in DOMAIN agenda, NEW meeting \in BOOLEAN, TakePayment(b, meeting)
    PROVE  ScreenInv'
<1> DEFINE o == agenda[b]
           paid == IF o.paidAt = Unset THEN tick ELSE o.paidAt
           sure == IF o.status = "pending" THEN tick ELSE o.confirmedAt
           r == [o EXCEPT !.bill = "succeeded", !.payment = "paid", !.updated = tick,
                          !.paidAt = paid, !.status = "confirmed", !.confirmedAt = sure, !.meeting = meeting]
<1>1. o \in Appointment /\ DatesInv(o, tick) /\ tick \in Nat /\ tick \in 0 .. MaxTick
  BY RowFacts
<1>2. /\ Ticks /\ agenda' = [agenda EXCEPT ![b] = r]
      /\ o.status \in {"pending", "confirmed"} /\ o.bill = "pending"
  BY DEF TakePayment, IsOpen
<1> HIDE DEF o
<1>3. paid \in {Unset} \cup 0 .. MaxTick /\ sure \in {Unset} \cup 0 .. MaxTick
  BY <1>1 DEF Appointment
<1>4. /\ paid = (IF o.paidAt = Unset THEN tick ELSE o.paidAt)
      /\ sure = (IF o.status = "pending" THEN tick ELSE o.confirmedAt)
  OBVIOUS
<1> HIDE DEF paid, sure
<1>5. /\ r \in Appointment /\ r.start = o.start /\ r.advisor = o.advisor /\ r.status = "confirmed"
      /\ r.bill = "succeeded" /\ r.due = o.due /\ r.payment = "paid" /\ r.created = o.created
      /\ r.paidAt = paid /\ r.confirmedAt = sure /\ r.completedAt = o.completedAt
  BY <1>1, <1>3 DEF Appointment, Stage
<1> HIDE DEF r
<1>6. o.status = "pending" /\ o.created \in Nat /\ o.paidAt \in Int /\ o.completedAt = Unset
  BY <1>1, <1>2, HorizonAssumption DEF DatesInv, Appointment, Unset
<1>7. DatesInv(r, tick + 1)
  BY <1>1, <1>4, <1>5, <1>6 DEF DatesInv, Unset
<1>8. \A c \in DOMAIN agenda : c # b => Apart(r, agenda[c])
  BY <1>2, <1>5, SameApart DEF o, OpenRow
<1> QED BY <1>2, <1>5, <1>7, <1>8, RowChanges

LEMMA AcceptScreen ==
    ASSUME ScreenInv, NEW b \in DOMAIN agenda, NEW meeting \in BOOLEAN, AcceptRequest(b, meeting)
    PROVE  ScreenInv'
<1> DEFINE o == agenda[b]
           r == [o EXCEPT !.status = "confirmed", !.confirmedAt = tick, !.updated = tick, !.meeting = meeting]
<1>1. o \in Appointment /\ DatesInv(o, tick) /\ tick \in Nat /\ tick \in 0 .. MaxTick
  BY RowFacts
<1>2. /\ Ticks /\ agenda' = [agenda EXCEPT ![b] = r]
      /\ o.status = "pending" /\ (o.due > 0 => o.payment = "paid")
  BY DEF AcceptRequest
<1> HIDE DEF o
<1>3. /\ r \in Appointment /\ r.start = o.start /\ r.advisor = o.advisor /\ r.status = "confirmed"
      /\ r.bill = o.bill /\ r.due = o.due /\ r.payment = o.payment /\ r.created = o.created
      /\ r.paidAt = o.paidAt /\ r.confirmedAt = tick /\ r.completedAt = o.completedAt
  BY <1>1 DEF Appointment, Stage
<1> HIDE DEF r
<1>4. DatesInv(o, tick + 1)
  BY <1>1, DatesPass
<1>5. DatesInv(r, tick + 1)
  BY <1>1, <1>2, <1>3, <1>4 DEF DatesInv, Unset
<1>6. \A c \in DOMAIN agenda : c # b => Apart(r, agenda[c])
  BY <1>2, <1>3, SameApart DEF o, OpenRow
<1> QED BY <1>2, <1>3, <1>5, <1>6, RowChanges

LEMMA CallOffScreen ==
    ASSUME ScreenInv, NEW b \in DOMAIN agenda, CallOff(b)
    PROVE  ScreenInv'
<1> DEFINE o == agenda[b]
           payment == IF o.bill = "succeeded" THEN "refunded" ELSE o.payment
           bill == IF o.bill = "succeeded" THEN "refunded" ELSE o.bill
           r == [o EXCEPT !.status = "cancelled", !.updated = tick, !.meeting = FALSE,
                          !.payment = payment, !.bill = bill]
<1>1. o \in Appointment /\ DatesInv(o, tick) /\ tick \in Nat /\ tick \in 0 .. MaxTick
  BY RowFacts
<1>2. Ticks /\ agenda' = [agenda EXCEPT ![b] = r] /\ o.status \in {"pending", "confirmed"}
  BY DEF CallOff, IsOpen
<1> HIDE DEF o
<1>3. /\ payment \in {"unpaid", "paid", "refunded"}
      /\ bill \in {"none", "pending", "succeeded", "refunded"}
      /\ bill # "succeeded" /\ (bill = "pending" => o.bill = "pending" /\ payment = o.payment)
  BY <1>1 DEF Appointment
<1> HIDE DEF payment, bill
<1>4. /\ r \in Appointment /\ r.start = o.start /\ r.advisor = o.advisor /\ r.status = "cancelled"
      /\ r.bill = bill /\ r.due = o.due /\ r.payment = payment /\ r.created = o.created
      /\ r.paidAt = o.paidAt /\ r.confirmedAt = o.confirmedAt /\ r.completedAt = o.completedAt
  <2>1. tick \in 0 .. MaxTick /\ "cancelled" \in Stage
    BY <1>1 DEF Stage
  <2>2. r \in Appointment
    BY <1>1, <1>3, <2>1 DEF Appointment
  <2>3. /\ r.start = o.start /\ r.advisor = o.advisor /\ r.status = "cancelled"
        /\ r.bill = bill /\ r.due = o.due /\ r.payment = payment /\ r.created = o.created
    BY <1>1 DEF Appointment
  <2>4. r.paidAt = o.paidAt /\ r.confirmedAt = o.confirmedAt /\ r.completedAt = o.completedAt
    BY <1>1 DEF Appointment
  <2> QED BY <2>2, <2>3, <2>4
<1> HIDE DEF r
<1>5. DatesInv(o, tick + 1)
  BY <1>1, DatesPass
<1>6. DatesInv(r, tick + 1)
  BY <1>2, <1>3, <1>4, <1>5 DEF DatesInv
<1>7. \A c \in DOMAIN agenda : c # b => Apart(r, agenda[c])
  BY <1>4 DEF Apart, OpenRow
<1> QED BY <1>2, <1>4, <1>6, <1>7, RowChanges

LEMMA MoveScreen ==
    ASSUME ScreenInv, NEW b \in DOMAIN agenda, NEW t \in Starts, MoveTo(b, t)
    PROVE  ScreenInv'
<1> DEFINE o == agenda[b]
           r == [o EXCEPT !.start = t, !.updated = tick]
<1>1. o \in Appointment /\ DatesInv(o, tick) /\ tick \in Nat /\ tick \in 0 .. MaxTick
  BY RowFacts
<1>2. /\ Ticks /\ agenda' = [agenda EXCEPT ![b] = r] /\ o.status \in {"pending", "confirmed"}
      /\ Vacant(o.advisor, t, b)
  BY DEF MoveTo, IsOpen
<1> HIDE DEF o
<1>3. /\ r \in Appointment /\ r.start = t /\ r.advisor = o.advisor /\ r.status = o.status
      /\ r.bill = o.bill /\ r.due = o.due /\ r.payment = o.payment /\ r.created = o.created
      /\ r.paidAt = o.paidAt /\ r.confirmedAt = o.confirmedAt /\ r.completedAt = o.completedAt
  BY <1>1 DEF Appointment
<1> HIDE DEF r
<1>4. DatesInv(o, tick + 1)
  BY <1>1, DatesPass
<1>5. DatesInv(r, tick + 1)
  BY <1>2, <1>3, <1>4 DEF DatesInv
<1>6. \A c \in DOMAIN agenda : c # b => Apart(r, agenda[c])
  BY <1>2, <1>3, VacantApart DEF ScreenInv
<1> QED BY <1>2, <1>3, <1>5, <1>6, RowChanges

LEMMA HoldScreen ==
    ASSUME ScreenInv, NEW b \in DOMAIN agenda, Hold(b)
    PROVE  ScreenInv'
<1> DEFINE o == agenda[b]
           sure == IF o.status = "pending" /\ o.confirmedAt = Unset THEN tick ELSE o.confirmedAt
           r == [o EXCEPT !.status = "completed", !.completedAt = tick, !.updated = tick,
                          !.confirmedAt = sure]
<1>1. o \in Appointment /\ DatesInv(o, tick) /\ tick \in Nat /\ tick \in 0 .. MaxTick /\ o.start \in Nat
  BY RowFacts
<1>2. /\ Ticks /\ agenda' = [agenda EXCEPT ![b] = r] /\ o.status \in {"pending", "confirmed"}
      /\ o.start <= tick /\ (o.status = "pending" => o.due = 0 \/ o.payment = "paid")
  BY DEF Hold, IsOpen
<1> HIDE DEF o
<1>3. sure = tick \/ sure = o.confirmedAt
  OBVIOUS
<1>4. sure \in {Unset} \cup 0 .. MaxTick
  BY <1>1, <1>3 DEF Appointment
<1>5. o.confirmedAt # Unset => sure = o.confirmedAt
  OBVIOUS
<1> HIDE DEF sure
<1>6. /\ r \in Appointment /\ r.start = o.start /\ r.advisor = o.advisor /\ r.status = "completed"
      /\ r.bill = o.bill /\ r.due = o.due /\ r.payment = o.payment /\ r.created = o.created
      /\ r.paidAt = o.paidAt /\ r.confirmedAt = sure /\ r.completedAt = tick
  BY <1>1, <1>4 DEF Appointment, Stage
<1> HIDE DEF r
<1>7. /\ o.created \in Nat /\ o.paidAt \in Int /\ o.confirmedAt \in Int
      /\ o.status \in Stage /\ o.due \in {0, 1}
  BY <1>1, HorizonAssumption DEF Appointment, Unset
<1>8. DatesInv(r, tick + 1)
  BY <1>1, <1>2, <1>3, <1>5, <1>6, <1>7 DEF DatesInv, Unset
<1>9. \A c \in DOMAIN agenda : c # b => Apart(r, agenda[c])
  BY <1>6 DEF Apart, OpenRow
<1> QED BY <1>2, <1>6, <1>8, <1>9, RowChanges

LEMMA MissScreen ==
    ASSUME ScreenInv, NEW b \in DOMAIN agenda, Miss(b)
    PROVE  ScreenInv'
<1> DEFINE o == agenda[b]
           r == [o EXCEPT !.status = "no_show", !.updated = tick]
<1>1. o \in Appointment /\ DatesInv(o, tick) /\ tick \in Nat /\ tick \in 0 .. MaxTick
  BY RowFacts
<1>2. Ticks /\ agenda' = [agenda EXCEPT ![b] = r] /\ o.status = "confirmed"
  BY DEF Miss
<1> HIDE DEF o
<1>3. /\ r \in Appointment /\ r.start = o.start /\ r.advisor = o.advisor /\ r.status = "no_show"
      /\ r.bill = o.bill /\ r.due = o.due /\ r.payment = o.payment /\ r.created = o.created
      /\ r.paidAt = o.paidAt /\ r.confirmedAt = o.confirmedAt /\ r.completedAt = o.completedAt
  BY <1>1 DEF Appointment, Stage
<1> HIDE DEF r
<1>4. DatesInv(o, tick + 1)
  BY <1>1, DatesPass
<1>5. DatesInv(r, tick + 1)
  BY <1>2, <1>3, <1>4 DEF DatesInv
<1>6. \A c \in DOMAIN agenda : c # b => Apart(r, agenda[c])
  BY <1>3 DEF Apart, OpenRow
<1> QED BY <1>2, <1>3, <1>5, <1>6, RowChanges

LEMMA ScreensNextInv == ASSUME ScreenInv, [ScreensNext]_screenVars PROVE ScreenInv'
<1>1. CASE UNCHANGED screenVars
  BY <1>1 DEF screenVars, ScreenInv, ScreensTypeOK
<1>2. ASSUME Wait PROVE ScreenInv'
  <2>1. UNCHANGED agenda /\ tick' = tick + 1 /\ tick < MaxTick
    BY <1>2 DEF Wait, Ticks
  <2>2. tick \in Nat /\ MaxTick \in Nat /\ \A b \in DOMAIN agenda : agenda[b] \in Appointment
    BY AgendaRows DEF ScreenInv
  <2>3. ScreensTypeOK'
    BY <2>1, <2>2 DEF ScreenInv, ScreensTypeOK
  <2>4. \A b \in DOMAIN agenda : DatesInv(agenda[b], tick + 1)
    BY <2>2, DatesPass DEF ScreenInv
  <2> QED BY <2>1, <2>3, <2>4 DEF ScreenInv
<1>3. CASE ScreensNext
  BY <1>2, <1>3, RequestScreen, BookForScreen, CheckoutScreen, CallOffScreen, HoldScreen, MissScreen,
     TakeScreen, AcceptScreen, MoveScreen DEF ScreensNext
<1> QED BY <1>1, <1>3
-----------------------------------------------------------------------------
\* What the screens say of the bookings

LEMMA OneOf ==
    ASSUME NEW T, IsFiniteSet(T), Cardinality(T) = 1, NEW x \in T, NEW y \in T
    PROVE  x = y
<1>1. Cardinality(T \ {x}) = 0 /\ IsFiniteSet(T \ {x})
  BY Shrinks, FS_RemoveElement
<1>2. T \ {x} = {}
  BY <1>1, FS_EmptySet
<1> QED BY <1>2

LEMMA NoTwo ==
    ASSUME NEW T, \A x, y \in T : x = y
    PROVE  Cardinality(T) <= 1
<1>1. CASE T = {}
  <2>1. Cardinality({}) = 0
    BY FS_EmptySet
  <2> QED BY <1>1, <2>1
<1>2. CASE T # {}
  <2>1. PICK x \in T : TRUE
    BY <1>2
  <2>2. T = {x}
    BY <2>1
  <2>3. Cardinality({x}) = 1
    BY FS_Singleton
  <2> QED BY <2>2, <2>3
<1> QED BY <1>1, <1>2

\* Of bookings, if there are any, one comes first.
LEMMA SomeFirst ==
    ASSUME NEW T, NEW when, \A b \in T : when[b] \in Nat, T # {}
    PROVE  {b \in T : \A c \in T : when[b] <= when[c]} # {}
<1> DEFINE times == {k \in Nat : \E b \in T : k = when[b]}
<1>1. times \in SUBSET Nat /\ times # {}
  OBVIOUS
<1>2. \E k \in times : \A j \in times : k <= j
  <2> HIDE DEF times
  <2> QED BY <1>1, Least
<1>3. PICK k \in times : \A j \in times : k <= j
  BY <1>2
<1>4. PICK b \in T : k = when[b]
  BY <1>3
<1>5. \A c \in T : when[b] <= when[c]
  BY <1>3, <1>4
<1> QED BY <1>5

LEMMA OfUserIn == ASSUME NEW u PROVE OfUser(u) \subseteq DOMAIN agenda
BY DEF OfUser

\* A list without limits of time holds the user's bookings of its statuses.
LEMMA ListIs ==
    ASSUME ScreenInv, NEW u, NEW statuses
    PROVE  ListFor(u, statuses, 0, MaxTick + 1) = {b \in OfUser(u) : agenda[b].status \in statuses}
<1>1. \A b \in OfUser(u) : agenda[b].start \in Nat /\ agenda[b].start <= MaxTick
  BY AgendaRows, OfUserIn DEF ScreenInv
<1>2. \A b \in OfUser(u) : 0 <= agenda[b].start /\ agenda[b].start < MaxTick + 1
  BY <1>1, HorizonAssumption
<1> QED BY <1>2 DEF ListFor

LEMMA BannerHolds == ScreenInv => BannerTrue
<1> SUFFICES ASSUME ScreenInv, NEW u \in Guests \cup Hosts
             PROVE  LET lines == list_my_bookings(u, {"pending", "confirmed"}, 0, MaxTick + 1)
                        ahead == {b \in lines.data : agenda[b].start >= tick} IN
                    /\ lines.next_upcoming = {} <=> ahead = {}
                    /\ \A b \in lines.next_upcoming :
                          b \in ahead /\ \A c \in ahead : agenda[b].start <= agenda[c].start
                    /\ \A b \in lines.next_upcoming \cap lines.active_chat_booking : agenda[b].start = tick
  BY DEF BannerTrue
<1> DEFINE shown == list_my_bookings(u, {"pending", "confirmed"}, 0, MaxTick + 1)
           coming == {b \in OfUser(u) : agenda[b].start >= tick /\ IsOpen(b)}
           soonest == {b \in coming : \A c \in coming : agenda[b].start <= agenda[c].start}
<1>1. shown.data = {b \in OfUser(u) : IsOpen(b)}
  BY ListIs DEF list_my_bookings, IsOpen
<1>2. {b \in shown.data : agenda[b].start >= tick} = coming
  BY <1>1
<1>3. shown.next_upcoming = soonest
  BY DEF list_my_bookings, get_next_upcoming
<1>4. \A b \in shown.active_chat_booking : agenda[b].start <= tick
  BY DEF list_my_bookings, get_current_chat_booking, ChatOpen
<1>5. \A b \in coming : agenda[b].start \in Nat /\ tick \in Nat
  BY AgendaRows, OfUserIn DEF ScreenInv
<1>6. coming # {} => soonest # {}
  <2> DEFINE when == [b \in coming |-> agenda[b].start]
  <2>1. \A b \in coming : when[b] = agenda[b].start /\ when[b] \in Nat
    BY <1>5
  <2> HIDE DEF when
  <2>2. coming # {} => {b \in coming : \A c \in coming : when[b] <= when[c]} # {}
    <3> HIDE DEF coming
    <3> QED BY <2>1, SomeFirst
  <2> QED BY <2>1, <2>2
<1>7. \A b \in soonest \cap shown.active_chat_booking : agenda[b].start = tick
  BY <1>4, <1>5
<1> HIDE DEF shown
<1>8. /\ shown.next_upcoming = {} <=> coming = {}
      /\ \A b \in shown.next_upcoming :
            b \in coming /\ \A c \in coming : agenda[b].start <= agenda[c].start
      /\ \A b \in shown.next_upcoming \cap shown.active_chat_booking : agenda[b].start = tick
  BY <1>3, <1>6, <1>7
<1> HIDE DEF coming, soonest
<1> QED BY <1>2, <1>8 DEF shown

LEMMA ChatHolds == ScreenInv => ChatTrue
<1> SUFFICES ASSUME ScreenInv PROVE ChatTrue
  OBVIOUS
<1>1. \A b \in DOMAIN agenda : /\ agenda[b] \in Appointment /\ agenda[b].start \in Nat /\ tick \in Nat
                               /\ agenda[b].seeker \in Guests /\ agenda[b].advisor \in Hosts
  BY AgendaRows DEF ScreenInv, Appointment
<1>2. ASSUME NEW u \in Guests \cup Hosts, NEW b \in get_current_chat_booking(u)
      PROVE  /\ is_chat_send_allowed(agenda[b].seeker, agenda[b].advisor)
             /\ agenda[b].meeting => MeetingRead(b, u) # {}
  <2>1. b \in DOMAIN agenda /\ ChatOpen(b)
    BY OfUserIn DEF get_current_chat_booking
  <2>2. agenda[b].start - JoinLead <= tick /\ tick <= Ends(b)
    BY <1>1, <2>1, SessionLengthAssumption DEF ChatOpen
  <2>3. agenda[b].meeting => MeetingRead(b, u) # {}
    BY <2>2 DEF MeetingRead, Joinable, is_meeting_joinable
  <2>4. is_chat_send_allowed(agenda[b].seeker, agenda[b].advisor)
    BY <2>1 DEF is_chat_send_allowed
  <2> QED BY <2>3, <2>4
<1>3. ASSUME NEW u, NEW b \in OfUser(u), ChatOpen(b) PROVE get_current_chat_booking(u) # {}
  <2> DEFINE running == {c \in OfUser(u) : ChatOpen(c)}
             when == [c \in running |-> Ends(c)]
  <2>1. \A c \in running : when[c] = Ends(c) /\ when[c] \in Nat
    BY <1>1, OfUserIn, SessionLengthAssumption DEF Ends
  <2>2. running # {}
    BY <1>3
  <2> HIDE DEF when
  <2>3. {c \in running : \A d \in running : when[c] <= when[d]} # {}
    <3> HIDE DEF running
    <3> QED BY <2>1, <2>2, SomeFirst
  <2>4. {c \in running : \A d \in running : Ends(c) <= Ends(d)} # {}
    BY <2>1, <2>3
  <2> QED BY <2>4 DEF get_current_chat_booking
<1>4. ASSUME NEW s \in Guests, NEW a \in Hosts, is_chat_send_allowed(s, a)
      PROVE  get_current_chat_booking(s) # {} /\ get_current_chat_booking(a) # {}
  <2>1. PICK b \in DOMAIN agenda : agenda[b].seeker = s /\ agenda[b].advisor = a /\ ChatOpen(b)
    BY <1>4 DEF is_chat_send_allowed
  <2>2. b \in OfUser(s) /\ b \in OfUser(a)
    BY <2>1, PartiesAssumption DEF OfUser
  <2> QED BY <1>3, <2>1, <2>2
<1>5. ASSUME NEW b \in DOMAIN agenda
      PROVE  /\ MeetingRead(b, agenda[b].seeker) = LinkRead(b, "seeker")
             /\ MeetingRead(b, agenda[b].advisor) = LinkRead(b, "advisor")
  <2>1. agenda[b].seeker # agenda[b].advisor
    BY <1>1, PartiesAssumption
  <2> QED BY <2>1 DEF MeetingRead, LinkRead
<1> QED BY <1>2, <1>4, <1>5 DEF ChatTrue

LEMMA ListsHold == ScreenInv => ListsPartition
<1> SUFFICES ASSUME ScreenInv, NEW u \in Guests \cup Hosts
             PROVE  /\ UNION {ListFor(u, {x}, 0, MaxTick + 1) : x \in Stage} = OfUser(u)
                    /\ \A x, y \in Stage : x # y => ListBy(u, {x}) \cap ListBy(u, {y}) = {}
                    /\ ListBy(u, Stage) = OfUser(u)
                    /\ \A b \in DOMAIN agenda : MayOpen(b, u, "user") <=> b \in OfUser(u)
  BY DEF ListsPartition
<1>1. \A b \in DOMAIN agenda : /\ agenda[b].status \in Stage
                               /\ agenda[b].seeker \in Guests /\ agenda[b].advisor \in Hosts
  BY AgendaRows DEF ScreenInv, Appointment
<1>2. \A b \in DOMAIN agenda : b \in OfUser(u) <=> u \in {agenda[b].seeker, agenda[b].advisor}
  BY <1>1, PartiesAssumption DEF OfUser
<1>3. UNION {ListFor(u, {x}, 0, MaxTick + 1) : x \in Stage} = OfUser(u)
  <2>1. \A x : ListFor(u, {x}, 0, MaxTick + 1) = {b \in OfUser(u) : agenda[b].status = x}
    BY ListIs
  <2>2. ASSUME NEW b \in UNION {ListFor(u, {x}, 0, MaxTick + 1) : x \in Stage} PROVE b \in OfUser(u)
    <3>1. PICK x \in Stage : b \in ListFor(u, {x}, 0, MaxTick + 1)
      BY <2>2
    <3> QED BY <3>1, <2>1
  <2>3. ASSUME NEW b \in OfUser(u) PROVE b \in UNION {ListFor(u, {x}, 0, MaxTick + 1) : x \in Stage}
    <3>1. agenda[b].status \in Stage /\ b \in ListFor(u, {agenda[b].status}, 0, MaxTick + 1)
      BY <1>1, <2>1, OfUserIn
    <3> QED BY <3>1
  <2> QED BY <2>2, <2>3
<1>4. \A x, y \in Stage : x # y => ListBy(u, {x}) \cap ListBy(u, {y}) = {}
  BY DEF ListBy
<1>5. ListBy(u, Stage) = OfUser(u)
  BY <1>1, <1>2, OfUserIn DEF ListBy
<1>6. \A b \in DOMAIN agenda : MayOpen(b, u, "user") <=> b \in OfUser(u)
  BY <1>2 DEF MayOpen
<1> QED BY <1>3, <1>4, <1>5, <1>6

LEMMA ClientsHold == ScreenInv => ClientsTrue
<1> SUFFICES ASSUME ScreenInv, NEW a \in Hosts, NEW x \in Stage, NEW it \in list_my_clients(a, x)
             PROVE  LET s == it[1] IN
                    /\ HasRelationship(a, s)
                    /\ Cardinality(LatestOf(a, s)) = 1 => it[2].status = x
                    /\ Cardinality({b \in LatestOf(a, s) : IsOpen(b)}) <= 1
                    /\ \A r \in list_advisor_sessions(a, {x}) :
                          agenda[r.booking].seeker = s =>
                              /\ r.link = {}
                              /\ r.consultations = Cardinality({o \in list_advisor_sessions(a, Stage) :
                                                                   agenda[o.booking].seeker = s})
  BY DEF ClientsTrue
<1> DEFINE s == it[1]
<1>1. PICK g \in ClientsOf(a, {x}) : \E r \in ClientShown(a, g) : it = <<g, r>>
  BY DEF list_my_clients
<1>2. PICK shown \in ClientShown(a, g) : it = <<g, shown>>
  BY <1>1
<1>3. s = g /\ it[2] = shown
  BY <1>2
<1> HIDE DEF s
<1>4. \A b \in DOMAIN agenda : agenda[b].status \in Stage /\ agenda[b].start \in Nat
  BY AgendaRows DEF ScreenInv, Appointment
<1>5. IsFiniteSet(DOMAIN agenda)
  BY AgendaRows, FS_Interval DEF ScreenInv
<1>6. LatestOf(a, s) \subseteq OfUser(a) /\ OfUser(a) \subseteq DOMAIN agenda
  BY OfUserIn DEF LatestOf
<1>7. HasRelationship(a, s)
  BY <1>3 DEF ClientsOf
<1>8. ASSUME Cardinality(LatestOf(a, s)) = 1 PROVE it[2].status = x
  <2>1. PICK b \in LatestOf(a, s) : agenda[b].status = x
    BY <1>3 DEF ClientsOf
  <2>2. PICK c \in LatestOf(a, s) : shown = [booking |-> c, status |-> agenda[c].status]
    BY <1>3 DEF ClientShown
  <2>3. IsFiniteSet(LatestOf(a, s))
    BY <1>5, <1>6, FS_Subset
  <2>4. b = c
    BY <1>8, <2>3, OneOf
  <2> QED BY <1>3, <2>1, <2>2, <2>4
<1>9. Cardinality({b \in LatestOf(a, s) : IsOpen(b)}) <= 1
  <2> DEFINE both == {b \in LatestOf(a, s) : IsOpen(b)}
  <2>1. ASSUME NEW b \in both, NEW c \in both, b # c PROVE FALSE
    <3>1. /\ b \in DOMAIN agenda /\ c \in DOMAIN agenda /\ IsOpen(b) /\ IsOpen(c)
          /\ agenda[b].start = agenda[c].start
      BY <1>6 DEF LatestOf
    <3>2. agenda[b].advisor = a /\ agenda[c].advisor = a
      BY DEF LatestOf, OfUser
    <3>3. Apart(agenda[b], agenda[c])
      BY <2>1, <3>1 DEF ScreenInv
    <3> QED BY <1>4, <3>1, <3>2, <3>3, SessionLengthAssumption DEF Apart, OpenRow, IsOpen
  <2>2. \A b, c \in both : b = c
    BY <2>1
  <2> HIDE DEF both
  <2>3. Cardinality(both) <= 1
    BY <2>2, NoTwo
  <2> QED BY <2>3 DEF both
<1>10. ASSUME NEW r \in list_advisor_sessions(a, {x}), agenda[r.booking].seeker = s
       PROVE  /\ r.link = {}
              /\ r.consultations = Cardinality({o \in list_advisor_sessions(a, Stage) :
                                                   agenda[o.booking].seeker = s})
  <2>1. PICK b \in OfUser(a) : r = SessionRow(a, b)
    BY ListIs DEF list_advisor_sessions
  <2>2. r.booking = b /\ r.link = {}
    BY <2>1 DEF SessionRow, LinkRead
  <2> DEFINE theirs == {c \in OfUser(a) : agenda[c].seeker = s}
             rows == {o \in list_advisor_sessions(a, Stage) : agenda[o.booking].seeker = s}
             f == [c \in theirs |-> SessionRow(a, c)]
  <2>3. r.consultations = Cardinality(theirs)
    BY <1>10, <2>1, <2>2 DEF SessionRow
  <2>4. list_advisor_sessions(a, Stage) = {SessionRow(a, c) : c \in OfUser(a)}
    <3>1. ListFor(a, Stage, 0, MaxTick + 1) = {c \in OfUser(a) : agenda[c].status \in Stage}
      BY ListIs
    <3>2. \A c \in OfUser(a) : agenda[c].status \in Stage
      BY <1>4, <1>6
    <3> QED BY <3>1, <3>2 DEF list_advisor_sessions
  <2>5. \A c \in OfUser(a) : SessionRow(a, c).booking = c
    BY DEF SessionRow
  <2>6. f \in Bijection(theirs, rows)
    <3>1. \A c \in theirs : f[c] \in rows
      BY <2>4, <2>5
    <3>2. \A c, d \in theirs : f[c] = f[d] => c = d
      BY <2>5
    <3>3. \A o \in rows : \E c \in theirs : f[c] = o
      BY <2>4, <2>5
    <3> QED BY <3>1, <3>2, <3>3 DEF Bijection, Injection, Surjection, IsInjective
  <2>7. IsFiniteSet(theirs)
    BY <1>5, <1>6, FS_Subset
  <2>8. Cardinality(theirs) = Cardinality(rows)
    <3> HIDE DEF theirs, rows, f
    <3>1. ExistsBijection(theirs, rows)
      BY <2>6 DEF ExistsBijection
    <3> QED BY <3>1, <2>7, FS_Bijection
  <2> QED BY <2>2, <2>3, <2>8
<1> QED BY <1>7, <1>8, <1>9, <1>10 DEF s

LEMMA TimelineHolds == ScreenInv => TimelineTrue
<1> SUFFICES ASSUME ScreenInv, NEW b \in DOMAIN agenda
             PROVE  LET l == Timeline(b) IN
                    /\ l.completed # Unset <=> agenda[b].status = "completed"
                    /\ l.completed # Unset => l.upcoming <= l.completed /\ l.confirmed <= l.completed
                                              /\ l.booked < l.completed
                    /\ l.payment # Unset => l.booked < l.payment /\ l.confirmed # Unset
                    /\ agenda[b].bill = "succeeded" => l.payment # Unset
                    /\ agenda[b].status = "completed" /\ agenda[b].due > 0 => AmountPaid(b) = agenda[b].due
  BY DEF TimelineTrue
<1>1. DatesInv(agenda[b], tick)
  BY DEF ScreenInv
<1>2. /\ Timeline(b).completed = agenda[b].completedAt
      /\ Timeline(b).booked = agenda[b].created /\ Timeline(b).payment = agenda[b].paidAt
      /\ Timeline(b).confirmed = agenda[b].confirmedAt /\ Timeline(b).upcoming = agenda[b].start
  BY <1>1 DEF Timeline, DatesInv
<1>3. agenda[b].status = "completed" /\ agenda[b].due > 0 => AmountPaid(b) = agenda[b].due
  BY <1>1 DEF AmountPaid, DatesInv
<1> QED BY <1>1, <1>2, <1>3 DEF DatesInv
\* Whatever is booked, paid, moved, called off and held, the lists, banners, chat buttons,
\* client pages, session pages and drawers of every party say the same of every booking.
THEOREM ScreensDoAgree == ScreensSpec => [](ScreensAgree /\ AgendaShown)
<1>1. ScreenInv => ScreensAgree /\ AgendaShown
  BY BannerHolds, ChatHolds, ListsHold, ClientsHold, TimelineHolds DEF ScreensAgree, AgendaShown
<1> QED BY <1>1, ScreensInitInv, ScreensNextInv, PTL DEF ScreensSpec

-----------------------------------------------------------------------------
(* What is told of a change                                                   *)

\* The kinds of requests, of those who make them, and of what is told
Word == {"request", "book_for", "pay", "accept", "reject", "cancel", "reschedule", "close", "expire",
         "note", "ask", "fulfill", "judge_document", "comment", "judge_account", "contact", "message",
         "register", "link",
         "seeker", "advisor", "sweep", "admin",
         "verification", "reset", "approved", "rejected", "pending", "new_advisor", "receipt", "sale",
         "confirmation", "new_time", "rejection", "asked", "contacted", "cancellation", "join_link",
         "host_link",
         "no_meeting", "meeting", "confirmed", "payment", "requested", "refund", "cancelled",
         "rescheduled", "completed", "no_show", "expired", "fulfilled", "registered"}

Ring == [to : Correspondents, kind : Word]
Post == [to : Correspondents, kind : Word, start : {0, 1}, refund : {0, 1}]
Mail == [to : Correspondents, kind : Word, start : {0, 1}, refund : {0, 1}, no : Nat,
         fate : {"waiting", "delivered", "lost"}]
Rung == [to : Correspondents, kind : Word, no : Nat]
Change == [no : Nat, op : Word, by : Word, row : Subject, before : Subject, since : Nat]

\* A request that has read the row, and one that has written it
Reader == [phase : {"read"}, seen : Subject, since : Nat]
Writer == [phase : {"written"}, op : Word, by : Word, row : Subject, rings : SUBSET Ring,
           no : Nat, since : Nat]

\* What was said, in letters and by notification, under a number
Said(no) == {[to |-> l.to, kind |-> l.kind, start |-> l.start, refund |-> l.refund] :
                l \in {m \in letters : m.no = no}}
RungUnder(no) == {[to |-> b.to, kind |-> b.kind] : b \in {c \in bells : c.no = no}}

\* A request of this kind is about such a row.
InTopic(op) == /\ topic = "account"  <=> op = "judge_account"
               /\ topic = "document" <=> op \in {"judge_document", "comment"}

HeardOf(op, by, new, rings) ==
    LET heard == {b.to : b \in rings} IN
    /\ by \in {"seeker", "advisor"} /\ op \notin {"request", "register", "link", "judge_document"}
          => Counterparty(by) \in heard
    /\ op = "judge_document" /\ new.status # "pending" => "seeker" \in heard
    /\ \A b \in rings : b.to = by => b.kind \in MoneyAndMeetings
    /\ op = "expire" => {"seeker", "advisor"} \subseteq heard

MoneyTold(op, new, before, rings, post) ==
    /\ \A l \in post : l.refund > 0 =>
          l.to = "seeker" /\ new.paid = "refunded" /\ before.paid = "paid"
    /\ op = "cancel" /\ new.paid # before.paid => \E l \in post : l.refund > 0
    /\ new.paid = "refunded" /\ before.paid # "refunded"
          => \E b \in rings : b.to = "seeker" /\ b.kind = "refund"

LinksSent(new, before, post) ==
    LET links == {l.kind : l \in post} \cap {"join_link", "host_link"} IN
    /\ links \in {{}, {"join_link", "host_link"}}
    /\ links # {} <=> new.meeting /\ ~before.meeting
    /\ \A l \in post : l.start = new.start

\* A letter of a verdict is of one that has changed what the request had read.
VerdictTold(op, seen, new, post) ==
    /\ op = "judge_account" => \A l \in post :
          /\ seen.status # new.status
          /\ l.kind = new.status \/ (l.kind = "new_advisor" /\ new.status = "approved")
    /\ op = "judge_document" => \A l \in post :
          /\ l.kind \in {"approved", "rejected"}
          /\ seen.status # l.kind => new.status = l.kind
          /\ seen.status = l.kind => new.told # seen.told
    /\ op = "comment" => \A l \in post : l.kind = "comment"

\* What is said of the change from a row to another is true of it.
Told(op, by, new, before, rings, post) ==
    /\ InTopic(op)
    /\ HeardOf(op, by, new, rings)
    /\ MoneyTold(op, new, before, rings, post)
    /\ LinksSent(new, before, post)

\* The row that was read when so many changes had been committed
WasRead(seen, since) ==
    since \in 0 .. Len(journal) /\ (since > 0 => seen = journal[since].row)

FromRead(op, new, since, post) ==
    \E seen \in Subject : WasRead(seen, since) /\ VerdictTold(op, seen, new, post)

TellKinds ==
    /\ topic \in Topics /\ row \in Subject
    /\ journal \in Seq(Change) /\ letters \subseteq Mail /\ bells \subseteq Rung
    /\ serial \in 0 .. MaxEvents /\ serial \in Nat
    /\ DOMAIN clerk = Clerks
    /\ \A p \in Clerks : clerk[p] = NotWorking \/ clerk[p] \in Reader \/ clerk[p] \in Writer

\* Changes are numbered in the order of their commits, and the one that writes has the last.
Numbered ==
    /\ Len(journal) <= serial
    /\ \A l \in letters : l.no \in 1 .. serial
    /\ \A b \in bells : \E i \in DOMAIN journal : journal[i].no = b.no
    /\ \A i \in DOMAIN journal : journal[i].no \in 1 .. serial /\ journal[i].since < i
    /\ \A i, j \in DOMAIN journal : i < j => journal[i].no < journal[j].no
    /\ \A p \in Clerks : Working(p, "written") =>
          /\ clerk[p].no \in 1 .. serial /\ Len(journal) < clerk[p].no
          /\ \A i \in DOMAIN journal : journal[i].no < clerk[p].no
    /\ \A p, q \in Clerks : Working(p, "written") /\ Working(q, "written") => p = q

\* What a request is about to commit, and what it has committed, was told as it happened.
WriterTrue(c) == /\ Told(c.op, c.by, c.row, row, c.rings, Said(c.no))
                 /\ FromRead(c.op, c.row, c.since, Said(c.no))

ChangeTrue(e) == /\ Told(e.op, e.by, e.row, e.before, RungUnder(e.no), Said(e.no))
                 /\ FromRead(e.op, e.row, e.since, Said(e.no))

TellsTrue ==
    /\ Len(journal) > 0 => row = journal[Len(journal)].row
    /\ \A p \in Clerks, c \in Reader : clerk[p] = c => WasRead(c.seen, c.since)
    /\ \A p \in Clerks, c \in Writer : clerk[p] = c => WriterTrue(c)
    /\ \A i \in DOMAIN journal, e \in Change : journal[i] = e => ChangeTrue(e)

TellInv == TellKinds /\ Numbered /\ TellsTrue

LEMMA Phases ==
    /\ NotWorking.phase = "idle" /\ NotWorking \notin Reader /\ NotWorking \notin Writer
    /\ \A c \in Reader : c.phase = "read" /\ c.seen \in Subject /\ c.since \in Nat /\ c # NotWorking
    /\ \A c \in Writer : /\ c.phase = "written" /\ c.op \in Word /\ c.by \in Word /\ c.row \in Subject
                         /\ c.rings \in SUBSET Ring /\ c.no \in Nat /\ c.since \in Nat /\ c # NotWorking
<1>1. NotWorking.phase = "idle"
  BY DEF NotWorking
<1>2. \A c \in Reader : c.phase = "read" /\ c.seen \in Subject /\ c.since \in Nat
  BY DEF Reader
<1>3. \A c \in Writer : /\ c.phase = "written" /\ c.op \in Word /\ c.by \in Word /\ c.row \in Subject
                        /\ c.rings \in SUBSET Ring /\ c.no \in Nat /\ c.since \in Nat
  BY DEF Writer
<1> QED BY <1>1, <1>2, <1>3

\* A request that is in its phase
LEMMA PhaseIs ==
    ASSUME TellKinds, NEW p \in Clerks
    PROVE  /\ Working(p, "read") <=> clerk[p] \in Reader
           /\ Working(p, "written") <=> clerk[p] \in Writer
           /\ clerk[p] = NotWorking => ~Working(p, "read") /\ ~Working(p, "written")
<1>1. clerk[p] = NotWorking \/ clerk[p] \in Reader \/ clerk[p] \in Writer
  BY DEF TellKinds
<1> QED BY <1>1, Phases DEF Working

LEMMA ChangeTyped ==
    ASSUME TellKinds
    PROVE  /\ DOMAIN journal = 1 .. Len(journal) /\ Len(journal) \in Nat
           /\ \A i \in DOMAIN journal : journal[i] \in Change
           /\ \A i \in DOMAIN journal : /\ journal[i].no \in Nat /\ journal[i].since \in Nat
                                        /\ journal[i].row \in Subject
<1>1. journal \in Seq(Change)
  BY DEF TellKinds
<1>2. /\ DOMAIN journal = 1 .. Len(journal) /\ Len(journal) \in Nat
      /\ \A i \in DOMAIN journal : journal[i] \in Change
  BY <1>1
<1> QED BY <1>2 DEF Change

LEMMA TellInitInv == TidingsInit => TellInv
<1> SUFFICES ASSUME TidingsInit PROVE TellInv
  OBVIOUS
<1>1. row \in Subject
  <2>1. row \in InitialRows[topic] /\ topic \in {"booking", "document", "account", "lead", "chat", "login"}
    BY TopicAssumption DEF TidingsInit
  <2>2. \A s \in {"none", "pending", "new", "confirmed"} : Blank(s) \in Subject
    BY DEF Blank, Subject
  <2>3. Priced("pending", "unpaid") \in Subject /\ Priced("confirmed", "paid") \in Subject
    BY DEF Priced, Blank, Subject
  <2>4. row \in {Blank("none"), Blank("pending"), Blank("new"), Priced("pending", "unpaid"),
                 Priced("confirmed", "paid")}
    BY <2>1 DEF InitialRows
  <2> QED BY <2>2, <2>3, <2>4
<1>2. journal \in Seq(Change) /\ Len(journal) = 0 /\ DOMAIN journal = {}
  BY DEF TidingsInit
<1>3. DOMAIN clerk = Clerks /\ \A p \in Clerks : clerk[p] = NotWorking
  BY DEF TidingsInit
<1>4. TellKinds
  BY <1>1, <1>2, <1>3, EventsAssumption DEF TidingsInit, TellKinds
<1>5. \A p \in Clerks : ~Working(p, "read") /\ ~Working(p, "written")
  BY <1>3, <1>4, PhaseIs
<1>6. Numbered
  BY <1>2, <1>5 DEF TidingsInit, Numbered
<1>7. TellsTrue
  BY <1>2, <1>3, Phases DEF TellsTrue
<1> QED BY <1>4, <1>6, <1>7 DEF TellInv
\* What is said does not depend on what became of the letters.
LEMMA SaidAlike ==
    ASSUME NEW no,
           \A l \in letters : l.no = no => \E m \in letters' :
               m.no = no /\ m.to = l.to /\ m.kind = l.kind /\ m.start = l.start /\ m.refund = l.refund,
           \A m \in letters' : m.no = no => \E l \in letters :
               l.no = no /\ m.to = l.to /\ m.kind = l.kind /\ m.start = l.start /\ m.refund = l.refund
    PROVE  Said(no)' = Said(no)
<1>1. ASSUME NEW x \in Said(no) PROVE x \in Said(no)'
  <2>1. PICK l \in letters : l.no = no /\ x = [to |-> l.to, kind |-> l.kind, start |-> l.start, refund |-> l.refund]
    BY DEF Said
  <2>2. PICK m \in letters' : m.no = no /\ m.to = l.to /\ m.kind = l.kind /\ m.start = l.start /\ m.refund = l.refund
    BY <2>1
  <2> QED BY <2>1, <2>2 DEF Said
<1>2. ASSUME NEW x \in Said(no)' PROVE x \in Said(no)
  <2>1. PICK m \in letters' : m.no = no /\ x = [to |-> m.to, kind |-> m.kind, start |-> m.start, refund |-> m.refund]
    BY DEF Said
  <2>2. PICK l \in letters : l.no = no /\ m.to = l.to /\ m.kind = l.kind /\ m.start = l.start /\ m.refund = l.refund
    BY <2>1
  <2> QED BY <2>1, <2>2 DEF Said
<1> QED BY <1>1, <1>2

\* What is true of a change stays so while the journal and what was said stand.
LEMMA TruthStays ==
    ASSUME NEW c, UNCHANGED <<topic, journal, row>>, Said(c.no)' = Said(c.no)
    PROVE  /\ WriterTrue(c)' <=> WriterTrue(c)
           /\ RungUnder(c.no)' = RungUnder(c.no) => (ChangeTrue(c)' <=> ChangeTrue(c))
<1>1. \A op, new, since, post : FromRead(op, new, since, post)' <=> FromRead(op, new, since, post)
  BY DEF FromRead, WasRead, VerdictTold
<1>2. \A op, by, new, before, rings, post :
         Told(op, by, new, before, rings, post)' <=> Told(op, by, new, before, rings, post)
  BY DEF Told, InTopic, HeardOf, MoneyTold, LinksSent
<1>3. PICK post : post = Said(c.no)
  OBVIOUS
<1>4. PICK rings : rings = RungUnder(c.no)
  OBVIOUS
<1>5. FromRead(c.op, c.row, c.since, Said(c.no))' <=> FromRead(c.op, c.row, c.since, Said(c.no))
  BY <1>1, <1>3
<1>6. Told(c.op, c.by, c.row, row, c.rings, Said(c.no))' <=> Told(c.op, c.by, c.row, row, c.rings, Said(c.no))
  BY <1>2, <1>3
<1>7. WriterTrue(c)' <=> WriterTrue(c)
  BY <1>5, <1>6 DEF WriterTrue
<1>8. ASSUME RungUnder(c.no)' = RungUnder(c.no) PROVE ChangeTrue(c)' <=> ChangeTrue(c)
  <2>1. Told(c.op, c.by, c.row, c.before, RungUnder(c.no), Said(c.no))'
            <=> Told(c.op, c.by, c.row, c.before, RungUnder(c.no), Said(c.no))
    BY <1>2, <1>3, <1>4, <1>8
  <2> QED BY <1>5, <2>1 DEF ChangeTrue
<1> QED BY <1>7, <1>8
\* A step in which requests look or give up, and letters meet their fates.
LEMMA NothingWritten ==
    ASSUME TellInv, UNCHANGED <<topic, row, bells, journal, serial>>, DOMAIN clerk' = Clerks,
           letters' \subseteq Mail, \A no \in Nat : Said(no)' = Said(no),
           \A l \in letters' : l.no \in 1 .. serial,
           \A p \in Clerks : \/ clerk'[p] = clerk[p] \/ clerk'[p] = NotWorking
                             \/ clerk'[p] \in Reader /\ WasRead(clerk'[p].seen, clerk'[p].since)
    PROVE  TellInv'
<1>1. TellKinds'
  BY DEF TellInv, TellKinds
<1>2. ASSUME NEW p \in Clerks, Working(p, "written")'
      PROVE  Working(p, "written") /\ clerk'[p] = clerk[p]
  <2>1. clerk'[p] # NotWorking /\ clerk'[p] \notin Reader
    BY <1>2, Phases DEF Working
  <2> QED BY <1>2, <2>1 DEF Working
<1>3. Numbered'
  <2>1. \A p \in Clerks : Working(p, "written")' =>
            /\ clerk'[p].no \in 1 .. serial' /\ Len(journal') < clerk'[p].no
            /\ \A i \in DOMAIN journal' : journal'[i].no < clerk'[p].no
    BY <1>2 DEF TellInv, Numbered
  <2>2. \A p, q \in Clerks : Working(p, "written")' /\ Working(q, "written")' => p = q
    BY <1>2 DEF TellInv, Numbered
  <2> QED BY <2>1, <2>2 DEF TellInv, Numbered
<1>4. ASSUME NEW p \in Clerks, NEW c \in Reader, clerk'[p] = c PROVE WasRead(c.seen, c.since)'
  <2>1. WasRead(c.seen, c.since)
    BY <1>4, Phases DEF TellInv, TellsTrue
  <2> QED BY <2>1 DEF WasRead
<1>5. ASSUME NEW p \in Clerks, NEW c \in Writer, clerk'[p] = c PROVE WriterTrue(c)'
  <2>1. clerk[p] = c /\ c.no \in Nat
    BY <1>2, <1>5, Phases DEF Working
  <2>2. WriterTrue(c) /\ Said(c.no)' = Said(c.no)
    BY <2>1 DEF TellInv, TellsTrue
  <2> QED BY <2>2, TruthStays
<1>6. ASSUME NEW i \in DOMAIN journal', NEW e \in Change, journal'[i] = e PROVE ChangeTrue(e)'
  <2>1. ChangeTrue(e) /\ e.no \in Nat
    BY <1>6 DEF TellInv, TellsTrue, Change
  <2>2. Said(e.no)' = Said(e.no) /\ RungUnder(e.no)' = RungUnder(e.no)
    BY <2>1 DEF RungUnder
  <2> QED BY <2>1, <2>2, TruthStays
<1>7. TellsTrue'
  BY <1>4, <1>5, <1>6 DEF TellInv, TellsTrue
<1> QED BY <1>1, <1>3, <1>7 DEF TellInv

LEMMA LookInv == ASSUME TellInv, NEW p \in Clerks, Look(p) PROVE TellInv'
<1> DEFINE look == [phase |-> "read", seen |-> row, since |-> Len(journal)]
<1>1. /\ DOMAIN clerk' = Clerks /\ clerk'[p] = look
      /\ \A q \in Clerks \ {p} : clerk'[q] = clerk[q]
      /\ UNCHANGED <<topic, row, letters, bells, journal, serial>>
  BY DEF Look, TellInv, TellKinds
<1>2. Len(journal) \in Nat /\ row \in Subject /\ DOMAIN journal = 1 .. Len(journal)
  BY ChangeTyped DEF TellInv, TellKinds
<1>3. look \in Reader /\ look.seen = row /\ look.since = Len(journal)
  BY <1>2 DEF Reader
<1> HIDE DEF look
<1>4. WasRead(row, Len(journal))
  BY <1>2 DEF WasRead, TellInv, TellsTrue
<1>5. letters' \subseteq Mail /\ \A l \in letters' : l.no \in 1 .. serial
  BY <1>1 DEF TellInv, TellKinds, Numbered
<1>6. \A no : Said(no)' = Said(no)
  BY <1>1 DEF Said
<1>7. \A q \in Clerks : \/ clerk'[q] = clerk[q] \/ clerk'[q] = NotWorking
                        \/ clerk'[q] \in Reader /\ WasRead(clerk'[q].seen, clerk'[q].since)
  BY <1>1, <1>3, <1>4
<1> QED BY <1>1, <1>5, <1>6, <1>7, NothingWritten

LEMMA AbortInv == ASSUME TellInv, NEW p \in Clerks, Abort(p) PROVE TellInv'
<1>1. /\ DOMAIN clerk' = Clerks /\ clerk'[p] = NotWorking
      /\ \A q \in Clerks \ {p} : clerk'[q] = clerk[q]
      /\ UNCHANGED <<topic, row, letters, bells, journal, serial>>
  BY DEF Abort, TellInv, TellKinds
<1>2. letters' \subseteq Mail /\ \A l \in letters' : l.no \in 1 .. serial
  BY <1>1 DEF TellInv, TellKinds, Numbered
<1>3. \A no : Said(no)' = Said(no)
  BY <1>1 DEF Said
<1> QED BY <1>1, <1>2, <1>3, NothingWritten

\* A letter with another fate is the same letter.
LEMMA OtherFate ==
    ASSUME NEW l \in Mail, NEW fate \in {"waiting", "delivered", "lost"}
    PROVE  LET m == [l EXCEPT !.fate = fate] IN
           /\ m \in Mail /\ m.no = l.no /\ m.to = l.to /\ m.kind = l.kind
           /\ m.start = l.start /\ m.refund = l.refund
BY DEF Mail

LEMMA FateInv ==
    ASSUME TellInv, NEW l \in letters, NEW fate \in {"delivered", "lost"}, Fate(l, fate)
    PROVE  TellInv'
<1> DEFINE m == [l EXCEPT !.fate = fate]
<1>1. letters' = (letters \ {l}) \cup {m} /\ UNCHANGED <<topic, row, clerk, bells, journal, serial>>
  BY DEF Fate
<1>2. l \in Mail /\ letters \subseteq Mail
  BY DEF TellInv, TellKinds
<1>3. m \in Mail /\ m.no = l.no /\ m.to = l.to /\ m.kind = l.kind /\ m.start = l.start /\ m.refund = l.refund
  BY <1>2, OtherFate
<1> HIDE DEF m
<1>4. ASSUME NEW no \in Nat PROVE Said(no)' = Said(no)
  BY <1>1, <1>3, SaidAlike
<1>5. letters' \subseteq Mail /\ \A x \in letters' : x.no \in 1 .. serial
  BY <1>1, <1>2, <1>3 DEF TellInv, Numbered
<1>6. DOMAIN clerk' = Clerks /\ \A p \in Clerks : clerk'[p] = clerk[p]
  BY <1>1 DEF TellInv, TellKinds
<1> QED BY <1>1, <1>4, <1>5, <1>6, NothingWritten

LEMMA HaltInv == ASSUME TellInv, Halt PROVE TellInv'
<1> DEFINE After(l) == [l EXCEPT !.fate = IF l.fate = "waiting" THEN "lost" ELSE l.fate]
<1>1. /\ letters' = {After(l) : l \in letters}
      /\ DOMAIN clerk' = Clerks /\ \A p \in Clerks : clerk'[p] = NotWorking
      /\ UNCHANGED <<topic, row, bells, journal, serial>>
  BY DEF Halt, TellInv, TellKinds
<1>2. letters \subseteq Mail
  BY DEF TellInv, TellKinds
<1>3. ASSUME NEW l \in letters
      PROVE  /\ After(l) \in Mail /\ After(l).no = l.no /\ After(l).to = l.to /\ After(l).kind = l.kind
             /\ After(l).start = l.start /\ After(l).refund = l.refund
  <2>1. l \in Mail /\ (IF l.fate = "waiting" THEN "lost" ELSE l.fate) \in {"waiting", "delivered", "lost"}
    BY <1>2 DEF Mail
  <2> QED BY <2>1, OtherFate
<1> HIDE DEF After
<1>4. ASSUME NEW no \in Nat PROVE Said(no)' = Said(no)
  BY <1>1, <1>3, SaidAlike
<1>5. letters' \subseteq Mail /\ \A x \in letters' : x.no \in 1 .. serial
  BY <1>1, <1>3 DEF TellInv, Numbered
<1> QED BY <1>1, <1>4, <1>5, NothingWritten

\* What a request has posted is said under its number, and nothing else is.
LEMMA SaidThen ==
    ASSUME TellInv, NEW post \in SUBSET Post, NEW next \in Nat, next = serial + 1, schedule_email(post, next)
    PROVE  /\ letters' \subseteq Mail /\ \A l \in letters' : l.no \in 1 .. next
           /\ Said(next)' = post
           /\ \A no \in Nat : no <= serial => Said(no)' = Said(no)
<1> DEFINE New(l) == [to |-> l.to, kind |-> l.kind, start |-> l.start, refund |-> l.refund,
                      no |-> next, fate |-> IF Sendable(l) THEN "waiting" ELSE "lost"]
<1>1. letters' = letters \cup {New(l) : l \in post}
  BY DEF schedule_email
<1>2. serial \in Nat /\ letters \subseteq Mail /\ \A l \in letters : l.no \in 1 .. serial
  BY DEF TellInv, TellKinds, Numbered
<1>3. ASSUME NEW l \in post
      PROVE  /\ New(l) \in Mail /\ New(l).no = next /\ New(l).to = l.to /\ New(l).kind = l.kind
             /\ New(l).start = l.start /\ New(l).refund = l.refund
             /\ l = [to |-> l.to, kind |-> l.kind, start |-> l.start, refund |-> l.refund]
  BY <1>2 DEF Post, Mail
<1> HIDE DEF New
<1>4. letters' \subseteq Mail /\ \A l \in letters' : l.no \in 1 .. next
  BY <1>1, <1>2, <1>3
<1>5. ASSUME NEW no \in Nat, no <= serial PROVE Said(no)' = Said(no)
  <2>1. \A l \in letters' : l.no = no => l \in letters
    BY <1>1, <1>2, <1>3, <1>5
  <2> QED BY <1>1, <2>1, SaidAlike
<1>6. Said(next)' = post
  <2>1. ASSUME NEW x \in post PROVE x \in Said(next)'
    BY <1>1, <1>3 DEF Said
  <2>2. ASSUME NEW x \in Said(next)' PROVE x \in post
    <3>1. PICK l \in letters' : l.no = next /\ x = [to |-> l.to, kind |-> l.kind, start |-> l.start, refund |-> l.refund]
      BY DEF Said
    <3>2. l \notin letters
      BY <1>2, <3>1
    <3>3. PICK k \in post : l = New(k)
      BY <1>1, <3>2
    <3> QED BY <1>3, <3>1, <3>3
  <2> QED BY <2>1, <2>2
<1> QED BY <1>4, <1>5, <1>6

\* A request that writes, and tells the truth of what it writes.
LEMMA TellStep ==
    ASSUME TellInv, NEW p \in Clerks, NEW op \in Word, NEW by \in Word, NEW new \in Subject,
           NEW rings \in SUBSET Ring, NEW post \in SUBSET Post, Tell(p, op, by, new, rings, post),
           Told(op, by, new, row, rings, post), VerdictTold(op, clerk[p].seen, new, post)
    PROVE  TellInv'
<1>1. PICK next \in Nat : next = serial + 1
  BY DEF TellInv, TellKinds
<1>2. clerk[p] \in Reader
  BY PhaseIs DEF Tell, TellInv
<1>3. PICK seen \in Subject, since \in Nat : clerk[p].seen = seen /\ clerk[p].since = since
  BY <1>2, Phases
<1>4. WasRead(seen, since)
  BY <1>2, <1>3 DEF TellInv, TellsTrue
<1>5. PICK c \in Writer :
         /\ clerk'[p] = c /\ c.op = op /\ c.by = by /\ c.row = new /\ c.rings = rings
         /\ c.no = next /\ c.since = since
  <2> DEFINE c == [phase |-> "written", op |-> op, by |-> by, row |-> new,
                   rings |-> rings, no |-> next, since |-> since]
  <2>1. clerk'[p] = c
    BY <1>1, <1>3 DEF Tell, TellInv, TellKinds
  <2>2. c \in Writer
    BY <1>3 DEF Writer
  <2>3. /\ c.op = op /\ c.by = by /\ c.row = new /\ c.rings = rings
        /\ c.no = next /\ c.since = since
    OBVIOUS
  <2> HIDE DEF c
  <2> QED BY <2>1, <2>2, <2>3
<1>6. /\ DOMAIN clerk' = Clerks /\ \A q \in Clerks \ {p} : clerk'[q] = clerk[q]
      /\ UNCHANGED <<topic, row, bells, journal>> /\ serial' = next /\ schedule_email(post, next)
      /\ next <= MaxEvents
  BY <1>1, EventsAssumption DEF Tell, TellInv, TellKinds
<1>7. /\ letters' \subseteq Mail /\ \A l \in letters' : l.no \in 1 .. next
      /\ Said(next)' = post /\ \A no \in Nat : no <= serial => Said(no)' = Said(no)
  BY <1>1, <1>6, SaidThen
<1>8. TellKinds'
  <2>1. \A q \in Clerks : clerk'[q] = NotWorking \/ clerk'[q] \in Reader \/ clerk'[q] \in Writer
    BY <1>5, <1>6 DEF TellInv, TellKinds
  <2>2. serial' \in 0 .. MaxEvents /\ serial' \in Nat
    BY <1>1, <1>6, EventsAssumption
  <2> QED BY <1>6, <1>7, <2>1, <2>2 DEF TellInv, TellKinds
<1>9. \A q \in Clerks \ {p} : ~Working(q, "written") /\ clerk[q] \notin Writer
  BY PhaseIs DEF Tell, TellInv
<1>10. \A q \in Clerks : Working(q, "written")' => q = p
  BY <1>6, <1>9 DEF Working
<1>11. /\ \A i \in DOMAIN journal : /\ journal[i].no \in 1 .. serial /\ journal[i].since < i
                                     /\ journal[i].no <= serial /\ journal[i].no < next
       /\ Len(journal) <= serial /\ serial \in Nat /\ Len(journal) \in Nat
  BY <1>1, ChangeTyped DEF TellInv, TellKinds, Numbered
<1>12. Numbered'
  <2>1. Len(journal') <= serial' /\ next \in 1 .. serial' /\ Len(journal') < next
    BY <1>1, <1>6, <1>11
  <2>2. \A i \in DOMAIN journal' : journal'[i].no \in 1 .. serial' /\ journal'[i].since < i /\ journal'[i].no < next
    BY <1>1, <1>6, <1>11
  <2>3. \A q \in Clerks : Working(q, "written")' =>
            /\ clerk'[q].no \in 1 .. serial' /\ Len(journal') < clerk'[q].no
            /\ \A i \in DOMAIN journal' : journal'[i].no < clerk'[q].no
    BY <1>5, <1>10, <2>1, <2>2
  <2> QED BY <1>6, <1>7, <1>10, <2>1, <2>2, <2>3 DEF TellInv, Numbered
<1>13. ASSUME NEW q \in Clerks, NEW r \in Reader, clerk'[q] = r PROVE WasRead(r.seen, r.since)'
  <2>1. clerk[q] = r
    BY <1>5, <1>6, <1>13, Phases
  <2>2. WasRead(r.seen, r.since)
    BY <2>1 DEF TellInv, TellsTrue
  <2> QED BY <1>6, <2>2 DEF WasRead
<1>14. ASSUME NEW q \in Clerks, NEW w \in Writer, clerk'[q] = w PROVE WriterTrue(w)'
  <2>1. w = c
    BY <1>5, <1>6, <1>9, <1>14
  <2>2. Told(op, by, new, row, rings, post)'
    BY <1>6 DEF Told, InTopic, HeardOf, MoneyTold, LinksSent
  <2>3. FromRead(op, new, since, post)'
    <3>1. VerdictTold(op, seen, new, post) /\ WasRead(seen, since)'
      BY <1>3, <1>4, <1>6 DEF WasRead
    <3> QED BY <3>1 DEF FromRead, VerdictTold
  <2> QED BY <1>5, <1>7, <2>1, <2>2, <2>3 DEF WriterTrue
<1>15. ASSUME NEW i \in DOMAIN journal', NEW e \in Change, journal'[i] = e PROVE ChangeTrue(e)'
  <2>1. ChangeTrue(e) /\ e.no \in Nat /\ e.no <= serial
    BY <1>6, <1>11, <1>15 DEF TellInv, TellsTrue, Change
  <2>2. Said(e.no)' = Said(e.no) /\ RungUnder(e.no)' = RungUnder(e.no)
    BY <1>6, <1>7, <2>1 DEF RungUnder
  <2> QED BY <1>6, <2>1, <2>2, TruthStays
<1>16. TellsTrue'
  BY <1>6, <1>13, <1>14, <1>15 DEF TellInv, TellsTrue
<1> QED BY <1>8, <1>12, <1>16 DEF TellInv

\* What a request commits is told of what it has changed.
LEMMA CommitInv == ASSUME TellInv, NEW p \in Clerks, Commit(p) PROVE TellInv'
<1>1. PICK c \in Writer : clerk[p] = c
  BY PhaseIs DEF Commit, TellInv
<1>2. PICK old \in Subject : row = old
  BY DEF TellInv, TellKinds
<1>3. /\ c.op \in Word /\ c.by \in Word /\ c.row \in Subject /\ c.rings \in SUBSET Ring
      /\ c.no \in Nat /\ c.since \in Nat
  BY Phases
<1>4. PICK n \in Nat : n = Len(journal)
  BY ChangeTyped DEF TellInv
<1>5. PICK e \in Change :
         /\ e.no = c.no /\ e.op = c.op /\ e.by = c.by /\ e.row = c.row /\ e.before = old /\ e.since = c.since
         /\ journal' = Append(journal, e)
  <2> DEFINE e == [no |-> c.no, op |-> c.op, by |-> c.by, row |-> c.row, before |-> old, since |-> c.since]
  <2>1. journal' = Append(journal, e)
    BY <1>1, <1>2 DEF Commit
  <2>2. e \in Change
    BY <1>3 DEF Change
  <2>3. /\ e.no = c.no /\ e.op = c.op /\ e.by = c.by /\ e.row = c.row /\ e.before = old /\ e.since = c.since
    OBVIOUS
  <2> HIDE DEF e
  <2> QED BY <2>1, <2>2, <2>3
<1>6. /\ journal' \in Seq(Change) /\ Len(journal') = n + 1 /\ DOMAIN journal' = 1 .. (n + 1)
      /\ journal'[n + 1] = e /\ \A i \in 1 .. n : journal'[i] = journal[i]
      /\ DOMAIN journal = 1 .. n
  BY <1>4, <1>5 DEF TellInv, TellKinds
<1>7. /\ DOMAIN clerk' = Clerks /\ clerk'[p] = NotWorking
      /\ \A q \in Clerks \ {p} : clerk'[q] = clerk[q]
      /\ row' = c.row /\ UNCHANGED <<topic, letters, serial>>
  BY <1>1 DEF Commit, TellInv, TellKinds
<1>8. bells' = bells \cup {[to |-> b.to, kind |-> b.kind, no |-> c.no] : b \in c.rings}
  BY <1>1 DEF Commit
<1>9. /\ c.no \in 1 .. serial /\ n < c.no /\ \A i \in 1 .. n : journal[i].no < c.no
      /\ \A i \in 1 .. n : journal[i].no \in Nat
      /\ \A q \in Clerks \ {p} : ~Working(q, "written") /\ clerk[q] \notin Writer
  <2>1. Working(p, "written")
    BY <1>1, Phases DEF Working
  <2>2. \A q \in Clerks \ {p} : ~Working(q, "written") /\ clerk[q] \notin Writer
    BY <2>1, PhaseIs DEF TellInv, Numbered
  <2>3. \A i \in 1 .. n : journal[i].no \in Nat
    BY <1>6, ChangeTyped DEF TellInv
  <2> QED BY <1>1, <1>4, <1>6, <2>1, <2>2, <2>3 DEF TellInv, Numbered
<1>10. WriterTrue(c)
  BY <1>1 DEF TellInv, TellsTrue
<1>11. ASSUME NEW seen, NEW since, WasRead(seen, since)
       PROVE  since \in 0 .. n /\ WasRead(seen, since)'
  BY <1>4, <1>6, <1>11 DEF WasRead
<1>12. e.since < n + 1
  <2>1. c.since \in 0 .. n
    BY <1>10, <1>11 DEF WriterTrue, FromRead
  <2> QED BY <1>4, <1>5, <2>1
<1>13. ASSUME NEW op, NEW new, NEW since, NEW post, FromRead(op, new, since, post)
       PROVE  FromRead(op, new, since, post)'
  <2>1. PICK seen \in Subject : WasRead(seen, since) /\ VerdictTold(op, seen, new, post)
    BY <1>13 DEF FromRead
  <2>2. WasRead(seen, since)'
    BY <1>11, <2>1
  <2> QED BY <2>1, <2>2 DEF FromRead, VerdictTold
<1>14. \A op, by, new, before, rings, post :
         Told(op, by, new, before, rings, post)' <=> Told(op, by, new, before, rings, post)
  BY <1>7 DEF Told, InTopic, HeardOf, MoneyTold, LinksSent
<1>15. \A no : Said(no)' = Said(no)
  BY <1>7 DEF Said
<1>16. ASSUME NEW b \in bells PROVE b \in Rung /\ b.no # c.no
  <2>1. PICK i \in 1 .. n : journal[i].no = b.no
    BY <1>6 DEF TellInv, Numbered
  <2> QED BY <1>9, <2>1 DEF TellInv, TellKinds
<1>17. ASSUME NEW b \in c.rings
       PROVE  /\ [to |-> b.to, kind |-> b.kind, no |-> c.no] \in Rung
              /\ b = [to |-> b.to, kind |-> b.kind]
  BY <1>3 DEF Ring, Rung
<1>18. RungUnder(c.no)' = c.rings
  <2>1. ASSUME NEW x \in c.rings PROVE x \in RungUnder(c.no)'
    <3>1. PICK b \in bells' : b = [to |-> x.to, kind |-> x.kind, no |-> c.no]
      BY <1>8
    <3>2. b.no = c.no /\ b.to = x.to /\ b.kind = x.kind
      BY <3>1
    <3>3. x = [to |-> b.to, kind |-> b.kind]
      BY <1>17, <3>2
    <3> QED BY <3>2, <3>3 DEF RungUnder
  <2>2. ASSUME NEW x \in RungUnder(c.no)' PROVE x \in c.rings
    <3>1. PICK b \in bells' : b.no = c.no /\ x = [to |-> b.to, kind |-> b.kind]
      BY DEF RungUnder
    <3>2. PICK r \in c.rings : b = [to |-> r.to, kind |-> r.kind, no |-> c.no]
      BY <1>8, <1>16, <3>1
    <3> QED BY <1>17, <3>1, <3>2
  <2> QED BY <2>1, <2>2
<1>19. ASSUME NEW no, no # c.no PROVE RungUnder(no)' = RungUnder(no)
  BY <1>8, <1>19 DEF RungUnder
<1>20. TellKinds'
  <2>1. bells' \subseteq Rung
    BY <1>8, <1>16, <1>17
  <2>2. \A q \in Clerks : clerk'[q] = NotWorking \/ clerk'[q] \in Reader \/ clerk'[q] \in Writer
    BY <1>7 DEF TellInv, TellKinds
  <2> QED BY <1>3, <1>6, <1>7, <2>1, <2>2 DEF TellInv, TellKinds
<1>21. \A q \in Clerks : ~Working(q, "written")'
  BY <1>7, <1>9, Phases DEF Working
<1>22. Numbered'
  <2>1. Len(journal') <= serial' /\ serial \in Nat
    BY <1>6, <1>7, <1>9 DEF TellInv, TellKinds
  <2>2. \A b \in bells' : \E i \in DOMAIN journal' : journal'[i].no = b.no
    <3>1. ASSUME NEW b \in bells PROVE \E i \in DOMAIN journal' : journal'[i].no = b.no
      <4>1. PICK i \in 1 .. n : journal[i].no = b.no
        BY <1>6 DEF TellInv, Numbered
      <4> QED BY <1>4, <1>6, <4>1
    <3>2. ASSUME NEW b \in c.rings
          PROVE  \E i \in DOMAIN journal' : journal'[i].no = [to |-> b.to, kind |-> b.kind, no |-> c.no].no
      BY <1>4, <1>5, <1>6
    <3> QED BY <1>8, <3>1, <3>2
  <2>3. \A i \in DOMAIN journal' : journal'[i].no \in 1 .. serial' /\ journal'[i].since < i
    <3>1. \A i \in 1 .. n : journal'[i].no \in 1 .. serial' /\ journal'[i].since < i
      BY <1>6, <1>7 DEF TellInv, Numbered
    <3> QED BY <1>4, <1>5, <1>6, <1>7, <1>9, <1>12, <3>1
  <2>4. \A i, j \in DOMAIN journal' : i < j => journal'[i].no < journal'[j].no
    <3>1. \A i, j \in 1 .. n : i < j => journal'[i].no < journal'[j].no
      BY <1>6 DEF TellInv, Numbered
    <3>2. \A i \in 1 .. n : journal'[i].no < journal'[n + 1].no
      BY <1>5, <1>6, <1>9
    <3> QED BY <1>4, <1>6, <3>1, <3>2
  <2>5. \A l \in letters' : l.no \in 1 .. serial'
    BY <1>7 DEF TellInv, Numbered
  <2> QED BY <1>21, <2>1, <2>2, <2>3, <2>4, <2>5 DEF Numbered
<1>23. Len(journal') > 0 => row' = journal'[Len(journal')].row
  BY <1>5, <1>6, <1>7
<1>24. ASSUME NEW q \in Clerks, NEW r \in Reader, clerk'[q] = r PROVE WasRead(r.seen, r.since)'
  <2>1. clerk[q] = r
    BY <1>7, <1>24, Phases
  <2>2. WasRead(r.seen, r.since)
    BY <2>1 DEF TellInv, TellsTrue
  <2> QED BY <1>11, <2>2
<1>25. ASSUME NEW q \in Clerks, NEW w \in Writer, clerk'[q] = w PROVE WriterTrue(w)'
  BY <1>7, <1>9, <1>25, Phases
<1>26. ASSUME NEW i \in DOMAIN journal', NEW x \in Change, journal'[i] = x PROVE ChangeTrue(x)'
  <2>1. CASE i \in 1 .. n
    <3>1. journal[i] = x /\ x.no # c.no
      BY <1>6, <1>9, <1>26, <2>1
    <3>2. ChangeTrue(x)
      BY <1>6, <2>1, <3>1 DEF TellInv, TellsTrue
    <3>3. PICK rings : rings = RungUnder(x.no)
      OBVIOUS
    <3>4. PICK post : post = Said(x.no)
      OBVIOUS
    <3>5. Told(x.op, x.by, x.row, x.before, rings, post)' /\ FromRead(x.op, x.row, x.since, post)'
      BY <1>13, <1>14, <3>2, <3>3, <3>4 DEF ChangeTrue
    <3>6. RungUnder(x.no)' = rings /\ Said(x.no)' = post
      BY <1>15, <1>19, <3>1, <3>3, <3>4
    <3> QED BY <3>5, <3>6 DEF ChangeTrue
  <2>2. CASE i = n + 1
    <3>1. x = e
      BY <1>6, <1>26, <2>2
    <3>2. PICK post : post = Said(c.no)
      OBVIOUS
    <3>3. Told(c.op, c.by, c.row, old, c.rings, post) /\ FromRead(c.op, c.row, c.since, post)
      BY <1>2, <1>10, <3>2 DEF WriterTrue
    <3>4. Told(c.op, c.by, c.row, old, c.rings, post)' /\ FromRead(c.op, c.row, c.since, post)'
      BY <1>13, <1>14, <3>3
    <3>5. RungUnder(e.no)' = c.rings /\ Said(e.no)' = post
      BY <1>5, <1>15, <1>18, <3>2
    <3>6. ChangeTrue(e)'
      BY <1>5, <3>4, <3>5 DEF ChangeTrue
    <3> QED BY <3>1, <3>6
  <2> QED BY <1>4, <1>6, <2>1, <2>2
<1>27. TellsTrue'
  BY <1>23, <1>24, <1>25, <1>26 DEF TellsTrue
<1> QED BY <1>20, <1>22, <1>27 DEF TellInv

-----------------------------------------------------------------------------
\* What handlers write and tell

LEMMA ReaderHas ==
    ASSUME TellInv, NEW p \in Clerks, Working(p, "read")
    PROVE  Seen(p) \in Subject /\ row \in Subject
BY PhaseIs, Phases DEF TellInv, TellKinds, Seen

\* A flush gives each column the row's value or the request's.
LEMMA FlushedIs ==
    ASSUME TellInv, NEW p \in Clerks, Working(p, "read"), NEW new \in Subject
    PROVE  /\ Flushed(p, new) \in Subject
           /\ Flushed(p, new).status = IF new.status = Seen(p).status THEN row.status ELSE new.status
           /\ Flushed(p, new).price = IF new.price = Seen(p).price THEN row.price ELSE new.price
           /\ Flushed(p, new).paid = IF new.paid = Seen(p).paid THEN row.paid ELSE new.paid
           /\ Flushed(p, new).meeting = IF new.meeting = Seen(p).meeting THEN row.meeting ELSE new.meeting
           /\ Flushed(p, new).told = IF new.told = Seen(p).told THEN row.told ELSE new.told
<1>1. Seen(p) \in Subject /\ row \in Subject
  BY ReaderHas
<1>2. DOMAIN row = {"status", "price", "paid", "start", "meeting", "told", "asked"}
  BY <1>1 DEF Subject
<1>3. Flushed(p, new) = [f \in {"status", "price", "paid", "start", "meeting", "told", "asked"} |->
                           IF new[f] = Seen(p)[f] THEN row[f] ELSE new[f]]
  BY <1>2 DEF Flushed, Flush, Seen
<1>4. Flushed(p, new) =
        [status  |-> IF new.status = Seen(p).status THEN row.status ELSE new.status,
         price   |-> IF new.price = Seen(p).price THEN row.price ELSE new.price,
         paid    |-> IF new.paid = Seen(p).paid THEN row.paid ELSE new.paid,
         start   |-> IF new.start = Seen(p).start THEN row.start ELSE new.start,
         meeting |-> IF new.meeting = Seen(p).meeting THEN row.meeting ELSE new.meeting,
         told    |-> IF new.told = Seen(p).told THEN row.told ELSE new.told,
         asked   |-> IF new.asked = Seen(p).asked THEN row.asked ELSE new.asked]
  BY <1>3
<1> QED BY <1>1, <1>4 DEF Subject

LEMMA BellIs ==
    ASSUME NEW to \in Correspondents, NEW kind \in Word
    PROVE  Bell(to, kind) \in Ring /\ Bell(to, kind).to = to /\ Bell(to, kind).kind = kind
BY DEF Bell, Ring

LEMMA LetterIs ==
    ASSUME NEW to \in Correspondents, NEW kind \in Word, NEW new \in Subject
    PROVE  /\ Letter(to, kind, new) \in Post /\ Letter(to, kind, new).to = to
           /\ Letter(to, kind, new).kind = kind /\ Letter(to, kind, new).start = new.start
           /\ Letter(to, kind, new).refund = 0
BY DEF Letter, Post, Subject

\* A letter that names neither a refund nor a link, and the time that the row has
PlainPost(post, new) ==
    \A l \in post : l.refund = 0 /\ l.kind \notin {"join_link", "host_link"} /\ l.start = new.start

\* A change that gives no money back and makes no meeting
PlainChange(new, before) ==
    /\ new.paid = "refunded" => before.paid = "refunded"
    /\ new.meeting => before.meeting

\* Who makes such a change and writes such letters has the others to tell, and the verdict.
LEMMA PlainTell ==
    ASSUME TellInv, NEW p \in Clerks, NEW op \in Word, NEW by \in Word, NEW new \in Subject,
           NEW rings \in SUBSET Ring, NEW post \in SUBSET Post, Tell(p, op, by, new, rings, post),
           InTopic(op), HeardOf(op, by, new, rings), VerdictTold(op, clerk[p].seen, new, post),
           op # "cancel", PlainPost(post, new), PlainChange(new, row)
    PROVE  TellInv'
<1>1. MoneyTold(op, new, row, rings, post)
  BY DEF MoneyTold, PlainPost, PlainChange
<1>2. LinksSent(new, row, post)
  BY DEF LinksSent, PlainPost, PlainChange
<1>3. Told(op, by, new, row, rings, post)
  BY <1>1, <1>2 DEF Told
<1> QED BY <1>3, TellStep

\* Without letters nothing is said that could be wrong.
LEMMA NoPost ==
    ASSUME NEW op, NEW seen, NEW new, NEW post, post = {}
    PROVE  PlainPost(post, new) /\ VerdictTold(op, seen, new, post) /\ post \in SUBSET Post
BY DEF PlainPost, VerdictTold

\* Nor where no verdict is given.
LEMMA NoVerdict ==
    ASSUME NEW op, op \notin {"judge_account", "judge_document", "comment"}, NEW seen, NEW new, NEW post
    PROVE  VerdictTold(op, seen, new, post)
BY DEF VerdictTold

\* One bell for the one who did not do it
LEMMA OneBell ==
    ASSUME NEW op, op \notin {"expire", "judge_document"}, NEW by, NEW new, NEW to \in Correspondents, NEW kind \in Word,
           to # by, op # "register" /\ by \in {"seeker", "advisor"} => to = Counterparty(by), NEW rings, rings = {Bell(to, kind)}
    PROVE  HeardOf(op, by, new, rings) /\ rings \in SUBSET Ring
BY BellIs DEF HeardOf

\* The row that a request has read, with some columns changed, as it is flushed
LEMMA PlainFlush ==
    ASSUME TellInv, NEW p \in Clerks, Working(p, "read"), NEW made \in Subject,
           made.paid = Seen(p).paid \/ made.paid # "refunded", made.meeting = Seen(p).meeting
    PROVE  Flushed(p, made) \in Subject /\ PlainChange(Flushed(p, made), row)
BY FlushedIs DEF PlainChange

LEMMA RequestTold == ASSUME TellInv, NEW p \in Clerks, Working(p, "read"), RequestBooking(p) PROVE TellInv'
<1>1. Seen(p) \in Subject /\ row \in Subject
  BY ReaderHas
<1>2. PICK price \in {0, 1} :
         Tell(p, "request", "seeker", Flushed(p, [Seen(p) EXCEPT !.status = "pending", !.price = price]), {}, {})
  BY DEF RequestBooking
<1> DEFINE made == [Seen(p) EXCEPT !.status = "pending", !.price = price]
<1>3. made \in Subject /\ made.paid = Seen(p).paid /\ made.meeting = Seen(p).meeting
  BY <1>1 DEF Subject
<1>4. Tell(p, "request", "seeker", Flushed(p, made), {}, {})
  BY <1>2
<1> HIDE DEF made
<1>5. PICK new \in Subject : new = Flushed(p, made) /\ PlainChange(new, row)
  BY <1>3, PlainFlush
<1>6. PICK none : none = {}
  OBVIOUS
<1>7. InTopic("request") /\ HeardOf("request", "seeker", new, none)
  BY <1>6 DEF RequestBooking, InTopic, HeardOf
<1>8. /\ PlainPost(none, new) /\ VerdictTold("request", clerk[p].seen, new, none) /\ none \in SUBSET Post
      /\ Tell(p, "request", "seeker", new, none, none)
      /\ none \in SUBSET Ring
  BY <1>4, <1>5, <1>6, NoPost
<1>9. "request" \in Word /\ "seeker" \in Word
  BY DEF Word
<1> QED BY <1>5, <1>7, <1>8, <1>9, PlainTell

LEMMA BookForTold == ASSUME TellInv, NEW p \in Clerks, Working(p, "read"), BookForClient(p) PROVE TellInv'
<1>1. Seen(p) \in Subject /\ row \in Subject
  BY ReaderHas
<1> DEFINE made == [Seen(p) EXCEPT !.status = "confirmed", !.paid = "paid"]
           rings == {Bell("seeker", "confirmed")}
<1>2. Tell(p, "book_for", "advisor", Flushed(p, made), rings, {})
  BY DEF BookForClient
<1>3. made \in Subject /\ made.paid = "paid" /\ made.meeting = Seen(p).meeting
  BY <1>1 DEF Subject
<1> HIDE DEF made
<1>4. PICK new \in Subject : new = Flushed(p, made) /\ PlainChange(new, row)
  BY <1>3, PlainFlush
<1>5. InTopic("book_for")
  BY DEF BookForClient, InTopic
<1>6. "seeker" \in Correspondents /\ "seeker" = Counterparty("advisor") /\ "seeker" # "advisor"
      /\ "book_for" \in Word /\ "advisor" \in Word /\ "confirmed" \in Word
  BY DEF Correspondents, Counterparty, Word
<1>7. HeardOf("book_for", "advisor", new, rings) /\ rings \in SUBSET Ring
  BY <1>6, OneBell
<1> HIDE DEF rings
<1>8. PICK none : none = {}
  OBVIOUS
<1>9. /\ PlainPost(none, new) /\ VerdictTold("book_for", clerk[p].seen, new, none) /\ none \in SUBSET Post
      /\ Tell(p, "book_for", "advisor", new, rings, none)
  BY <1>2, <1>4, <1>8, NoPost
<1> QED BY <1>4, <1>5, <1>6, <1>7, <1>9, PlainTell

\* One letter, about neither a refund nor a meeting
LEMMA OneLetter ==
    ASSUME NEW to \in Correspondents, NEW kind \in Word, kind \notin {"join_link", "host_link"},
           NEW new \in Subject, NEW post, post = {Letter(to, kind, new)}
    PROVE  PlainPost(post, new) /\ post \in SUBSET Post /\ \A l \in post : l.kind = kind
BY LetterIs DEF PlainPost

\* Who adds a text, or changes what nobody is told of, leaves the rest alone.
LEMMA TextAdded ==
    ASSUME TellInv, NEW p \in Clerks, Working(p, "read")
    PROVE  AddText(p) \in Subject /\ PlainChange(AddText(p), row)
<1> DEFINE made == [Seen(p) EXCEPT !.told = @ + 1]
<1>1. Seen(p) \in Subject
  BY ReaderHas
<1>2. made \in Subject /\ made.paid = Seen(p).paid /\ made.meeting = Seen(p).meeting
  BY <1>1 DEF Subject
<1>3. AddText(p) = Flushed(p, made)
  BY DEF AddText
<1> HIDE DEF made
<1> QED BY <1>2, <1>3, PlainFlush

LEMMA RescheduleTold ==
    ASSUME TellInv, NEW p \in Clerks, Working(p, "read"), NEW by \in {"seeker", "advisor"}, RescheduleBooking(p, by) PROVE TellInv'
<1> DEFINE made == [Seen(p) EXCEPT !.start = 1 - @]
<1>1. PICK new : new = Flushed(p, made)
  OBVIOUS
<1>2. PICK rings : rings = {Bell(Counterparty(by), "rescheduled")}
  OBVIOUS
<1>3. PICK post : post = {Letter(to, "new_time", new) : to \in Addressees}
  OBVIOUS
<1>4. Tell(p, "reschedule", by, new, rings, post) /\ InTopic("reschedule")
  BY <1>1, <1>2, <1>3 DEF RescheduleBooking, send_reschedule_notifications, send_booking_rescheduled_email, InTopic
<1>5. Seen(p) \in Subject
  BY ReaderHas
<1>6. made \in Subject /\ (made.paid = Seen(p).paid \/ made.paid # "refunded") /\ made.meeting = Seen(p).meeting
  BY <1>5 DEF Subject
<1> HIDE DEF made
<1>7. new \in Subject /\ PlainChange(new, row)
  BY <1>1, <1>6, PlainFlush
<1>8. "reschedule" \in Word /\ "rescheduled" \in Word /\ "new_time" \in Word
      /\ Counterparty(by) \in Correspondents
      /\ by \in Word
      /\ Counterparty(by) # by /\ ("reschedule" # "register" => Counterparty(by) = Counterparty(by))
  BY DEF Word, Correspondents, Counterparty
<1>9. HeardOf("reschedule", by, new, rings) /\ rings \in SUBSET Ring
  BY <1>2, <1>8, BellIs DEF HeardOf
<1>10. PlainPost(post, new) /\ post \in SUBSET Post
  BY <1>3, <1>7, <1>8, LetterIs DEF Addressees, Correspondents, PlainPost
<1>11. VerdictTold("reschedule", clerk[p].seen, new, post)
  BY NoVerdict
<1> QED BY <1>4, <1>7, <1>8, <1>9, <1>10, <1>11, PlainTell

LEMMA EndTold ==
    ASSUME TellInv, NEW p \in Clerks, Working(p, "read"), NEW status \in {"completed", "no_show"}, EndBooking(p, status) PROVE TellInv'
<1> DEFINE made == [Seen(p) EXCEPT !.status = status]
<1>1. PICK new : new = Flushed(p, made)
  OBVIOUS
<1>2. PICK rings : rings = {Bell("seeker", status)}
  OBVIOUS
<1>3. PICK post : post = {}
  OBVIOUS
<1>4. Tell(p, "close", "advisor", new, rings, post) /\ InTopic("close")
  BY <1>1, <1>2, <1>3 DEF EndBooking, InTopic
<1>5. Seen(p) \in Subject
  BY ReaderHas
<1>6. made \in Subject /\ (made.paid = Seen(p).paid \/ made.paid # "refunded") /\ made.meeting = Seen(p).meeting
  BY <1>5 DEF Subject
<1> HIDE DEF made
<1>7. new \in Subject /\ PlainChange(new, row)
  BY <1>1, <1>6, PlainFlush
<1>8. "close" \in Word /\ "advisor" \in Word
      /\ "seeker" \in Correspondents
      /\ status \in Word
      /\ "seeker" # "advisor" /\ ("close" # "register" => "seeker" = Counterparty("advisor"))
  BY DEF Word, Correspondents, Counterparty
<1>9. HeardOf("close", "advisor", new, rings) /\ rings \in SUBSET Ring
  BY <1>2, <1>8, BellIs DEF HeardOf
<1>10. PlainPost(post, new) /\ post \in SUBSET Post
  BY <1>3, NoPost
<1>11. VerdictTold("close", clerk[p].seen, new, post)
  BY NoVerdict
<1> QED BY <1>4, <1>7, <1>8, <1>9, <1>10, <1>11, PlainTell

LEMMA NoteTold ==
    ASSUME TellInv, NEW p \in Clerks, Working(p, "read"), AddNote(p) PROVE TellInv'
<1>1. PICK new : new = AddText(p)
  OBVIOUS
<1>2. PICK rings : rings = {Bell("seeker", "note")}
  OBVIOUS
<1>3. PICK post : post = {Letter("seeker", "note", new)}
  OBVIOUS
<1>4. Tell(p, "note", "advisor", new, rings, post) /\ InTopic("note")
  BY <1>1, <1>2, <1>3 DEF AddNote, send_note_added_notification, send_booking_note_added_email, InTopic
<1>7. new \in Subject /\ PlainChange(new, row)
  BY <1>1, TextAdded
<1>8. "note" \in Word /\ "advisor" \in Word
      /\ "seeker" \in Correspondents
      /\ "seeker" # "advisor" /\ ("note" # "register" => "seeker" = Counterparty("advisor"))
  BY DEF Word, Correspondents, Counterparty
<1>9. HeardOf("note", "advisor", new, rings) /\ rings \in SUBSET Ring
  BY <1>2, <1>8, BellIs DEF HeardOf
<1>10. PlainPost(post, new) /\ post \in SUBSET Post /\ \A l \in post : l.kind = "note"
  BY <1>3, <1>7, <1>8, OneLetter
<1>11. VerdictTold("note", clerk[p].seen, new, post)
  BY NoVerdict
<1> QED BY <1>4, <1>7, <1>8, <1>9, <1>10, <1>11, PlainTell

LEMMA AskTold ==
    ASSUME TellInv, NEW p \in Clerks, Working(p, "read"), AskForDocument(p) PROVE TellInv'
<1> DEFINE made == [Seen(p) EXCEPT !.asked = TRUE]
<1>1. PICK new : new = Flushed(p, made)
  OBVIOUS
<1>2. PICK rings : rings = {Bell("seeker", "asked")}
  OBVIOUS
<1>3. PICK post : post = {Letter("seeker", "asked", new)}
  OBVIOUS
<1>4. Tell(p, "ask", "advisor", new, rings, post) /\ InTopic("ask")
  BY <1>1, <1>2, <1>3 DEF AskForDocument, send_document_requested_email, InTopic
<1>5. Seen(p) \in Subject
  BY ReaderHas
<1>6. made \in Subject /\ (made.paid = Seen(p).paid \/ made.paid # "refunded") /\ made.meeting = Seen(p).meeting
  BY <1>5 DEF Subject
<1> HIDE DEF made
<1>7. new \in Subject /\ PlainChange(new, row)
  BY <1>1, <1>6, PlainFlush
<1>8. "ask" \in Word /\ "advisor" \in Word /\ "asked" \in Word
      /\ "seeker" \in Correspondents
      /\ "seeker" # "advisor" /\ ("ask" # "register" => "seeker" = Counterparty("advisor"))
  BY DEF Word, Correspondents, Counterparty
<1>9. HeardOf("ask", "advisor", new, rings) /\ rings \in SUBSET Ring
  BY <1>2, <1>8, BellIs DEF HeardOf
<1>10. PlainPost(post, new) /\ post \in SUBSET Post /\ \A l \in post : l.kind = "asked"
  BY <1>3, <1>7, <1>8, OneLetter
<1>11. VerdictTold("ask", clerk[p].seen, new, post)
  BY NoVerdict
<1> QED BY <1>4, <1>7, <1>8, <1>9, <1>10, <1>11, PlainTell

LEMMA FulfillTold ==
    ASSUME TellInv, NEW p \in Clerks, Working(p, "read"), FulfillRequest(p) PROVE TellInv'
<1> DEFINE made == [Seen(p) EXCEPT !.asked = FALSE]
<1>1. PICK new : new = Flushed(p, made)
  OBVIOUS
<1>2. PICK rings : rings = {Bell("advisor", "fulfilled")}
  OBVIOUS
<1>3. PICK post : post = {}
  OBVIOUS
<1>4. Tell(p, "fulfill", "seeker", new, rings, post) /\ InTopic("fulfill")
  BY <1>1, <1>2, <1>3 DEF FulfillRequest, InTopic
<1>5. Seen(p) \in Subject
  BY ReaderHas
<1>6. made \in Subject /\ (made.paid = Seen(p).paid \/ made.paid # "refunded") /\ made.meeting = Seen(p).meeting
  BY <1>5 DEF Subject
<1> HIDE DEF made
<1>7. new \in Subject /\ PlainChange(new, row)
  BY <1>1, <1>6, PlainFlush
<1>8. "fulfill" \in Word /\ "seeker" \in Word /\ "fulfilled" \in Word
      /\ "advisor" \in Correspondents
      /\ "advisor" # "seeker" /\ ("fulfill" # "register" => "advisor" = Counterparty("seeker"))
  BY DEF Word, Correspondents, Counterparty
<1>9. HeardOf("fulfill", "seeker", new, rings) /\ rings \in SUBSET Ring
  BY <1>2, <1>8, BellIs DEF HeardOf
<1>10. PlainPost(post, new) /\ post \in SUBSET Post
  BY <1>3, NoPost
<1>11. VerdictTold("fulfill", clerk[p].seen, new, post)
  BY NoVerdict
<1> QED BY <1>4, <1>7, <1>8, <1>9, <1>10, <1>11, PlainTell

LEMMA CommentTold ==
    ASSUME TellInv, NEW p \in Clerks, Working(p, "read"), CommentDocument(p) PROVE TellInv'
<1>1. PICK new : new = AddText(p)
  OBVIOUS
<1>2. PICK rings : rings = {Bell("seeker", "comment")}
  OBVIOUS
<1>3. PICK post : post = {Letter("seeker", "comment", new)}
  OBVIOUS
<1>4. Tell(p, "comment", "advisor", new, rings, post) /\ InTopic("comment")
  BY <1>1, <1>2, <1>3 DEF CommentDocument, CommentMade, send_document_comment_email, InTopic
<1>7. new \in Subject /\ PlainChange(new, row)
  BY <1>1, TextAdded
<1>8. "comment" \in Word /\ "advisor" \in Word
      /\ "seeker" \in Correspondents
      /\ "seeker" # "advisor" /\ ("comment" # "register" => "seeker" = Counterparty("advisor"))
  BY DEF Word, Correspondents, Counterparty
<1>9. HeardOf("comment", "advisor", new, rings) /\ rings \in SUBSET Ring
  BY <1>2, <1>8, BellIs DEF HeardOf
<1>10. PlainPost(post, new) /\ post \in SUBSET Post /\ \A l \in post : l.kind = "comment"
  BY <1>3, <1>7, <1>8, OneLetter
<1>11. VerdictTold("comment", clerk[p].seen, new, post)
  BY <1>10 DEF VerdictTold
<1> QED BY <1>4, <1>7, <1>8, <1>9, <1>10, <1>11, PlainTell

LEMMA ContactTold ==
    ASSUME TellInv, NEW p \in Clerks, Working(p, "read"), ContactLead(p) PROVE TellInv'
<1> DEFINE made == [Seen(p) EXCEPT !.status = "contacted"]
<1>1. PICK new : new = Flushed(p, made)
  OBVIOUS
<1>2. PICK rings : rings = {Bell("seeker", "contacted")}
  OBVIOUS
<1>3. PICK post : post = {Letter("seeker", "contacted", new)}
  OBVIOUS
<1>4. Tell(p, "contact", "advisor", new, rings, post) /\ InTopic("contact")
  BY <1>1, <1>2, <1>3 DEF ContactLead, send_lead_contacted_email, InTopic
<1>5. Seen(p) \in Subject
  BY ReaderHas
<1>6. made \in Subject /\ (made.paid = Seen(p).paid \/ made.paid # "refunded") /\ made.meeting = Seen(p).meeting
  BY <1>5 DEF Subject
<1> HIDE DEF made
<1>7. new \in Subject /\ PlainChange(new, row)
  BY <1>1, <1>6, PlainFlush
<1>8. "contact" \in Word /\ "advisor" \in Word /\ "contacted" \in Word
      /\ "seeker" \in Correspondents
      /\ "seeker" # "advisor" /\ ("contact" # "register" => "seeker" = Counterparty("advisor"))
  BY DEF Word, Correspondents, Counterparty
<1>9. HeardOf("contact", "advisor", new, rings) /\ rings \in SUBSET Ring
  BY <1>2, <1>8, BellIs DEF HeardOf
<1>10. PlainPost(post, new) /\ post \in SUBSET Post /\ \A l \in post : l.kind = "contacted"
  BY <1>3, <1>7, <1>8, OneLetter
<1>11. VerdictTold("contact", clerk[p].seen, new, post)
  BY NoVerdict
<1> QED BY <1>4, <1>7, <1>8, <1>9, <1>10, <1>11, PlainTell

LEMMA MessageTold ==
    ASSUME TellInv, NEW p \in Clerks, Working(p, "read"), NEW by \in {"seeker", "advisor"}, WriteMessage(p, by) PROVE TellInv'
<1>1. PICK new : new = AddText(p)
  OBVIOUS
<1>2. PICK rings : rings = {Bell(Counterparty(by), "message")}
  OBVIOUS
<1>3. PICK post : post = {Letter(Counterparty(by), "message", new)}
  OBVIOUS
<1>4. Tell(p, "message", by, new, rings, post) /\ InTopic("message")
  BY <1>1, <1>2, <1>3 DEF WriteMessage, send_new_message_email, InTopic
<1>7. new \in Subject /\ PlainChange(new, row)
  BY <1>1, TextAdded
<1>8. "message" \in Word
      /\ Counterparty(by) \in Correspondents
      /\ by \in Word
      /\ Counterparty(by) # by /\ ("message" # "register" => Counterparty(by) = Counterparty(by))
  BY DEF Word, Correspondents, Counterparty
<1>9. HeardOf("message", by, new, rings) /\ rings \in SUBSET Ring
  BY <1>2, <1>8, BellIs DEF HeardOf
<1>10. PlainPost(post, new) /\ post \in SUBSET Post /\ \A l \in post : l.kind = "message"
  BY <1>3, <1>7, <1>8, OneLetter
<1>11. VerdictTold("message", clerk[p].seen, new, post)
  BY NoVerdict
<1> QED BY <1>4, <1>7, <1>8, <1>9, <1>10, <1>11, PlainTell

LEMMA RegisterTold ==
    ASSUME TellInv, NEW p \in Clerks, Working(p, "read"), Register(p) PROVE TellInv'
<1>1. PICK new : new = AddText(p)
  OBVIOUS
<1>2. PICK rings : rings = {Bell("admin", "registered")}
  OBVIOUS
<1>3. PICK post : post = {Letter("seeker", "verification", new)}
  OBVIOUS
<1>4. Tell(p, "register", "seeker", new, rings, post) /\ InTopic("register")
  BY <1>1, <1>2, <1>3 DEF Register, send_verification_email, InTopic
<1>7. new \in Subject /\ PlainChange(new, row)
  BY <1>1, TextAdded
<1>8. "register" \in Word /\ "seeker" \in Word /\ "registered" \in Word /\ "verification" \in Word
      /\ "admin" \in Correspondents /\ "seeker" \in Correspondents
      /\ "admin" # "seeker" /\ ("register" # "register" => "admin" = Counterparty("seeker"))
  BY DEF Word, Correspondents, Counterparty
<1>9. HeardOf("register", "seeker", new, rings) /\ rings \in SUBSET Ring
  BY <1>2, <1>8, BellIs DEF HeardOf
<1>10. PlainPost(post, new) /\ post \in SUBSET Post /\ \A l \in post : l.kind = "verification"
  BY <1>3, <1>7, <1>8, OneLetter
<1>11. VerdictTold("register", clerk[p].seen, new, post)
  BY NoVerdict
<1> QED BY <1>4, <1>7, <1>8, <1>9, <1>10, <1>11, PlainTell


LEMMA LinkTold == ASSUME TellInv, NEW p \in Clerks, Working(p, "read"), SendLink(p) PROVE TellInv'
<1>1. PICK new : new = AddText(p)
  OBVIOUS
<1>2. PICK kind \in {"verification", "reset"} : Tell(p, "link", "seeker", new, {}, {Letter("seeker", kind, new)})
  BY <1>1 DEF SendLink, send_verification_email, send_password_reset_email
<1>3. PICK none, post : none = {} /\ post = {Letter("seeker", kind, new)}
  OBVIOUS
<1>4. Tell(p, "link", "seeker", new, none, post) /\ InTopic("link")
  BY <1>2, <1>3 DEF SendLink, InTopic
<1>5. new \in Subject /\ PlainChange(new, row)
  BY <1>1, TextAdded
<1>6. "link" \in Word /\ "seeker" \in Word /\ kind \in Word /\ "seeker" \in Correspondents
  BY DEF Word, Correspondents
<1>7. HeardOf("link", "seeker", new, none) /\ none \in SUBSET Ring
  BY <1>3 DEF HeardOf
<1>8. PlainPost(post, new) /\ post \in SUBSET Post
  BY <1>3, <1>5, <1>6, OneLetter
<1>9. VerdictTold("link", clerk[p].seen, new, post)
  BY NoVerdict
<1> QED BY <1>4, <1>5, <1>6, <1>7, <1>8, <1>9, PlainTell

\* A document's verdict, and a verdict that is taken back
LEMMA JudgeDocumentTold ==
    ASSUME TellInv, NEW p \in Clerks, Working(p, "read"), NEW verdict \in {"pending", "approved", "rejected"},
           NEW otherNote \in BOOLEAN, JudgeDocument(p, verdict, otherNote)
    PROVE  TellInv'
<1>1. Seen(p) \in Subject /\ row \in Subject /\ InTopic("judge_document")
  BY ReaderHas DEF JudgeDocument, InTopic
<1>2. /\ "judge_document" \in Word /\ "advisor" \in Word /\ "seeker" \in Correspondents
      /\ verdict \in Word /\ "seeker" # "advisor"
  BY DEF Word, Correspondents
<1>3. CASE verdict = "pending"
  <2>1. PICK new : new = [row EXCEPT !.status = "pending"]
    OBVIOUS
  <2>2. PICK none : none = {}
    OBVIOUS
  <2>3. Tell(p, "judge_document", "advisor", new, none, none)
    BY <1>3, <2>1, <2>2 DEF JudgeDocument
  <2>4. new \in Subject /\ new.status = "pending" /\ new.paid = row.paid /\ new.meeting = row.meeting
    BY <1>1, <2>1 DEF Subject
  <2>5. /\ HeardOf("judge_document", "advisor", new, none) /\ none \in SUBSET Ring
        /\ PlainChange(new, row)
    BY <2>2, <2>4 DEF HeardOf, PlainChange
  <2>6. /\ PlainPost(none, new) /\ none \in SUBSET Post
        /\ VerdictTold("judge_document", clerk[p].seen, new, none)
    BY <2>2, NoPost
  <2> QED BY <1>1, <1>2, <2>3, <2>4, <2>5, <2>6, PlainTell
<1>4. CASE verdict # "pending"
  <2> DEFINE made == [Seen(p) EXCEPT !.status = verdict, !.told = IF otherNote THEN @ + 1 ELSE @]
  <2>1. PICK new : new = Flushed(p, made)
    OBVIOUS
  <2>2. PICK rings, post : rings = {Bell("seeker", verdict)} /\ post = {Letter("seeker", verdict, new)}
    OBVIOUS
  <2>3. Tell(p, "judge_document", "advisor", new, rings, post)
    BY <1>4, <2>1, <2>2 DEF JudgeDocument, StatusUpdate, send_document_status_email
  <2>4. /\ made \in Subject /\ made.paid = Seen(p).paid /\ made.meeting = Seen(p).meeting
        /\ made.status = verdict /\ made.told = IF otherNote THEN Seen(p).told + 1 ELSE Seen(p).told
        /\ Seen(p).told \in Nat
    <3>1. PICK told \in Nat : told = (IF otherNote THEN Seen(p).told + 1 ELSE Seen(p).told) /\ Seen(p).told \in Nat
      BY <1>1 DEF Subject
    <3>2. made = [Seen(p) EXCEPT !.status = verdict, !.told = told]
      BY <3>1
    <3> HIDE DEF made
    <3>3. made \in Subject /\ made.paid = Seen(p).paid /\ made.meeting = Seen(p).meeting
      BY <1>1, <3>1, <3>2 DEF Subject
    <3>4. made.status = verdict /\ made.told = told
      BY <1>1, <3>2 DEF Subject
    <3> QED BY <3>1, <3>3, <3>4
  <2> HIDE DEF made
  <2>5. new \in Subject /\ PlainChange(new, row)
    BY <2>1, <2>4, PlainFlush
  <2>6. HeardOf("judge_document", "advisor", new, rings) /\ rings \in SUBSET Ring
    BY <1>2, <2>2, BellIs DEF HeardOf
  <2>7. PlainPost(post, new) /\ post \in SUBSET Post /\ \A l \in post : l.kind = verdict
    BY <1>2, <1>4, <2>2, <2>5, OneLetter
  <2>8. /\ Seen(p).status # verdict => new.status = verdict
        /\ Seen(p).status = verdict => new.told # Seen(p).told
    <3>1. Seen(p).status = verdict => otherNote
      BY DEF JudgeDocument
    <3>2. /\ new.status = IF made.status = Seen(p).status THEN row.status ELSE made.status
          /\ new.told = IF made.told = Seen(p).told THEN row.told ELSE made.told
      BY <2>1, <2>4, FlushedIs
    <3> QED BY <2>4, <3>1, <3>2
  <2>9. VerdictTold("judge_document", clerk[p].seen, new, post)
    BY <1>4, <2>7, <2>8 DEF VerdictTold, Seen
  <2> QED BY <1>1, <1>2, <2>3, <2>5, <2>6, <2>7, <2>9, PlainTell
<1> QED BY <1>3, <1>4

\* A verdict on an account: its letters go out when it changes what was read.
LEMMA JudgeAccountTold ==
    ASSUME TellInv, NEW p \in Clerks, Working(p, "read"),
           NEW verdict \in {"pending", "under_review", "approved", "rejected"}, JudgeAccount(p, verdict)
    PROVE  TellInv'
<1> DEFINE made == [Seen(p) EXCEPT !.status = verdict]
           turns == Seen(p).status # verdict
           welcome == turns /\ verdict = "approved"
<1>1. PICK new : new = Flushed(p, made)
  OBVIOUS
<1>2. PICK rings, post :
         /\ rings = IF welcome THEN Suggested(new).rings ELSE {}
         /\ post = (IF turns THEN VerdictLetter(verdict, new) ELSE {})
                   \cup (IF welcome THEN Suggested(new).post ELSE {})
  OBVIOUS
<1>3. Tell(p, "judge_account", "admin", new, rings, post) /\ InTopic("judge_account")
  BY <1>1, <1>2 DEF JudgeAccount, InTopic
<1>4. Seen(p) \in Subject
  BY ReaderHas
<1>5. made \in Subject /\ made.paid = Seen(p).paid /\ made.meeting = Seen(p).meeting /\ made.status = verdict
  BY <1>4 DEF Subject
<1> HIDE DEF made
<1>6. new \in Subject /\ PlainChange(new, row)
  BY <1>1, <1>5, PlainFlush
<1>7. turns => new.status = verdict
  BY <1>1, <1>5, FlushedIs
<1>8. /\ "judge_account" \in Word /\ "admin" \in Word /\ "advisor" \in Correspondents
      /\ "watcher" \in Correspondents /\ "new_advisor" \in Word /\ verdict \in Word \cup {"under_review"}
      /\ "approved" \in Word /\ "rejected" \in Word /\ "pending" \in Word
  BY DEF Word, Correspondents
<1>9. rings \subseteq {Bell("watcher", "new_advisor")}
  BY <1>2 DEF Suggested
<1>10. HeardOf("judge_account", "admin", new, rings) /\ rings \in SUBSET Ring
  BY <1>8, <1>9, BellIs DEF HeardOf
<1>11. \A l \in post : /\ turns
                       /\ \/ l = Letter("advisor", verdict, new) /\ verdict \in {"approved", "rejected", "pending"}
                          \/ l = Letter("watcher", "new_advisor", new) /\ verdict = "approved"
  BY <1>2 DEF VerdictLetter, Suggested, send_advisor_welcome_email, send_advisor_rejected_email,
              send_advisor_pending_email, send_new_relevant_advisor_email
<1>12. ASSUME NEW l \in post
       PROVE  /\ l \in Post /\ l.refund = 0 /\ l.start = new.start
              /\ l.kind = verdict \/ (l.kind = "new_advisor" /\ verdict = "approved")
              /\ turns /\ l.kind \notin {"join_link", "host_link"}
  BY <1>6, <1>8, <1>11, LetterIs
<1> HIDE DEF turns, welcome
<1>13. PlainPost(post, new) /\ post \in SUBSET Post
  BY <1>12 DEF PlainPost
<1>14. VerdictTold("judge_account", clerk[p].seen, new, post)
  <2>1. \A l \in post : /\ clerk[p].seen.status # new.status
                        /\ l.kind = new.status \/ (l.kind = "new_advisor" /\ new.status = "approved")
    BY <1>7, <1>12 DEF turns, Seen
  <2> QED BY <2>1 DEF VerdictTold
<1> QED BY <1>3, <1>6, <1>8, <1>10, <1>13, <1>14, PlainTell

-----------------------------------------------------------------------------
\* Money that goes back

\* A booking that is called off has no meeting, and its money is back if it was paid.
LEMMA CalledOffIs ==
    ASSUME TellInv, NEW p \in Clerks, Working(p, "read"), NEW status \in {"rejected", "cancelled"}
    PROVE  \E new \in Subject :
              /\ new = CalledOff(p, status) /\ ~new.meeting
              /\ new.paid # row.paid => row.paid = "paid" /\ new.paid = "refunded" /\ new.price = 1
<1> DEFINE made == [Seen(p) EXCEPT !.status = status, !.meeting = FALSE]
<1>1. Seen(p) \in Subject
  BY ReaderHas
<1>2. made \in Subject /\ made.paid = Seen(p).paid
  BY <1>1 DEF Subject
<1>3. PICK mid : mid = Flushed(p, made)
  OBVIOUS
<1>4. CalledOff(p, status) = [mid EXCEPT !.meeting = FALSE,
                                        !.paid = IF mid.price > 0 /\ @ = "paid" THEN "refunded" ELSE @]
  BY <1>3 DEF CalledOff
<1> HIDE DEF made
<1>5. mid \in Subject /\ mid.paid = row.paid
  BY <1>2, <1>3, FlushedIs
<1>6. PICK paid : paid = IF mid.price > 0 /\ mid.paid = "paid" THEN "refunded" ELSE mid.paid
  OBVIOUS
<1>7. /\ paid \in {"unpaid", "paid", "refunded"}
      /\ paid # row.paid => row.paid = "paid" /\ paid = "refunded" /\ mid.price = 1
  BY <1>5, <1>6 DEF Subject
<1>8. CalledOff(p, status) = [mid EXCEPT !.meeting = FALSE, !.paid = paid]
  BY <1>4, <1>6
<1>9. PICK new : new = CalledOff(p, status)
  OBVIOUS
<1>10. new \in Subject /\ ~new.meeting /\ new.paid = paid /\ new.price = mid.price
  BY <1>5, <1>7, <1>8, <1>9 DEF Subject
<1> QED BY <1>7, <1>9, <1>10

LEMMA RefundBellIs ==
    ASSUME NEW new
    PROVE  /\ \A b \in RefundBells(new) : /\ b \in Ring /\ b.to = "seeker" /\ b.kind = "refund"
                                          /\ b.kind \in MoneyAndMeetings
           /\ new.paid # row.paid => \E b \in RefundBells(new) : b.to = "seeker" /\ b.kind = "refund"
<1>1. "seeker" \in Correspondents /\ "refund" \in Word /\ "refund" \in MoneyAndMeetings
  BY DEF Correspondents, Word, MoneyAndMeetings
<1>2. /\ Bell("seeker", "refund") \in Ring /\ Bell("seeker", "refund").to = "seeker"
      /\ Bell("seeker", "refund").kind = "refund"
  BY <1>1, BellIs
<1> QED BY <1>1, <1>2 DEF RefundBells

\* Who calls off has the refund told, and no link is sent.
LEMMA OffTold ==
    ASSUME NEW op, NEW new, ~new.meeting,
           new.paid # row.paid => row.paid = "paid" /\ new.paid = "refunded",
           NEW rings, RefundBells(new) \subseteq rings,
           NEW post, \A l \in post : l.kind \notin {"join_link", "host_link"} /\ l.start = new.start,
           \A l \in post : l.refund > 0 => l.to = "seeker" /\ new.paid # row.paid,
           op = "cancel" /\ new.paid # row.paid => \E l \in post : l.refund > 0
    PROVE  MoneyTold(op, new, row, rings, post) /\ LinksSent(new, row, post)
<1>1. MoneyTold(op, new, row, rings, post)
  BY RefundBellIs DEF MoneyTold
<1>2. LinksSent(new, row, post)
  BY DEF LinksSent
<1> QED BY <1>1, <1>2

LEMMA RejectTold == ASSUME TellInv, NEW p \in Clerks, Working(p, "read"), RejectBooking(p) PROVE TellInv'
<1>1. PICK new \in Subject :
         /\ new = CalledOff(p, "rejected") /\ ~new.meeting
         /\ new.paid # row.paid => row.paid = "paid" /\ new.paid = "refunded" /\ new.price = 1
  BY CalledOffIs
<1>2. PICK rings, post : /\ rings = RefundBells(new) \cup {Bell("seeker", "rejected")}
                         /\ post = {Letter("seeker", "rejection", new)}
  OBVIOUS
<1>3. Tell(p, "reject", "advisor", new, rings, post) /\ InTopic("reject")
  BY <1>1, <1>2 DEF RejectBooking, InTopic, send_rejection_notification, send_booking_rejected_email
<1>4. /\ "reject" \in Word /\ "advisor" \in Word /\ "rejected" \in Word /\ "rejection" \in Word
      /\ "seeker" \in Correspondents /\ "seeker" # "advisor" /\ Counterparty("advisor") = "seeker"
  BY DEF Word, Correspondents, Counterparty
<1>5. /\ Bell("seeker", "rejected") \in Ring /\ Bell("seeker", "rejected").to = "seeker"
      /\ PlainPost(post, new) /\ post \in SUBSET Post
  BY <1>2, <1>4, BellIs, OneLetter
<1>6. RefundBells(new) \subseteq rings /\ rings \in SUBSET Ring /\ \A b \in rings : b.to = "seeker"
  BY <1>2, <1>5, RefundBellIs
<1>7. HeardOf("reject", "advisor", new, rings)
  BY <1>2, <1>4, <1>5, <1>6 DEF HeardOf
<1>8. MoneyTold("reject", new, row, rings, post) /\ LinksSent(new, row, post)
  BY <1>1, <1>5, <1>6, OffTold DEF PlainPost
<1>9. Told("reject", "advisor", new, row, rings, post) /\ VerdictTold("reject", clerk[p].seen, new, post)
  BY <1>3, <1>7, <1>8, NoVerdict DEF Told
<1> QED BY <1>3, <1>4, <1>5, <1>6, <1>9, TellStep

LEMMA ExpireTold == ASSUME TellInv, NEW p \in Clerks, Working(p, "read"), ExpireBooking(p) PROVE TellInv'
<1>1. PICK new \in Subject :
         /\ new = CalledOff(p, "cancelled") /\ ~new.meeting
         /\ new.paid # row.paid => row.paid = "paid" /\ new.paid = "refunded" /\ new.price = 1
  BY CalledOffIs
<1>2. PICK rings, post : /\ rings = RefundBells(new) \cup {Bell("seeker", "expired"), Bell("advisor", "expired")}
                         /\ post = {}
  OBVIOUS
<1>3. Tell(p, "expire", "sweep", new, rings, post) /\ InTopic("expire")
  BY <1>1, <1>2 DEF ExpireBooking, InTopic
<1>4. /\ "expire" \in Word /\ "sweep" \in Word /\ "expired" \in Word
      /\ "seeker" \in Correspondents /\ "advisor" \in Correspondents
  BY DEF Word, Correspondents
<1>5. /\ Bell("seeker", "expired") \in Ring /\ Bell("seeker", "expired").to = "seeker"
      /\ Bell("advisor", "expired") \in Ring /\ Bell("advisor", "expired").to = "advisor"
      /\ PlainPost(post, new) /\ post \in SUBSET Post
  BY <1>2, <1>4, BellIs, NoPost
<1>6. RefundBells(new) \subseteq rings /\ rings \in SUBSET Ring /\ \A b \in rings : b.to \in {"seeker", "advisor"}
  BY <1>2, <1>5, RefundBellIs
<1>7. HeardOf("expire", "sweep", new, rings)
  BY <1>2, <1>5, <1>6 DEF HeardOf
<1>8. MoneyTold("expire", new, row, rings, post) /\ LinksSent(new, row, post)
  BY <1>1, <1>5, <1>6, OffTold DEF PlainPost
<1>9. Told("expire", "sweep", new, row, rings, post) /\ VerdictTold("expire", clerk[p].seen, new, post)
  BY <1>3, <1>7, <1>8, NoVerdict DEF Told
<1> QED BY <1>3, <1>4, <1>5, <1>6, <1>9, TellStep

\* The seeker's letter names what was given back, the advisor's does not.
LEMMA CancelTold ==
    ASSUME TellInv, NEW p \in Clerks, Working(p, "read"), NEW by \in {"seeker", "advisor"}, CancelBooking(p, by)
    PROVE  TellInv'
<1>1. PICK new \in Subject :
         /\ new = CalledOff(p, "cancelled") /\ ~new.meeting
         /\ new.paid # row.paid => row.paid = "paid" /\ new.paid = "refunded" /\ new.price = 1
  BY CalledOffIs
<1>2. PICK refund : refund = IF new.paid # row.paid THEN new.price ELSE 0
  OBVIOUS
<1>3. PICK rings, post : /\ rings = RefundBells(new) \cup {Bell(Counterparty(by), "cancelled")}
                         /\ post = {send_booking_cancelled_email(to, refund, new) : to \in {"seeker", "advisor"}}
  OBVIOUS
<1>4. Tell(p, "cancel", by, new, rings, post) /\ InTopic("cancel")
  BY <1>1, <1>2, <1>3 DEF CancelBooking, InTopic, send_cancellation_notifications, Addressees
<1>5. /\ "cancel" \in Word /\ by \in Word /\ "cancelled" \in Word /\ "cancellation" \in Word
      /\ "seeker" \in Correspondents /\ "advisor" \in Correspondents
      /\ Counterparty(by) \in Correspondents /\ Counterparty(by) # by
  BY DEF Word, Correspondents, Counterparty
<1>6. refund \in {0, 1} /\ (refund > 0 <=> new.paid # row.paid)
  BY <1>1, <1>2 DEF Subject
<1>7. ASSUME NEW to \in {"seeker", "advisor"}
      PROVE  \E l \in Post : /\ l = send_booking_cancelled_email(to, refund, new)
                             /\ l.to = to /\ l.kind = "cancellation" /\ l.start = new.start
                             /\ l.refund = IF to = "seeker" THEN refund ELSE 0
  <2>1. send_booking_cancelled_email(to, refund, new) =
           [to |-> to, kind |-> "cancellation", start |-> new.start,
            refund |-> IF to = "seeker" THEN refund ELSE 0]
    BY DEF send_booking_cancelled_email, Letter
  <2>2. new.start \in {0, 1}
    BY <1>1 DEF Subject
  <2> QED BY <1>5, <1>6, <2>1, <2>2 DEF Post
<1>8. /\ Bell(Counterparty(by), "cancelled") \in Ring
      /\ Bell(Counterparty(by), "cancelled").to = Counterparty(by)
  BY <1>5, BellIs
<1>9. ASSUME NEW l \in post
      PROVE  /\ l \in Post /\ l.kind \notin {"join_link", "host_link"} /\ l.start = new.start
             /\ l.refund > 0 => l.to = "seeker" /\ new.paid # row.paid
  BY <1>3, <1>6, <1>7
<1>10. new.paid # row.paid => \E l \in post : l.refund > 0
  BY <1>3, <1>6, <1>7
<1>11. RefundBells(new) \subseteq rings /\ rings \in SUBSET Ring /\ post \in SUBSET Post
  BY <1>3, <1>8, <1>9, RefundBellIs
<1>12. HeardOf("cancel", by, new, rings)
  <2>1. \A b \in rings : b.to = by => b.kind \in MoneyAndMeetings
    BY <1>3, <1>5, <1>8, RefundBellIs
  <2>2. \E b \in rings : b.to = Counterparty(by)
    BY <1>3, <1>8
  <2> QED BY <2>1, <2>2 DEF HeardOf
<1>13. MoneyTold("cancel", new, row, rings, post) /\ LinksSent(new, row, post)
  BY <1>1, <1>9, <1>10, <1>11, OffTold
<1>14. Told("cancel", by, new, row, rings, post) /\ VerdictTold("cancel", clerk[p].seen, new, post)
  BY <1>4, <1>12, <1>13, NoVerdict DEF Told
<1> QED BY <1>4, <1>5, <1>11, <1>14, TellStep

-----------------------------------------------------------------------------
\* Meetings

\* A booking gets its meeting with a link for each party, or neither.
LEMMA ProvisionedIs ==
    ASSUME NEW new \in Subject, NEW then \in Provisioned(new)
    PROVE  /\ then.row \in Subject /\ then.row.paid = new.paid /\ then.row.start = new.start
           /\ \A b \in then.rings : b \in Ring /\ b.kind \in MoneyAndMeetings
           /\ \A l \in then.post : l \in Post /\ l.refund = 0 /\ l.start = new.start
           /\ \/ then.row.meeting = new.meeting /\ then.post = {}
              \/ /\ then.row.meeting /\ ~new.meeting
                 /\ {l.kind : l \in then.post} = {"join_link", "host_link"}
<1> DEFINE met == [new EXCEPT !.meeting = TRUE]
<1>1. met \in Subject /\ met.paid = new.paid /\ met.start = new.start /\ met.meeting
  BY DEF Subject
<1>2. /\ "seeker" \in Correspondents /\ "advisor" \in Correspondents /\ "meeting" \in Word /\ "no_meeting" \in Word
      /\ "join_link" \in Word /\ "host_link" \in Word
      /\ "meeting" \in MoneyAndMeetings /\ "no_meeting" \in MoneyAndMeetings
  BY DEF Correspondents, Word, MoneyAndMeetings
<1> HIDE DEF met
<1>3. CASE then = [row |-> new, rings |-> {}, post |-> {}]
  BY <1>3
<1>4. CASE then = [row |-> new, rings |-> notify_provision_failed, post |-> {}]
  <2>1. then.row = new /\ then.rings = {Bell("advisor", "no_meeting")} /\ then.post = {}
    BY <1>4 DEF notify_provision_failed
  <2> QED BY <1>2, <2>1, BellIs
<1>5. CASE ~new.meeting /\ then = [row |-> met, rings |-> send_meeting_notifications(new).rings,
                                   post |-> send_meeting_notifications(new).post]
  <2>1. /\ then.row = met
        /\ then.rings = {Bell("seeker", "meeting"), Bell("advisor", "meeting")}
        /\ then.post = {Letter("seeker", "join_link", new), Letter("advisor", "host_link", new)}
    BY <1>5 DEF send_meeting_notifications, send_booking_meeting_email, Addressees
  <2>2. \A b \in then.rings : b \in Ring /\ b.kind \in MoneyAndMeetings
    BY <1>2, <2>1, BellIs
  <2>3. /\ Letter("seeker", "join_link", new) \in Post /\ Letter("seeker", "join_link", new).kind = "join_link"
        /\ Letter("seeker", "join_link", new).refund = 0 /\ Letter("seeker", "join_link", new).start = new.start
        /\ Letter("advisor", "host_link", new) \in Post /\ Letter("advisor", "host_link", new).kind = "host_link"
        /\ Letter("advisor", "host_link", new).refund = 0 /\ Letter("advisor", "host_link", new).start = new.start
    BY <1>2, LetterIs
  <2> QED BY <1>1, <1>5, <2>1, <2>2, <2>3
<1> QED BY <1>3, <1>4, <1>5 DEF Provisioned, met

\* The links that come with other letters
LEMMA LinksWith ==
    ASSUME NEW op, op # "cancel", NEW new, NEW rings, NEW links, NEW plain, PlainPost(plain, new),
           new.paid = "refunded" => row.paid = "refunded",
           \A l \in links : l.refund = 0 /\ l.start = new.start,
           \/ new.meeting = row.meeting /\ links = {}
           \/ new.meeting /\ ~row.meeting /\ {l.kind : l \in links} = {"join_link", "host_link"}
    PROVE  MoneyTold(op, new, row, rings, links \cup plain) /\ LinksSent(new, row, links \cup plain)
<1>1. MoneyTold(op, new, row, rings, links \cup plain)
  BY DEF MoneyTold, PlainPost
<1>2. \A l \in links \cup plain : l.start = new.start
  BY DEF PlainPost
<1>3. CASE new.meeting = row.meeting /\ links = {}
  <2>1. {l.kind : l \in links \cup plain} \cap {"join_link", "host_link"} = {}
    BY <1>3 DEF PlainPost
  <2> QED BY <1>1, <1>2, <1>3, <2>1 DEF LinksSent
<1>4. CASE new.meeting /\ ~row.meeting /\ {l.kind : l \in links} = {"join_link", "host_link"}
  <2>1. {l.kind : l \in links \cup plain} \cap {"join_link", "host_link"} = {"join_link", "host_link"}
    BY <1>4 DEF PlainPost
  <2> QED BY <1>1, <1>2, <1>4, <2>1 DEF LinksSent
<1> QED BY <1>3, <1>4

LEMMA PayTold == ASSUME TellInv, NEW p \in Clerks, Working(p, "read"), Pay(p) PROVE TellInv'
<1> DEFINE made == [Seen(p) EXCEPT !.paid = "paid", !.status = IF @ = "pending" THEN "confirmed" ELSE @]
<1>1. PICK mid : mid = Flushed(p, made)
  OBVIOUS
<1>2. PICK others : others = {Bell("seeker", "confirmed") : x \in {y \in {1} : mid.status = "confirmed"}}
  OBVIOUS
<1>3. PICK then \in Provisioned(mid) :
         Tell(p, "pay", "seeker", then.row,
              then.rings \cup {Bell("seeker", "payment"), Bell("advisor", "payment"),
                               Bell("advisor", "requested")} \cup others,
              then.post \cup {Letter("seeker", "receipt", mid), Letter("advisor", "sale", mid)})
  BY <1>1, <1>2 DEF Pay, send_payment_receipt_email, send_advisor_payment_notification_email
<1>4. InTopic("pay") /\ Seen(p).paid = "unpaid" /\ Seen(p) \in Subject
  BY ReaderHas DEF Pay, InTopic
<1>5. PICK status : status = IF Seen(p).status = "pending" THEN "confirmed" ELSE Seen(p).status
  OBVIOUS
<1>6. made = [Seen(p) EXCEPT !.paid = "paid", !.status = status]
  BY <1>5
<1> HIDE DEF made
<1>7. status \in {"none", "pending", "under_review", "approved", "rejected", "confirmed",
                  "cancelled", "completed", "no_show", "new", "contacted"}
  BY <1>4, <1>5 DEF Subject
<1>8. made \in Subject /\ made.paid = "paid" /\ made.meeting = Seen(p).meeting
  BY <1>4, <1>6, <1>7 DEF Subject
<1>9. mid \in Subject /\ mid.paid = "paid" /\ mid.meeting = row.meeting
  BY <1>1, <1>4, <1>8, FlushedIs
<1>10. PICK new, rings, plain :
          /\ new = then.row
          /\ rings = then.rings \cup {Bell("seeker", "payment"), Bell("advisor", "payment"),
                                      Bell("advisor", "requested")} \cup others
          /\ plain = {Letter("seeker", "receipt", mid), Letter("advisor", "sale", mid)}
  OBVIOUS
<1>11. PICK post : post = then.post \cup plain
  OBVIOUS
<1>12. Tell(p, "pay", "seeker", new, rings, post)
  BY <1>3, <1>10, <1>11
<1>13. /\ new \in Subject /\ new.paid = "paid" /\ new.start = mid.start
       /\ \A b \in then.rings : b \in Ring /\ b.kind \in MoneyAndMeetings
       /\ \A l \in then.post : l \in Post /\ l.refund = 0 /\ l.start = new.start
       /\ \/ new.meeting = row.meeting /\ then.post = {}
          \/ new.meeting /\ ~row.meeting /\ {l.kind : l \in then.post} = {"join_link", "host_link"}
  BY <1>9, <1>10, ProvisionedIs
<1>14. /\ "pay" \in Word /\ "seeker" \in Word /\ "seeker" \in Correspondents /\ "advisor" \in Correspondents
       /\ "payment" \in Word /\ "requested" \in Word /\ "confirmed" \in Word /\ "receipt" \in Word /\ "sale" \in Word
       /\ "payment" \in MoneyAndMeetings /\ "confirmed" \in MoneyAndMeetings
       /\ Counterparty("seeker") = "advisor" /\ "seeker" # "advisor"
  BY DEF Word, Correspondents, MoneyAndMeetings, Counterparty
<1>15. /\ \A b \in {Bell("seeker", "payment"), Bell("advisor", "payment"), Bell("advisor", "requested")} :
             b \in Ring /\ (b.to = "seeker" => b.kind \in MoneyAndMeetings)
       /\ Bell("advisor", "payment").to = "advisor"
  BY <1>14, BellIs
<1>16. \A b \in others : b \in Ring /\ b.kind \in MoneyAndMeetings
  BY <1>2, <1>14, BellIs
<1>17. rings \in SUBSET Ring /\ HeardOf("pay", "seeker", new, rings)
  <2>1. \A b \in rings : b \in Ring /\ (b.to = "seeker" => b.kind \in MoneyAndMeetings)
    BY <1>10, <1>13, <1>15, <1>16
  <2>2. \E b \in rings : b.to = "advisor"
    BY <1>10, <1>15
  <2> QED BY <1>14, <2>1, <2>2 DEF HeardOf
<1>18. PlainPost(plain, new) /\ plain \in SUBSET Post
  <2>1. \A l \in plain : l \in Post /\ l.refund = 0 /\ l.start = mid.start /\ l.kind \in {"receipt", "sale"}
    BY <1>9, <1>10, <1>14, LetterIs
  <2> QED BY <1>13, <2>1 DEF PlainPost
<1>19. MoneyTold("pay", new, row, rings, post) /\ LinksSent(new, row, post)
  BY <1>11, <1>13, <1>18, LinksWith
<1>20. /\ Told("pay", "seeker", new, row, rings, post) /\ VerdictTold("pay", clerk[p].seen, new, post)
       /\ post \in SUBSET Post
  BY <1>4, <1>11, <1>13, <1>17, <1>18, <1>19, NoVerdict DEF Told
<1> QED BY <1>12, <1>13, <1>14, <1>17, <1>20, TellStep

LEMMA AcceptTold == ASSUME TellInv, NEW p \in Clerks, Working(p, "read"), AcceptBooking(p) PROVE TellInv'
<1> DEFINE made == [Seen(p) EXCEPT !.status = "confirmed"]
<1>1. PICK mid : mid = Flushed(p, made)
  OBVIOUS
<1>2. PICK then \in Provisioned(mid) :
         Tell(p, "accept", "advisor", then.row, then.rings \cup {Bell("seeker", "confirmed")},
              then.post \cup send_confirmations(then.row))
  BY <1>1 DEF AcceptBooking
<1>3. InTopic("accept") /\ Seen(p) \in Subject
  BY ReaderHas DEF AcceptBooking, InTopic
<1>4. made \in Subject /\ made.paid = Seen(p).paid /\ made.meeting = Seen(p).meeting
  BY <1>3 DEF Subject
<1> HIDE DEF made
<1>5. mid \in Subject /\ mid.paid = row.paid /\ mid.meeting = row.meeting
  BY <1>1, <1>4, FlushedIs
<1>6. PICK new, rings : new = then.row /\ rings = then.rings \cup {Bell("seeker", "confirmed")}
  OBVIOUS
<1>7. PICK plain : plain = {Letter("seeker", "confirmation", new), Letter("advisor", "confirmation", new)}
  OBVIOUS
<1>8. PICK post : post = then.post \cup plain
  OBVIOUS
<1>9. send_confirmations(new) = plain
  BY <1>7 DEF send_confirmations, send_booking_confirmation_email, Addressees
<1>10. Tell(p, "accept", "advisor", new, rings, post)
  BY <1>2, <1>6, <1>8, <1>9
<1>11. /\ new \in Subject /\ new.paid = row.paid
       /\ \A b \in then.rings : b \in Ring /\ b.kind \in MoneyAndMeetings
       /\ \A l \in then.post : l \in Post /\ l.refund = 0 /\ l.start = new.start
       /\ \/ new.meeting = row.meeting /\ then.post = {}
          \/ new.meeting /\ ~row.meeting /\ {l.kind : l \in then.post} = {"join_link", "host_link"}
  BY <1>5, <1>6, ProvisionedIs
<1>12. /\ "accept" \in Word /\ "advisor" \in Word /\ "seeker" \in Correspondents /\ "advisor" \in Correspondents
       /\ "confirmed" \in Word /\ "confirmation" \in Word
       /\ "confirmed" \in MoneyAndMeetings /\ Counterparty("advisor") = "seeker"
  BY DEF Word, Correspondents, MoneyAndMeetings, Counterparty
<1>13. /\ Bell("seeker", "confirmed") \in Ring /\ Bell("seeker", "confirmed").to = "seeker"
       /\ Bell("seeker", "confirmed").kind = "confirmed"
  BY <1>12, BellIs
<1>14. rings \in SUBSET Ring /\ HeardOf("accept", "advisor", new, rings)
  <2>1. \A b \in rings : b \in Ring /\ b.kind \in MoneyAndMeetings
    BY <1>6, <1>11, <1>12, <1>13
  <2>2. \E b \in rings : b.to = "seeker"
    BY <1>6, <1>13
  <2> QED BY <1>12, <2>1, <2>2 DEF HeardOf
<1>15. PlainPost(plain, new) /\ plain \in SUBSET Post
  <2>1. \A l \in plain : l \in Post /\ l.refund = 0 /\ l.start = new.start /\ l.kind = "confirmation"
    BY <1>7, <1>11, <1>12, LetterIs
  <2> QED BY <2>1 DEF PlainPost
<1>16. MoneyTold("accept", new, row, rings, post) /\ LinksSent(new, row, post)
  BY <1>8, <1>11, <1>15, LinksWith
<1>17. /\ Told("accept", "advisor", new, row, rings, post) /\ VerdictTold("accept", clerk[p].seen, new, post)
       /\ post \in SUBSET Post
  BY <1>3, <1>8, <1>11, <1>14, <1>15, <1>16, NoVerdict DEF Told
<1> QED BY <1>10, <1>11, <1>12, <1>14, <1>17, TellStep

LEMMA TellNextInv == TellInv /\ [TidingsNext]_tidingVars => TellInv'
<1> SUFFICES ASSUME TellInv, [TidingsNext]_tidingVars PROVE TellInv'
  OBVIOUS
<1>1. CASE UNCHANGED tidingVars
  <2>1. UNCHANGED <<topic, row, bells, journal, serial, clerk, letters>>
    BY <1>1 DEF tidingVars
  <2>2. DOMAIN clerk' = Clerks /\ letters' \subseteq Mail /\ \A l \in letters' : l.no \in 1 .. serial
    BY <2>1 DEF TellInv, TellKinds, Numbered
  <2>3. \A no \in Nat : Said(no)' = Said(no)
    BY <2>1 DEF Said
  <2> QED BY <2>1, <2>2, <2>3, NothingWritten
<1>2. ASSUME NEW p \in Clerks, Look(p) PROVE TellInv'
  BY <1>2, LookInv
<1>3. ASSUME NEW p \in Clerks, Commit(p) PROVE TellInv'
  BY <1>3, CommitInv
<1>4. ASSUME NEW p \in Clerks, Abort(p) PROVE TellInv'
  BY <1>4, AbortInv
<1>5. ASSUME NEW p \in Clerks, Working(p, "read"),
             \/ RequestBooking(p) \/ BookForClient(p) \/ Pay(p) \/ AcceptBooking(p)
             \/ RejectBooking(p) \/ ExpireBooking(p) \/ AddNote(p) \/ AskForDocument(p)
             \/ FulfillRequest(p) \/ CommentDocument(p) \/ ContactLead(p) \/ Register(p) \/ SendLink(p)
      PROVE  TellInv'
  BY <1>5, RequestTold, BookForTold, PayTold, AcceptTold, RejectTold, ExpireTold, NoteTold, AskTold,
     FulfillTold, CommentTold, ContactTold, RegisterTold, LinkTold
<1>6. ASSUME NEW p \in Clerks, Working(p, "read"), NEW by \in {"seeker", "advisor"},
             CancelBooking(p, by) \/ RescheduleBooking(p, by) \/ WriteMessage(p, by)
      PROVE  TellInv'
  BY <1>6, CancelTold, RescheduleTold, MessageTold
<1>7. ASSUME NEW p \in Clerks, Working(p, "read"), NEW status \in {"completed", "no_show"}, EndBooking(p, status)
      PROVE  TellInv'
  BY <1>7, EndTold
<1>8. ASSUME NEW p \in Clerks, Working(p, "read"), NEW verdict \in {"pending", "approved", "rejected"},
             NEW otherNote \in BOOLEAN, JudgeDocument(p, verdict, otherNote)
      PROVE  TellInv'
  BY <1>8, JudgeDocumentTold
<1>9. ASSUME NEW p \in Clerks, Working(p, "read"),
             NEW verdict \in {"pending", "under_review", "approved", "rejected"}, JudgeAccount(p, verdict)
      PROVE  TellInv'
  BY <1>9, JudgeAccountTold
<1>10. ASSUME NEW l \in letters, NEW fate \in {"delivered", "lost"}, Fate(l, fate) PROVE TellInv'
  BY <1>10, FateInv
<1>11. CASE Halt
  BY <1>11, HaltInv
<1> QED BY <1>1, <1>2, <1>3, <1>4, <1>5, <1>6, <1>7, <1>8, <1>9, <1>10, <1>11 DEF TidingsNext

-----------------------------------------------------------------------------
\* What was told

\* The letters and notifications of a committed change, by what they say
LEMMA ByThat ==
    ASSUME NEW e
    PROVE  /\ \A l \in PostOf(e) : \E s \in Said(e.no) : /\ s.to = l.to /\ s.kind = l.kind
                                                         /\ s.start = l.start /\ s.refund = l.refund
           /\ \A s \in Said(e.no) : \E l \in PostOf(e) : /\ s.to = l.to /\ s.kind = l.kind
                                                         /\ s.start = l.start /\ s.refund = l.refund
           /\ \A b \in RungBy(e) : \E r \in RungUnder(e.no) : r.to = b.to /\ r.kind = b.kind
           /\ \A r \in RungUnder(e.no) : \E b \in RungBy(e) : r.to = b.to /\ r.kind = b.kind
           /\ {b.to : b \in RungBy(e)} = {r.to : r \in RungUnder(e.no)}
           /\ {l.kind : l \in PostOf(e)} = {s.kind : s \in Said(e.no)}
<1>1. ASSUME NEW l \in PostOf(e)
      PROVE  \E s \in Said(e.no) : s.to = l.to /\ s.kind = l.kind /\ s.start = l.start /\ s.refund = l.refund
  <2>1. PICK s : s = [to |-> l.to, kind |-> l.kind, start |-> l.start, refund |-> l.refund]
    OBVIOUS
  <2>2. s \in Said(e.no)
    BY <2>1 DEF PostOf, Said
  <2> QED BY <2>1, <2>2
<1>2. ASSUME NEW s \in Said(e.no)
      PROVE  \E l \in PostOf(e) : s.to = l.to /\ s.kind = l.kind /\ s.start = l.start /\ s.refund = l.refund
  <2>1. PICK l \in letters : l.no = e.no /\ s = [to |-> l.to, kind |-> l.kind, start |-> l.start, refund |-> l.refund]
    BY DEF Said
  <2>2. l \in PostOf(e)
    BY <2>1 DEF PostOf
  <2> QED BY <2>1, <2>2
<1>3. ASSUME NEW b \in RungBy(e) PROVE \E r \in RungUnder(e.no) : r.to = b.to /\ r.kind = b.kind
  <2>1. PICK r : r = [to |-> b.to, kind |-> b.kind]
    OBVIOUS
  <2>2. r \in RungUnder(e.no)
    BY <2>1 DEF RungBy, RungUnder
  <2> QED BY <2>1, <2>2
<1>4. ASSUME NEW r \in RungUnder(e.no) PROVE \E b \in RungBy(e) : r.to = b.to /\ r.kind = b.kind
  <2>1. PICK b \in bells : b.no = e.no /\ r = [to |-> b.to, kind |-> b.kind]
    BY DEF RungUnder
  <2>2. b \in RungBy(e)
    BY <2>1 DEF RungBy
  <2> QED BY <2>1, <2>2
<1>5. {b.to : b \in RungBy(e)} = {r.to : r \in RungUnder(e.no)}
  BY <1>3, <1>4
<1>6. {l.kind : l \in PostOf(e)} = {s.kind : s \in Said(e.no)}
  BY <1>1, <1>2
<1> QED BY <1>1, <1>2, <1>3, <1>4, <1>5, <1>6

\* A change of the journal, with what is true of it
LEMMA InJournal ==
    ASSUME TellInv, NEW e \in ToSet(journal)
    PROVE  e \in Change /\ ChangeTrue(e) /\ \E i \in DOMAIN journal : journal[i] = e
<1>1. PICK i \in DOMAIN journal : journal[i] = e
  BY DEF ToSet
<1>2. e \in Change
  BY <1>1, ChangeTyped DEF TellInv
<1> QED BY <1>1, <1>2 DEF TellInv, TellsTrue

LEMMA OthersAreTold == TellInv => OthersTold
<1> SUFFICES ASSUME TellInv PROVE OthersTold
  OBVIOUS
<1>1. ASSUME NEW b \in bells PROVE \E e \in ToSet(journal) : e.no = b.no
  BY DEF TellInv, Numbered, ToSet
<1>2. ASSUME NEW e \in ToSet(journal)
      PROVE  /\ e.by \in {"seeker", "advisor"} /\ e.op \notin {"request", "register", "link", "judge_document"}
                   => Counterparty(e.by) \in {b.to : b \in RungBy(e)}
             /\ e.op = "judge_document" /\ e.row.status # "pending" => "seeker" \in {b.to : b \in RungBy(e)}
             /\ \A b \in RungBy(e) : b.to = e.by => b.kind \in MoneyAndMeetings
             /\ e.op = "expire" => {"seeker", "advisor"} \subseteq {b.to : b \in RungBy(e)}
  <2>1. HeardOf(e.op, e.by, e.row, RungUnder(e.no))
    BY InJournal DEF ChangeTrue, Told
  <2>2. PICK heard : heard = {b.to : b \in RungBy(e)} /\ heard = {r.to : r \in RungUnder(e.no)}
    BY ByThat
  <2>3. \A b \in RungBy(e) : \E r \in RungUnder(e.no) : r.to = b.to /\ r.kind = b.kind
    BY ByThat
  <2>4. /\ e.by \in {"seeker", "advisor"} /\ e.op \notin {"request", "register", "link", "judge_document"}
             => Counterparty(e.by) \in heard
        /\ e.op = "judge_document" /\ e.row.status # "pending" => "seeker" \in heard
        /\ \A r \in RungUnder(e.no) : r.to = e.by => r.kind \in MoneyAndMeetings
        /\ e.op = "expire" => {"seeker", "advisor"} \subseteq heard
    BY <2>1, <2>2 DEF HeardOf
  <2> QED BY <2>2, <2>3, <2>4
<1> QED BY <1>1, <1>2 DEF OthersTold

LEMMA RefundIsTold == TellInv => RefundTold
<1> SUFFICES ASSUME TellInv, NEW e \in ToSet(journal)
             PROVE  /\ \A l \in PostOf(e) : l.refund > 0 =>
                          l.to = "seeker" /\ e.row.paid = "refunded" /\ e.before.paid = "paid"
                    /\ e.op = "cancel" /\ e.row.paid # e.before.paid => \E l \in PostOf(e) : l.refund > 0
                    /\ e.row.paid = "refunded" /\ e.before.paid # "refunded"
                          => \E b \in RungBy(e) : b.to = "seeker" /\ b.kind = "refund"
  BY DEF RefundTold
<1>1. MoneyTold(e.op, e.row, e.before, RungUnder(e.no), Said(e.no))
  BY InJournal DEF ChangeTrue, Told
<1>2. /\ \A l \in PostOf(e) : \E s \in Said(e.no) : s.to = l.to /\ s.refund = l.refund
      /\ \A s \in Said(e.no) : \E l \in PostOf(e) : s.refund = l.refund
      /\ \A r \in RungUnder(e.no) : \E b \in RungBy(e) : r.to = b.to /\ r.kind = b.kind
  BY ByThat
<1> QED BY <1>1, <1>2 DEF MoneyTold

LEMMA LinksAreTold == TellInv => LinksTold
<1> SUFFICES ASSUME TellInv, NEW e \in ToSet(journal)
             PROVE  LET links == {l.kind : l \in PostOf(e)} \cap {"join_link", "host_link"} IN
                    /\ links \in {{}, {"join_link", "host_link"}}
                    /\ links # {} <=> e.row.meeting /\ ~e.before.meeting
                    /\ \A l \in PostOf(e) : l.start = e.row.start
  BY DEF LinksTold
<1>1. LinksSent(e.row, e.before, Said(e.no))
  BY InJournal DEF ChangeTrue, Told
<1>2. PICK kinds : kinds = {l.kind : l \in PostOf(e)} /\ kinds = {s.kind : s \in Said(e.no)}
  BY ByThat
<1>3. \A l \in PostOf(e) : \E s \in Said(e.no) : s.start = l.start
  BY ByThat
<1>4. PICK links : links = kinds \cap {"join_link", "host_link"}
  OBVIOUS
<1>5. /\ links \in {{}, {"join_link", "host_link"}}
      /\ links # {} <=> e.row.meeting /\ ~e.before.meeting
      /\ \A s \in Said(e.no) : s.start = e.row.start
  BY <1>1, <1>2, <1>4 DEF LinksSent
<1> QED BY <1>2, <1>3, <1>4, <1>5

\* The same verdict twice: the second request had read something else, or it changed the note.
LEMMA VerdictsAreOnce == TellInv => VerdictsOnce
<1> SUFFICES ASSUME TellInv, NEW i \in DOMAIN journal, NEW j \in DOMAIN journal, i < j,
                    journal[i].op \in {"judge_document", "judge_account"},
                    NEW l \in PostOf(journal[i]), NEW m \in PostOf(journal[j]), l.to = m.to, l.kind = m.kind
             PROVE  \/ journal[j].since < i
                    \/ journal[j].row.told # journal[journal[j].since].row.told
                    \/ \E k \in i .. j : journal[k].row.status # journal[i].row.status
  BY DEF VerdictsOnce
<1>1. PICK one, two : one = journal[i] /\ two = journal[j]
  OBVIOUS
<1>2. /\ one \in Change /\ two \in Change /\ ChangeTrue(one) /\ ChangeTrue(two)
      /\ i \in Nat /\ j \in Nat /\ DOMAIN journal = 1 .. Len(journal) /\ Len(journal) \in Nat
      /\ two.since \in Nat /\ one.row \in Subject /\ two.row \in Subject /\ two.since < j
  <2>1. one \in Change /\ two \in Change /\ DOMAIN journal = 1 .. Len(journal) /\ Len(journal) \in Nat
    BY <1>1, ChangeTyped DEF TellInv
  <2>2. ChangeTrue(one) /\ ChangeTrue(two)
    BY <1>1, <2>1 DEF TellInv, TellsTrue
  <2>3. two.since < j
    BY <1>1 DEF TellInv, Numbered
  <2> QED BY <2>1, <2>2, <2>3 DEF Change
<1> SUFFICES ASSUME two.since >= i, two.row.told = journal[two.since].row.told,
                    \A k \in i .. j : journal[k].row.status = one.row.status
             PROVE  FALSE
  BY <1>1, <1>2
<1>3. PICK seen \in Subject : WasRead(seen, two.since) /\ VerdictTold(two.op, seen, two.row, Said(two.no))
  BY <1>2 DEF ChangeTrue, FromRead
<1>4. PICK before \in Subject : VerdictTold(one.op, before, one.row, Said(one.no))
  BY <1>2 DEF ChangeTrue, FromRead
<1>5. /\ seen = journal[two.since].row /\ two.since \in i .. j
      /\ seen.status = one.row.status /\ two.row.status = one.row.status /\ two.row.told = seen.told
  BY <1>1, <1>2, <1>3 DEF WasRead
<1>6. PICK s \in Said(one.no) : s.to = l.to /\ s.kind = l.kind
  BY <1>1, ByThat
<1>7. PICK t \in Said(two.no) : t.to = m.to /\ t.kind = m.kind
  BY <1>1, ByThat
<1>8. s.kind = t.kind
  BY <1>6, <1>7
<1>9. InTopic(one.op) /\ InTopic(two.op)
  BY <1>2 DEF ChangeTrue, Told
<1>10. CASE one.op = "judge_account"
  <2>1. two.op = "judge_account"
    BY <1>9, <1>10 DEF InTopic
  <2>2. seen.status # two.row.status
    BY <1>3, <1>7, <2>1 DEF VerdictTold
  <2> QED BY <1>5, <2>2
<1>11. CASE one.op = "judge_document"
  <2>1. two.op \in {"judge_document", "comment"}
    BY <1>9, <1>11 DEF InTopic
  <2>2. s.kind \in {"approved", "rejected"}
    BY <1>4, <1>6, <1>11 DEF VerdictTold
  <2>3. two.op = "judge_document"
    BY <1>3, <1>7, <1>8, <2>1, <2>2 DEF VerdictTold
  <2>4. /\ seen.status # t.kind => two.row.status = t.kind
        /\ seen.status = t.kind => two.row.told # seen.told
    BY <1>3, <1>7, <2>3 DEF VerdictTold
  <2> QED BY <1>5, <2>4
<1> QED BY <1>1, <1>10, <1>11

LEMMA TellTypes == TellInv => TidingsTypeOK
<1> SUFFICES ASSUME TellInv PROVE TidingsTypeOK
  OBVIOUS
<1>1. ASSUME NEW p \in Clerks
      PROVE  \/ clerk[p] = NotWorking
             \/ Working(p, "read") /\ clerk[p].seen \in Subject
             \/ Working(p, "written") /\ clerk[p].row \in Subject /\ clerk[p].no \in 1 .. serial
  <2>1. clerk[p] = NotWorking \/ clerk[p] \in Reader \/ clerk[p] \in Writer
    BY DEF TellInv, TellKinds
  <2>2. CASE clerk[p] \in Reader
    BY <2>2, Phases DEF Working
  <2>3. CASE clerk[p] \in Writer
    <3>1. Working(p, "written") /\ clerk[p].row \in Subject
      BY <2>3, Phases DEF Working
    <3> QED BY <3>1 DEF TellInv, Numbered
  <2> QED BY <2>1, <2>2, <2>3
<1>2. \A l \in letters : /\ l.to \in Correspondents /\ l.no \in 1 .. serial
                         /\ l.fate \in {"waiting", "delivered", "lost"}
  BY DEF TellInv, TellKinds, Numbered, Mail
<1>3. \A b \in bells : b.to \in Correspondents /\ b.no \in 1 .. serial
  <2>1. \A b \in bells : b.to \in Correspondents
    BY DEF TellInv, TellKinds, Rung
  <2>2. \A b \in bells : b.no \in 1 .. serial
    BY DEF TellInv, Numbered
  <2> QED BY <2>1, <2>2
<1>4. topic \in Topics /\ row \in Subject /\ serial \in 0 .. MaxEvents /\ Len(journal) <= serial
  BY DEF TellInv, TellKinds, Numbered
<1> QED BY <1>1, <1>2, <1>3, <1>4 DEF TidingsTypeOK

\* notification_service and email_service: whatever is interleaved, rolled back or lost, what
\* was done is told to those it concerns, in the words of what was done.
THEOREM TidingsAreTrue == TidingsSpec => [](TidingsTypeOK /\ TidingsTrue /\ ToldTrue)
<1>1. TellInv => TidingsTypeOK /\ TidingsTrue /\ ToldTrue
  BY TellTypes, OthersAreTold, VerdictsAreOnce, RefundIsTold, LinksAreTold DEF TidingsTrue, ToldTrue
<1> QED BY TellInitInv, TellNextInv, <1>1, PTL DEF TidingsSpec

-----------------------------------------------------------------------------
(* Rankings                                                                   *)

\* A ranking has every row that was ranked, and no other.
LEMMA BestFirstIs ==
    ASSUME NEW S, IsFiniteSet(S), \A x \in S : x.score \in Nat
    PROVE  /\ BestFirst(S) \in Seq(S) /\ ToSet(BestFirst(S)) = S
           /\ \A i, j \in DOMAIN BestFirst(S) : i < j => BestFirst(S)[i].score >= BestFirst(S)[j].score
<1>1. Cardinality(S) \in Nat
  BY FS_CardinalityType
<1>2. PICK n, f, v : n = Cardinality(S) /\ f = BestFirst(S) /\ v = [x \in S |-> x.score]
  OBVIOUS
<1>3. GoesDown(S, v, f)
  <2>1. \A x \in S : v[x] \in Int
    BY <1>2
  <2> QED BY <1>2, <2>1, DescendingIs DEF BestFirst
<1>4. f \in Seq(S) /\ DOMAIN f = 1 .. n
  BY <1>1, <1>2, <1>3 DEF GoesDown
<1>5. ToSet(f) = S
  BY <1>2, <1>3, <1>4 DEF GoesDown, ToSet
<1>6. \A i, j \in DOMAIN f : i < j => f[i].score >= f[j].score
  <2>1. ASSUME NEW i \in 1 .. n, NEW j \in 1 .. n, i < j PROVE f[i].score >= f[j].score
    <3>1. f[i] \in S /\ f[j] \in S
      BY <1>1, <1>2, <1>4, <2>1
    <3>2. v[f[i]] >= v[f[j]]
      BY <1>2, <1>3, <2>1 DEF GoesDown
    <3> QED BY <1>2, <3>1, <3>2
  <2> QED BY <1>4, <2>1
<1> QED BY <1>2, <1>4, <1>5, <1>6

-----------------------------------------------------------------------------
(* What advisors score                                                        *)

\* Nobody scores above a full match, and only who passes the gate scores at all.
LEMMA ScoreIs ==
    ASSUME NEW f \in Facts
    PROVE  /\ AdvisorScore(DefaultWeights, f) \in 0 .. Full
           /\ AdvisorScore(DefaultWeights, f) > 0 => Gated(f)
<1> DEFINE w == DefaultWeights
<1>1. /\ w.country = 2500 /\ w.visa = 2500 /\ w.language = 1500 /\ w.services = 1500
      /\ w.experience = 1000 /\ w.rating = 1000
  BY DEF DefaultWeights
<1> HIDE DEF w
<1>2. f.years \in Nat /\ f.rating \in 0 .. 5 /\ f.services \in {"not asked", "offered", "missing"}
  BY DEF Facts
<1>3. LanguagePoints(w, f) \in Nat
  BY <1>1 DEF LanguagePoints
<1>4. ServicesPoints(w, f) \in Nat
  <2>1. PICK half \in Nat : half = w.services \div 2
    <3>1. 1500 \div 2 = 750
      OBVIOUS
    <3> QED BY <1>1, <3>1
  <2>2. ServicesPoints(w, f) \in {w.services, half, 0}
    BY <1>2, <2>1 DEF ServicesPoints
  <2> QED BY <1>1, <2>2
<1>5. ExperiencePoints(w, f) \in Nat
  <2>1. PICK years \in Nat : years = f.years
    BY <1>2
  <2>2. PICK more \in Nat : more = (1000 * (years + 5)) \div 20
    OBVIOUS
  <2>3. PICK few \in Nat : few = (1000 * years) \div 10
    OBVIOUS
  <2>4. more = (w.experience * (f.years + 5)) \div 20 /\ few = (w.experience * f.years) \div 10
    BY <1>1, <2>1, <2>2, <2>3
  <2>5. ExperiencePoints(w, f) \in {w.experience, more, few}
    BY <2>1, <2>4 DEF ExperiencePoints
  <2> QED BY <1>1, <2>5
<1>6. RatingPoints(w, f) \in Nat
  <2>1. PICK rating \in Nat : rating = f.rating
    <3>1. \A n \in 0 .. 5 : n \in Nat
      OBVIOUS
    <3> QED BY <1>2, <3>1, Zenon
  <2>2. PICK n \in Nat : n = (1000 * rating) \div 5
    OBVIOUS
  <2>3. n = (w.rating * f.rating) \div 5
    BY <1>1, <2>1, <2>2
  <2> QED BY <2>3 DEF RatingPoints
<1>7. AdvisorScore(w, f) \in 0 .. Full /\ (AdvisorScore(w, f) > 0 => Gated(f))
  <2>1. PICK n \in Nat : n = w.country + w.visa + LanguagePoints(w, f) + ServicesPoints(w, f)
                             + ExperiencePoints(w, f) + RatingPoints(w, f)
    BY <1>1, <1>3, <1>4, <1>5, <1>6
  <2>2. AdvisorScore(w, f) = IF Gated(f) THEN AtMostFull(n) ELSE 0
    BY <2>1 DEF AdvisorScore
  <2>3. AtMostFull(n) \in 0 .. Full
    BY DEF AtMostFull, Full
  <2>4. 0 \in 0 .. Full /\ ~(0 > 0)
    BY DEF Full
  <2>5. CASE Gated(f)
    BY <2>2, <2>3, <2>5
  <2>6. CASE ~Gated(f)
    BY <2>2, <2>4, <2>6
  <2> QED BY <2>5, <2>6
<1> QED BY <1>7 DEF w

\* The more the model likes an advisor the higher the blend.
LEMMA BlendIs ==
    ASSUME NEW rule \in 0 .. Full, NEW ai \in 0 .. Full
    PROVE  Blend(rule, ai) \in 0 .. Full /\ Blend(rule, ai) >= Blend(rule, 0)
<1>1. PICK a \in Nat : a = (35 * rule + 65 * ai) \div 100
  BY DEF Full
<1>2. PICK b \in Nat : b = (35 * rule + 65 * 0) \div 100
  BY DEF Full
<1>3. b <= a
  BY <1>1, <1>2 DEF Full
<1>4. Blend(rule, ai) = AtMostFull(a) /\ Blend(rule, 0) = AtMostFull(b)
  BY <1>1, <1>2 DEF Blend
<1>5. AtMostFull(a) \in 0 .. Full /\ AtMostFull(a) >= AtMostFull(b)
  <2>1. PICK full \in Nat : full = Full
    BY DEF Full
  <2>2. AtMostFull(a) = (IF a < full THEN a ELSE full) /\ AtMostFull(b) = (IF b < full THEN b ELSE full)
    BY <2>1 DEF AtMostFull
  <2>3. AtMostFull(a) \in Nat /\ AtMostFull(a) <= full /\ AtMostFull(a) >= AtMostFull(b)
    BY <1>3, <2>1, <2>2
  <2> QED BY <2>1, <2>3
<1> QED BY <1>4, <1>5

Candidate == [id : Matched, score : 1 .. Full]

Candid(rows) == \A x \in rows : x \in Candidate /\ x.id \in Gate /\ x.score = RuleScore(x.id)

\* A score that the rules give, or one to which they give their parts
FairTo(a, score) == /\ score \in 0 .. Full
                    /\ score = RuleScore(a) \/ score >= Blend(RuleScore(a), 0)

Fair(x) == FairTo(x.id, x.score)

\* The list that is read has the advisors that pass the gate, with the scores of the rules.
LEMMA ListedIs ==
    ASSUME facts \in [Matched -> Cases], NEW S \in SUBSET Gate,
           NEW list, list = ByRule([s \in S |-> RuleScore(s)])
    PROVE  list \in Seq(Candidate) /\ Candid(ToSet(list))
<1> DEFINE scores == [s \in S |-> RuleScore(s)]
           scored == {q \in DOMAIN scores : scores[q] > 0}
           rows == {[id |-> p, score |-> scores[p]] : p \in scored}
<1>1. \A a \in Matched : facts[a] \in Facts /\ RuleScore(a) \in 0 .. Full
  BY ScoreIs, CasesAssumption DEF RuleScore
<1>2. scored \subseteq Matched /\ scored \subseteq Gate
      /\ \A p \in scored : scores[p] = RuleScore(p) /\ RuleScore(p) > 0
  BY DEF Gate
<1>3. IsFiniteSet(rows)
  <2>1. IsFiniteSet(scored)
    BY <1>2, MatchedAssumption, FS_Subset
  <2>2. \A y \in rows : \E p \in scored : y = [id |-> p, score |-> scores[p]]
    OBVIOUS
  <2>3. PICK f : f = [p \in scored |-> [id |-> p, score |-> scores[p]]]
    OBVIOUS
  <2> HIDE DEF scored, scores
  <2>4. f \in Surjection(scored, rows)
    BY <2>2, <2>3 DEF Surjection
  <2> QED BY <2>1, <2>4, FS_Surjection
<1>4. rows \subseteq Candidate /\ Candid(rows)
  <2>1. ASSUME NEW x \in rows
        PROVE  x \in Candidate /\ x.id \in Gate /\ x.score = RuleScore(x.id)
    <3>1. PICK p \in scored : x = [id |-> p, score |-> scores[p]]
      OBVIOUS
    <3>2. p \in Matched /\ p \in Gate /\ scores[p] = RuleScore(p) /\ RuleScore(p) > 0
      BY <1>2, <3>1
    <3>3. RuleScore(p) \in 1 .. Full
      <4>1. \A n \in 0 .. Full : n > 0 => n \in 1 .. Full
        BY DEF Full
      <4> QED BY <1>1, <3>2, <4>1
    <3> HIDE DEF scores, scored
    <3> QED BY <3>1, <3>2, <3>3 DEF Candidate
  <2> HIDE DEF rows
  <2> QED BY <2>1 DEF Candid
<1>5. list = BestFirst(rows)
  BY DEF ByRule
<1> HIDE DEF rows
<1>6. \A x \in rows : x.score \in Nat
  BY <1>4 DEF Candidate
<1>7. list \in Seq(rows) /\ ToSet(list) = rows
  BY <1>3, <1>5, <1>6, BestFirstIs
<1> QED BY <1>4, <1>7

\* What the model says of people is scores, a list of them at most.
LEMMA AnswersAre ==
    ASSUME NEW answer \in Answers
    PROVE  /\ IsFiniteSet(DOMAIN answer)
           /\ \A i \in DOMAIN answer : answer[i].score \in 0 .. Full
<1>1. PICK n \in 0 .. 2 : answer \in [1 .. n -> [id : Matched \cup {Stranger}, score : AiScores]]
  BY DEF Answers, BoundedSeq, SeqOf
<1>2. DOMAIN answer = 1 .. n /\ n \in Nat
  BY <1>1
<1>3. IsFiniteSet(DOMAIN answer)
  BY <1>2, FS_Interval
<1>4. \A i \in DOMAIN answer : answer[i].score \in AiScores
  BY <1>1, <1>2
<1> QED BY <1>3, <1>4, MatchedAssumption

\* The pool and what is left of the list are the list.
Parted(list, pool, rest) ==
    /\ pool = Pool(list) /\ rest = SubSeq(list, Len(pool) + 1, Len(list))
    /\ ToSet(list) = ToSet(pool) \cup ToSet(rest)

LEMMA PoolIs ==
    ASSUME NEW S, NEW list \in Seq(S)
    PROVE  \E pool, rest \in Seq(S) : Parted(list, pool, rest)
<1>0. PICK pool, rest : pool = Pool(list) /\ rest = SubSeq(list, Len(pool) + 1, Len(list))
  OBVIOUS
<1>1. PICK m \in Nat : m = (IF Len(list) < PoolSize THEN Len(list) ELSE PoolSize) /\ m <= Len(list)
  BY PoolAssumption
<1>2. pool = SubSeq(list, 1, m)
  BY <1>0, <1>1 DEF Pool
<1>3. \A i \in 1 .. m : list[i] \in S
  BY <1>1
<1>4. pool \in Seq(S) /\ Len(pool) = m /\ \A i \in 1 .. m : pool[i] = list[i]
  <2>1. 1 \in 1 .. Len(list) + 1 /\ m \in 0 .. Len(list)
    BY <1>1
  <2> QED BY <1>1, <1>2, <2>1, SubSeqProperties
<1>5. rest = SubSeq(list, m + 1, Len(list))
  BY <1>0, <1>4
<1>6. /\ rest \in Seq(S) /\ Len(rest) = Len(list) - m
      /\ \A i \in 1 .. Len(list) - m : rest[i] = list[m + i]
  <2>1. m + 1 \in Int /\ Len(list) \in Int /\ Len(list) - (m + 1) + 1 = Len(list) - m
    BY <1>1
  <2>2. \A i \in m + 1 .. Len(list) : list[i] \in S
    BY <1>1
  <2>3. PICK low, high : low = m + 1 /\ high = Len(list)
    OBVIOUS
  <2>4. /\ SubSeq(list, low, high) \in Seq(S)
        /\ Len(SubSeq(list, low, high)) = IF low <= high THEN high - low + 1 ELSE 0
        /\ \A i \in 1 .. high - low + 1 : SubSeq(list, low, high)[i] = list[low + i - 1]
    BY <2>1, <2>2, <2>3, SubSeqProperties
  <2>5. rest = SubSeq(list, low, high)
    BY <1>5, <2>3
  <2>6. ASSUME NEW i \in 1 .. Len(list) - m PROVE rest[i] = list[m + i]
    <3>1. high - low + 1 = Len(list) - m
      BY <1>1, <2>1, <2>3
    <3>2. i \in Int /\ low + i - 1 = m + i
      BY <1>1, <2>1, <2>3
    <3>3. SubSeq(list, low, high)[i] = list[low + i - 1]
      BY <2>4, <3>1
    <3> QED BY <2>5, <3>2, <3>3
  <2>7. Len(rest) = Len(list) - m
    BY <1>1, <2>3, <2>4, <2>5
  <2> QED BY <2>4, <2>5, <2>6, <2>7
<1>7. ToSet(pool) = {pool[i] : i \in 1 .. m} /\ ToSet(list) = {list[i] : i \in 1 .. Len(list)}
      /\ ToSet(rest) = {rest[i] : i \in 1 .. Len(list) - m}
  <2>1. DOMAIN pool = 1 .. m /\ DOMAIN list = 1 .. Len(list) /\ DOMAIN rest = 1 .. Len(list) - m
    BY <1>4, <1>6
  <2> QED BY <2>1 DEF ToSet
<1>8. ASSUME NEW x \in ToSet(list) PROVE x \in ToSet(pool) \cup ToSet(rest)
  <2>1. PICK i \in 1 .. Len(list) : x = list[i]
    BY <1>7
  <2>2. CASE i <= m
    BY <1>1, <1>4, <1>7, <2>1, <2>2
  <2>3. CASE i > m
    <3>1. PICK k \in 1 .. Len(list) - m : i = m + k
      <4>1. i - m \in 1 .. Len(list) - m /\ i = m + (i - m)
        BY <1>1, <2>3
      <4> QED BY <4>1
    <3>2. x = rest[k]
      BY <1>6, <2>1, <3>1
    <3> QED BY <1>7, <3>1, <3>2
  <2> QED BY <1>1, <2>2, <2>3
<1>9. ASSUME NEW x \in ToSet(pool) PROVE x \in ToSet(list)
  <2>1. PICK i \in 1 .. m : x = pool[i]
    BY <1>7
  <2>2. i \in 1 .. Len(list) /\ x = list[i]
    BY <1>1, <1>4, <2>1
  <2> QED BY <1>7, <2>2
<1>10. ASSUME NEW x \in ToSet(rest) PROVE x \in ToSet(list)
  <2>1. PICK i \in 1 .. Len(list) - m : x = rest[i]
    BY <1>7
  <2>2. m + i \in 1 .. Len(list) /\ x = list[m + i]
    BY <1>1, <1>6, <2>1
  <2> QED BY <1>7, <2>2
<1>11. ToSet(list) = ToSet(pool) \cup ToSet(rest)
  BY <1>8, <1>9, <1>10
<1>12. Parted(list, pool, rest)
  BY <1>0, <1>11 DEF Parted
<1> QED BY <1>4, <1>6, <1>12

\* What two lists have, put together
LEMMA JoinedIs ==
    ASSUME NEW S, NEW s \in Seq(S), NEW t \in Seq(S)
    PROVE  s \o t \in Seq(S) /\ ToSet(s \o t) = ToSet(s) \cup ToSet(t)
<1>1. /\ s \o t \in Seq(S) /\ Len(s \o t) = Len(s) + Len(t)
      /\ \A i \in 1 .. Len(s) : (s \o t)[i] = s[i]
      /\ \A i \in 1 .. Len(t) : (s \o t)[Len(s) + i] = t[i]
  BY ConcatProperties
<1>2. PICK u : u = s \o t
  OBVIOUS
<1>3. \A i \in 1 .. Len(u) : i \in 1 .. Len(s) \/ \E k \in 1 .. Len(t) : i = Len(s) + k
  <2>1. ASSUME NEW i \in 1 .. Len(u), i \notin 1 .. Len(s)
        PROVE  i - Len(s) \in 1 .. Len(t) /\ i = Len(s) + (i - Len(s))
    BY <1>1, <1>2, <2>1
  <2> QED BY <2>1
<1>4. \A i \in 1 .. Len(s) : i \in 1 .. Len(u)
  BY <1>1, <1>2
<1>5. \A k \in 1 .. Len(t) : Len(s) + k \in 1 .. Len(u)
  BY <1>1, <1>2
<1>6. DOMAIN u = 1 .. Len(u) /\ DOMAIN s = 1 .. Len(s) /\ DOMAIN t = 1 .. Len(t)
  BY <1>1, <1>2
<1>7. ToSet(u) = {u[i] : i \in 1 .. Len(u)} /\ ToSet(s) = {s[i] : i \in 1 .. Len(s)}
      /\ ToSet(t) = {t[i] : i \in 1 .. Len(t)}
  BY <1>6 DEF ToSet
<1>8. /\ \A i \in 1 .. Len(s) : u[i] = s[i]
      /\ \A k \in 1 .. Len(t) : u[Len(s) + k] = t[k]
  BY <1>1, <1>2
<1>9. \A x \in ToSet(u) : x \in ToSet(s) \cup ToSet(t)
  <2>1. ASSUME NEW x, NEW i \in 1 .. Len(u), x = u[i] PROVE x \in ToSet(s) \cup ToSet(t)
    <3>1. CASE i \in 1 .. Len(s)
      BY <1>7, <1>8, <2>1, <3>1
    <3>2. CASE \E k \in 1 .. Len(t) : i = Len(s) + k
      BY <1>7, <1>8, <2>1, <3>2
    <3> QED BY <1>3, <3>1, <3>2
  <2> QED BY <1>7, <2>1
<1>10. \A x \in ToSet(s) : x \in ToSet(u)
  BY <1>4, <1>7, <1>8
<1>11. \A x \in ToSet(t) : x \in ToSet(u)
  BY <1>5, <1>7, <1>8
<1> QED BY <1>1, <1>2, <1>9, <1>10, <1>11

\* Whatever the model says, the ranking has the people of the list, with fair scores.
LEMMA BlendedIs ==
    ASSUME NEW list \in Seq(Candidate), Candid(ToSet(list)), NEW answer \in Answers,
           NEW ranking, ranking = Blended(list, answer)
    PROVE  Ids(ToSet(ranking)) = Ids(ToSet(list)) /\ \A x \in ToSet(ranking) : Fair(x)
<1>1. PICK pool, rest \in Seq(Candidate) :
         /\ pool = Pool(list) /\ rest = SubSeq(list, Len(pool) + 1, Len(list))
         /\ ToSet(list) = ToSet(pool) \cup ToSet(rest)
  <2>1. \E pool, rest \in Seq(Candidate) : Parted(list, pool, rest)
    BY PoolIs
  <2> QED BY <2>1 DEF Parted
<1> DEFINE heard == Heard(pool, answer)
           after(x) == IF x.id \in Ids(heard) THEN [x EXCEPT !.score = Blend(@, ScoreIn(heard, x.id))] ELSE x
           blended == {after(x) : x \in ToSet(pool)}
<1>2. ranking = BestFirst(blended) \o rest
  BY <1>1 DEF Blended
<1>3. \A y \in heard : y.score \in 0 .. Full
  BY AnswersAre DEF Heard
<1> HIDE DEF heard
<1>4. ASSUME NEW x \in ToSet(pool)
      PROVE  /\ after(x).id = x.id /\ Fair(after(x)) /\ after(x) \in [id : Matched, score : 0 .. Full]
  <2>1. /\ x \in [id : Matched, score : 1 .. Full] /\ x.score = RuleScore(x.id) /\ x.score \in 0 .. Full
    BY <1>1 DEF Candid, Candidate
  <2>2. CASE x.id \in Ids(heard)
    <3>1. PICK y \in heard : y.id = x.id
      BY <2>2 DEF Ids
    <3>2. ScoreIn(heard, x.id) \in 0 .. Full
      BY <1>3, <3>1 DEF ScoreIn
    <3>3. PICK new : new = Blend(x.score, ScoreIn(heard, x.id))
      OBVIOUS
    <3>4. new \in 0 .. Full /\ new >= Blend(x.score, 0)
      BY <2>1, <3>2, <3>3, BlendIs
    <3>5. after(x) = [x EXCEPT !.score = new]
      BY <2>1, <2>2, <3>3
    <3>6. after(x).id = x.id /\ after(x).score = new /\ after(x) \in [id : Matched, score : 0 .. Full]
      BY <2>1, <3>4, <3>5
    <3> QED BY <2>1, <3>4, <3>6 DEF Fair, FairTo
  <2>3. CASE x.id \notin Ids(heard)
    <3>1. after(x) = x
      BY <2>3
    <3> QED BY <2>1, <3>1 DEF Fair, FairTo
  <2> QED BY <2>2, <2>3
<1>5. IsFiniteSet(blended)
  <2>1. IsFiniteSet(DOMAIN pool)
    BY <1>1, FS_Interval
  <2>2. PICK f : f = [i \in DOMAIN pool |-> after(pool[i])]
    OBVIOUS
  <2>3. f \in Surjection(DOMAIN pool, blended)
    BY <2>2 DEF Surjection, ToSet
  <2> HIDE DEF blended
  <2> QED BY <2>1, <2>3, FS_Surjection
<1>6. \A y \in blended : Fair(y) /\ y \in [id : Matched, score : 0 .. Full]
  <2> HIDE DEF after
  <2> QED BY <1>4
<1>7. Ids(blended) = Ids(ToSet(pool))
  <2> HIDE DEF after
  <2> QED BY <1>4 DEF Ids
<1>8. \A x \in ToSet(rest) : Fair(x)
  BY <1>1 DEF Candid, Candidate, Fair, FairTo
<1> HIDE DEF blended, after
<1>9. BestFirst(blended) \in Seq(blended) /\ ToSet(BestFirst(blended)) = blended
  <2>1. \A y \in blended : y.score \in Nat
    BY <1>6
  <2> QED BY <1>5, <2>1, BestFirstIs
<1>10. PICK all : all = [id : Matched, score : 0 .. Full]
  OBVIOUS
<1>11. BestFirst(blended) \in Seq(all) /\ rest \in Seq(all)
  <2>1. blended \subseteq all /\ Candidate \subseteq all
    BY <1>6, <1>10 DEF Candidate
  <2> QED BY <1>1, <1>9, <2>1
<1>12. ToSet(ranking) = blended \cup ToSet(rest)
  BY <1>2, <1>9, <1>11, JoinedIs
<1>13. Ids(ToSet(ranking)) = Ids(ToSet(list))
  <2>1. ToSet(list) = ToSet(pool) \cup ToSet(rest)
    BY <1>1
  <2>2. Ids(ToSet(list)) = Ids(ToSet(pool)) \cup Ids(ToSet(rest))
    BY <2>1 DEF Ids
  <2>3. Ids(ToSet(ranking)) = Ids(blended) \cup Ids(ToSet(rest))
    BY <1>12 DEF Ids
  <2> QED BY <1>7, <2>2, <2>3
<1> QED BY <1>6, <1>8, <1>12, <1>13

-----------------------------------------------------------------------------
(* The leads of an assessment                                                 *)

\* A lead is on file for whom the gate let through, and nobody takes it back; a copy that a
\* request holds is of a lead that is there.
LeadInv ==
    /\ LeadTypeOK
    /\ DOMAIN leading = Leaders
    /\ {a \in Matched : lead[a].status # "absent"} = gated
    /\ \A a \in gated : a \in Gate /\ FairTo(a, lead[a].score)
    /\ \A c \in Leaders : leading[c].op = "match" => Candid(ToSet(leading[c].list))
    /\ \A c \in Leaders : leading[c].op \in {"viewed", "contacted", "dismissed", "link"} =>
          leading[c].advisor \in gated /\ leading[c].copy.status # "absent"

\* The fields that a request has, by what it does
LEMMA LeadingIs ==
    ASSUME NEW l, l = NotLeading \/ l \in Leading
    PROVE  /\ l.op \in {"idle", "match", "viewed", "contacted", "dismissed", "link"}
           /\ l.op = "match" => l \in [op : {"match"}, list : Seq(Candidate)]
           /\ l.op \in {"viewed", "contacted", "dismissed"} =>
                 l \in [op : {"viewed", "contacted", "dismissed"}, advisor : Matched, copy : Lead]
           /\ l.op = "link" =>
                 l \in [op : {"link"}, advisor : Matched, copy : Lead, booking : Appointments]
<1>1. CASE l = NotLeading
  BY <1>1 DEF NotLeading
<1>2. CASE l \in [op : {"match"}, list : Seq([id : Matched, score : 1 .. Full])]
  BY <1>2 DEF Candidate
<1>3. CASE l \in [op : {"viewed", "contacted", "dismissed"}, advisor : Matched, copy : Lead]
  <2> HIDE DEF Lead
  <2> QED BY <1>3
<1>4. CASE l \in [op : {"link"}, advisor : Matched, copy : Lead, booking : Appointments]
  <2> HIDE DEF Lead
  <2> QED BY <1>4
<1> QED BY <1>1, <1>2, <1>3, <1>4 DEF Leading

LEMMA LeadInitInv == LeadInit => LeadInv
<1> SUFFICES ASSUME LeadInit PROVE LeadInv
  OBVIOUS
<1>1. NoLead \in Lead /\ NoLead.status = "absent"
  BY DEF NoLead, Lead, LeadStatus, Full
<1>2. lead \in [Matched -> Lead] /\ \A a \in Matched : lead[a].status = "absent"
  BY <1>1 DEF LeadInit
<1>3. DOMAIN leading = Leaders /\ \A c \in Leaders : leading[c] = NotLeading /\ leading[c].op = "idle"
  BY DEF LeadInit, NotLeading
<1>4. LeadTypeOK
  BY <1>2, <1>3 DEF LeadInit, LeadTypeOK
<1> QED BY <1>2, <1>3, <1>4 DEF LeadInv, LeadInit

\* What changes no lead: a request that begins, ends, or does neither
LEMMA LeadersInv ==
    ASSUME LeadInv, UNCHANGED <<facts, lead, gated>>, listed' \subseteq Matched,
           DOMAIN leading' = Leaders,
           \A c \in Leaders : \/ leading'[c] = leading[c]
                              \/ leading'[c] = NotLeading
                              \/ /\ leading'[c] \in Leading
                                 /\ leading'[c].op = "match" => Candid(ToSet(leading'[c].list))
                                 /\ leading'[c].op \in {"viewed", "contacted", "dismissed", "link"} =>
                                       leading'[c].advisor \in gated /\ leading'[c].copy.status # "absent"
    PROVE  LeadInv'
<1>1. NotLeading.op = "idle"
  BY DEF NotLeading
<1>2. Gate' = Gate /\ (\A a : RuleScore(a)' = RuleScore(a))
  BY DEF Gate, RuleScore
<1>3. (\A a, s : FairTo(a, s)' = FairTo(a, s)) /\ (\A rows : Candid(rows)' = Candid(rows))
  BY <1>2 DEF FairTo, Candid
<1>4. LeadTypeOK'
  BY DEF LeadInv, LeadTypeOK
<1>5. ASSUME NEW c \in Leaders, leading'[c].op = "match" PROVE Candid(ToSet(leading'[c].list))
  BY <1>1, <1>5 DEF LeadInv
<1>6. ASSUME NEW c \in Leaders, leading'[c].op \in {"viewed", "contacted", "dismissed", "link"}
      PROVE  leading'[c].advisor \in gated /\ leading'[c].copy.status # "absent"
  BY <1>1, <1>6 DEF LeadInv
<1>7. \A a \in gated : a \in Gate /\ FairTo(a, lead[a].score)
  BY DEF LeadInv
<1> QED BY <1>2, <1>3, <1>4, <1>5, <1>6, <1>7 DEF LeadInv

\* One request begins or ends.
LEMMA OneLeaderInv ==
    ASSUME LeadInv, UNCHANGED <<facts, listed, lead, gated>>, NEW c \in Leaders,
           NEW l, leading' = [leading EXCEPT ![c] = l],
           \/ l = NotLeading
           \/ /\ l \in Leading
              /\ l.op = "match" => Candid(ToSet(l.list))
              /\ l.op \in {"viewed", "contacted", "dismissed", "link"} =>
                    l.advisor \in gated /\ l.copy.status # "absent"
    PROVE  LeadInv'
<1>1. DOMAIN leading' = Leaders /\ \A d \in Leaders : leading'[d] = IF d = c THEN l ELSE leading[d]
  BY DEF LeadInv
<1>2. listed' \subseteq Matched
  BY DEF LeadInv, LeadTypeOK
<1> QED BY <1>1, <1>2, LeadersInv

LEMMA ReadMatchesInv == ASSUME LeadInv, NEW c \in Leaders, ReadMatches(c) PROVE LeadInv'
<1>1. PICK list : list = ByRule([s \in listed \cap Gate |-> RuleScore(s)])
  OBVIOUS
<1>2. PICK S : S = listed \cap Gate
  OBVIOUS
<1>3. list \in Seq(Candidate) /\ Candid(ToSet(list))
  <2>1. S \in SUBSET Gate /\ list = ByRule([s \in S |-> RuleScore(s)])
    BY <1>1, <1>2
  <2>2. facts \in [Matched -> Cases]
    BY DEF LeadInv, LeadTypeOK
  <2> QED BY <2>1, <2>2, ListedIs
<1>4. PICK l : l = [op |-> "match", list |-> list]
  OBVIOUS
<1>5. l \in Leading /\ l.op = "match" /\ l.list = list
  BY <1>3, <1>4 DEF Leading, Candidate
<1>6. leading' = [leading EXCEPT ![c] = l] /\ UNCHANGED <<facts, listed, lead, gated>>
  BY <1>1, <1>4 DEF ReadMatches, Begin
<1> QED BY <1>3, <1>5, <1>6, OneLeaderInv

\* The leads of a ranking with the people of the list, if nobody has been given one
LEMMA InsertInv ==
    ASSUME LeadInv, NEW c \in Leaders, leading[c].op = "match", NEW ranking,
           Ids(ToSet(ranking)) = Ids(ToSet(leading[c].list)),
           \A x \in ToSet(ranking) : Fair(x), Insert(c, ranking)
    PROVE  LeadInv'
<1> DEFINE found == Ids(ToSet(ranking))
           newLead(a) == [status |-> "new", score |-> ScoreIn(ToSet(ranking), a), booking |-> NoLink]
<1>1. Candid(ToSet(leading[c].list))
  BY DEF LeadInv
<1>2. found \subseteq Matched /\ found \subseteq Gate
  BY <1>1 DEF Ids, Candid, Gate
<1>3. /\ lead' = [a \in Matched |-> IF a \in found THEN newLead(a) ELSE lead[a]]
      /\ gated' = gated \cup found /\ leading' = [leading EXCEPT ![c] = NotLeading]
      /\ UNCHANGED <<facts, listed>>
  BY DEF Insert, Ended
<1>4. ASSUME NEW a \in found PROVE FairTo(a, ScoreIn(ToSet(ranking), a))
  <2>1. PICK y \in ToSet(ranking) : y.id = a
    BY DEF Ids
  <2>2. PICK x \in ToSet(ranking) : x.id = a /\ x = CHOOSE z \in ToSet(ranking) : z.id = a
    BY <2>1
  <2>3. ScoreIn(ToSet(ranking), a) = x.score
    BY <2>2 DEF ScoreIn
  <2> QED BY <2>2, <2>3 DEF Fair
<1>5. \A a \in found : newLead(a) \in Lead /\ newLead(a).status = "new" /\ FairTo(a, newLead(a).score)
  BY <1>4 DEF Lead, LeadStatus, FairTo
<1> HIDE DEF found, newLead
<1>6. lead \in [Matched -> Lead] /\ gated \subseteq Matched /\ facts \in [Matched -> Cases]
      /\ listed \subseteq Matched /\ DOMAIN leading = Leaders
      /\ \A d \in Leaders : leading[d] = NotLeading \/ leading[d] \in Leading
  BY DEF LeadInv, LeadTypeOK
<1>7. lead' \in [Matched -> Lead]
  BY <1>3, <1>5, <1>6
<1>8. \A a \in Matched : lead'[a] = IF a \in found THEN newLead(a) ELSE lead[a]
  BY <1>3
<1>9. {a \in Matched : lead'[a].status # "absent"} = gated'
  <2>1. {a \in Matched : lead[a].status # "absent"} = gated
    BY DEF LeadInv
  <2>2. \A a \in found : lead'[a].status # "absent" /\ a \in Matched
    BY <1>2, <1>5, <1>8
  <2> QED BY <1>3, <1>8, <2>1, <2>2
<1>10. Gate' = Gate /\ (\A a : RuleScore(a)' = RuleScore(a))
  BY <1>3 DEF Gate, RuleScore
<1>11. (\A a, s : FairTo(a, s)' = FairTo(a, s)) /\ (\A rows : Candid(rows)' = Candid(rows))
  BY <1>10 DEF FairTo, Candid
<1>12. ASSUME NEW a \in gated' PROVE a \in Gate /\ FairTo(a, lead'[a].score)
  <2>1. CASE a \in found
    BY <1>2, <1>5, <1>8, <2>1
  <2>2. CASE a \notin found
    BY <1>3, <1>6, <1>8, <2>2 DEF LeadInv
  <2> QED BY <2>1, <2>2
<1>13. DOMAIN leading' = Leaders /\ \A d \in Leaders : leading'[d] = IF d = c THEN NotLeading ELSE leading[d]
  BY <1>3, <1>6
<1>14. NotLeading.op = "idle"
  BY DEF NotLeading
<1>15. LeadTypeOK'
  BY <1>2, <1>3, <1>6, <1>7, <1>13 DEF LeadTypeOK
<1>16. ASSUME NEW d \in Leaders
       PROVE  /\ leading'[d].op = "match" => Candid(ToSet(leading'[d].list))
              /\ leading'[d].op \in {"viewed", "contacted", "dismissed", "link"} =>
                    leading'[d].advisor \in gated' /\ leading'[d].copy.status # "absent"
  <2>1. CASE d = c
    BY <1>13, <1>14, <2>1
  <2>2. CASE d # c
    BY <1>3, <1>13, <2>2 DEF LeadInv
  <2> QED BY <2>1, <2>2
<1> QED BY <1>9, <1>10, <1>11, <1>12, <1>13, <1>15, <1>16 DEF LeadInv

LEMMA ReadLeadInv ==
    ASSUME LeadInv, NEW c \in Leaders, NEW op \in {"viewed", "contacted", "dismissed"}, NEW a \in Matched,
           ReadLead(c, op, a)
    PROVE  LeadInv'
<1>1. lead[a] \in Lead /\ lead[a].status # "absent" /\ a \in gated
  BY DEF ReadLead, LeadInv, LeadTypeOK
<1>2. PICK l : l = [op |-> op, advisor |-> a, copy |-> lead[a]]
  OBVIOUS
<1>3. l \in Leading /\ l.op = op /\ l.advisor = a /\ l.copy = lead[a]
  <2> HIDE DEF Lead
  <2> QED BY <1>1, <1>2 DEF Leading
<1>4. leading' = [leading EXCEPT ![c] = l] /\ UNCHANGED <<facts, listed, lead, gated>>
  BY <1>2 DEF ReadLead, Begin
<1> QED BY <1>1, <1>3, <1>4, OneLeaderInv

LEMMA ReadUnlinkedInv ==
    ASSUME LeadInv, NEW c \in Leaders, NEW a \in Matched, NEW b \in Appointments, ReadUnlinked(c, a, b)
    PROVE  LeadInv'
<1>1. lead[a] \in Lead /\ lead[a].status # "absent" /\ a \in gated
  BY DEF ReadUnlinked, LeadInv, LeadTypeOK
<1>2. PICK l : l = [op |-> "link", advisor |-> a, copy |-> lead[a], booking |-> b]
  OBVIOUS
<1>3. l \in Leading /\ l.op = "link" /\ l.advisor = a /\ l.copy = lead[a]
  <2> HIDE DEF Lead
  <2> QED BY <1>1, <1>2 DEF Leading
<1>4. leading' = [leading EXCEPT ![c] = l] /\ UNCHANGED <<facts, listed, lead, gated>>
  BY <1>2 DEF ReadUnlinked, Begin
<1> QED BY <1>1, <1>3, <1>4, OneLeaderInv

\* A copy has the score of the row, or one that is not written.
LEMMA SaveLeadInv == ASSUME LeadInv, NEW c \in Leaders, SaveLead(c) PROVE LeadInv'
<1> DEFINE l == leading[c]
           new == IF l.op = "link" THEN [l.copy EXCEPT !.booking = l.booking]
                  ELSE [l.copy EXCEPT !.status = l.op]
           a == l.advisor
           after == Flush(lead[a], l.copy, new)
<1>1. /\ l.op \in {"viewed", "contacted", "dismissed", "link"}
      /\ lead' = [lead EXCEPT ![a] = after] /\ leading' = [leading EXCEPT ![c] = NotLeading]
      /\ UNCHANGED <<facts, listed, gated>>
  BY DEF SaveLead, Ended
<1>2. l = NotLeading \/ l \in Leading
  BY DEF LeadInv, LeadTypeOK
<1>3. l.copy \in Lead /\ a \in Matched /\ (l.op = "link" => l.booking \in Appointments)
  <2> HIDE DEF Lead, l
  <2>1. CASE l.op = "link"
    <3>1. l \in [op : {"link"}, advisor : Matched, copy : Lead, booking : Appointments]
      BY <1>2, <2>1, LeadingIs
    <3> QED BY <3>1
  <2>2. CASE l.op # "link"
    <3>1. l \in [op : {"viewed", "contacted", "dismissed"}, advisor : Matched, copy : Lead]
      BY <1>1, <1>2, <2>2, LeadingIs
    <3> QED BY <2>2, <3>1
  <2> QED BY <2>1, <2>2
<1>4. a \in gated /\ l.copy.status # "absent" /\ lead[a] \in Lead /\ lead[a].status # "absent"
  BY <1>1, <1>3 DEF LeadInv, LeadTypeOK
<1>5. new \in Lead /\ new.score = l.copy.score /\ new.status # "absent"
  <2>1. l.op # "link" => l.op \in LeadStatus /\ l.op # "absent"
    BY <1>1 DEF LeadStatus
  <2> HIDE DEF l
  <2>2. CASE l.op = "link"
    BY <1>3, <1>4, <2>2 DEF Lead
  <2>3. CASE l.op # "link"
    BY <1>3, <1>4, <2>1, <2>3 DEF Lead
  <2> QED BY <2>2, <2>3
<1> HIDE DEF l, new, a
<1>6. after \in Lead /\ after.score = lead[a].score /\ after.status # "absent"
  <2>1. /\ DOMAIN lead[a] = {"status", "score", "booking"}
        /\ \A f \in {"status", "score", "booking"} : after[f] \in {lead[a][f], new[f]}
        /\ after.score = IF new.score = l.copy.score THEN lead[a].score ELSE new.score
        /\ after = [f \in {"status", "score", "booking"} |-> after[f]]
    BY <1>4 DEF Flush, Lead
  <2>2. /\ lead[a].status \in LeadStatus /\ lead[a].score \in 0 .. Full
        /\ lead[a].booking \in Appointments \cup {NoLink}
        /\ new.status \in LeadStatus /\ new.booking \in Appointments \cup {NoLink}
    BY <1>4, <1>5 DEF Lead
  <2>3. after.status \in {lead[a].status, new.status} /\ after.booking \in {lead[a].booking, new.booking}
    BY <2>1
  <2> HIDE DEF after
  <2>4. after = [status |-> after.status, score |-> after.score, booking |-> after.booking]
    BY <2>1
  <2>5. after.status \in LeadStatus /\ after.booking \in Appointments \cup {NoLink}
        /\ after.score = lead[a].score /\ after.status # "absent"
    BY <1>4, <1>5, <2>1, <2>2, <2>3
  <2> QED BY <2>2, <2>4, <2>5 DEF Lead
<1> HIDE DEF after
<1>7. lead \in [Matched -> Lead] /\ DOMAIN leading = Leaders
  BY DEF LeadInv, LeadTypeOK
<1>8. lead' \in [Matched -> Lead] /\ \A b \in Matched :
         /\ lead'[b].status # "absent" <=> lead[b].status # "absent"
         /\ lead'[b].score = lead[b].score
  BY <1>1, <1>3, <1>4, <1>6, <1>7
<1>9. DOMAIN leading' = Leaders /\ \A d \in Leaders : leading'[d] = IF d = c THEN NotLeading ELSE leading[d]
  BY <1>1, <1>7
<1>10. Gate' = Gate /\ (\A b : RuleScore(b)' = RuleScore(b))
  BY <1>1 DEF Gate, RuleScore
<1>11. (\A b, s : FairTo(b, s)' = FairTo(b, s)) /\ (\A rows : Candid(rows)' = Candid(rows))
  BY <1>10 DEF FairTo, Candid
<1>12. NotLeading.op = "idle"
  BY DEF NotLeading
<1>13. LeadTypeOK'
  BY <1>1, <1>8, <1>9 DEF LeadInv, LeadTypeOK
<1>14. {b \in Matched : lead'[b].status # "absent"} = gated'
  BY <1>1, <1>8 DEF LeadInv
<1>15. \A b \in gated' : b \in Gate /\ FairTo(b, lead'[b].score)
  BY <1>1, <1>8 DEF LeadInv, LeadTypeOK
<1>16. ASSUME NEW d \in Leaders
       PROVE  /\ leading'[d].op = "match" => Candid(ToSet(leading'[d].list))
              /\ leading'[d].op \in {"viewed", "contacted", "dismissed", "link"} =>
                    leading'[d].advisor \in gated' /\ leading'[d].copy.status # "absent"
  <2>1. CASE d = c
    BY <1>9, <1>12, <2>1
  <2>2. CASE d # c
    BY <1>1, <1>9, <2>2 DEF LeadInv
  <2> QED BY <2>1, <2>2
<1> QED BY <1>9, <1>10, <1>11, <1>13, <1>14, <1>15, <1>16 DEF LeadInv

LEMMA LeadNextInv == LeadInv /\ [LeadNext]_leadVars => LeadInv'
<1> SUFFICES ASSUME LeadInv, [LeadNext]_leadVars PROVE LeadInv'
  OBVIOUS
<1>1. ASSUME NEW c \in Leaders, ReadMatches(c) PROVE LeadInv'
  BY <1>1, ReadMatchesInv
<1>2. ASSUME NEW c \in Leaders, ModelAnswers(c) PROVE LeadInv'
  <2>1. PICK answer \in Answers : Insert(c, Blended(leading[c].list, answer))
    BY <1>2 DEF ModelAnswers
  <2>2. PICK ranking : ranking = Blended(leading[c].list, answer)
    OBVIOUS
  <2>3. leading[c].op = "match" /\ Candid(ToSet(leading[c].list))
    BY <1>2 DEF ModelAnswers, LeadInv
  <2>4. PICK list \in Seq(Candidate) : list = leading[c].list
    <3>1. leading[c] \in [op : {"match"}, list : Seq(Candidate)]
      BY <2>3, LeadingIs DEF LeadInv, LeadTypeOK
    <3> QED BY <3>1
  <2>5. Ids(ToSet(ranking)) = Ids(ToSet(list)) /\ \A x \in ToSet(ranking) : Fair(x)
    BY <2>2, <2>3, <2>4, BlendedIs
  <2> QED BY <2>1, <2>2, <2>3, <2>4, <2>5, InsertInv
<1>3. ASSUME NEW c \in Leaders, ModelFails(c) PROVE LeadInv'
  <2>1. leading[c].op = "match" /\ Candid(ToSet(leading[c].list)) /\ Insert(c, leading[c].list)
    BY <1>3 DEF ModelFails, LeadInv
  <2>2. \A x \in ToSet(leading[c].list) : Fair(x)
    BY <2>1 DEF Candid, Candidate, Fair, FairTo
  <2> QED BY <2>1, <2>2, InsertInv
<1>4. ASSUME NEW c \in Leaders, StopLeading(c) PROVE LeadInv'
  BY <1>4, OneLeaderInv DEF StopLeading, Ended
<1>5. ASSUME NEW a \in Matched, Relist(a) PROVE LeadInv'
  BY <1>5, LeadersInv DEF Relist, LeadInv, LeadTypeOK
<1>6. ASSUME UNCHANGED leadVars PROVE LeadInv'
  <2>1. UNCHANGED <<facts, listed, lead, leading, gated>>
    BY <1>6 DEF leadVars
  <2> QED BY <2>1, LeadersInv DEF LeadInv, LeadTypeOK
<1> QED BY <1>1, <1>2, <1>3, <1>4, <1>5, <1>6, ReadLeadInv, ReadUnlinkedInv, SaveLeadInv DEF LeadNext

\* Whoever the model names, whoever asks it at the same time, and whatever is written over a
\* copy: the leads are those the gate let through, each with a score the rules account for.
THEOREM LeadsAreGated == LeadSpec => [](LeadTypeOK /\ LeadsAsGated)
<1>1. LeadInv => LeadTypeOK /\ LeadsAsGated
  <2> SUFFICES ASSUME LeadInv PROVE LeadsAsGated
    BY DEF LeadInv
  <2>1. {a \in Matched : lead[a].status # "absent"} = gated
    BY DEF LeadInv
  <2>2. \A a \in gated : Gated(facts[a])
    BY DEF LeadInv, Gate
  <2>3. \A a \in gated : lead[a].score = RuleScore(a) \/ lead[a].score >= Blend(RuleScore(a), 0)
    BY DEF LeadInv, FairTo
  <2> QED BY <2>1, <2>2, <2>3 DEF LeadsAsGated
<1> QED BY <1>1, LeadInitInv, LeadNextInv, PTL DEF LeadSpec

-----------------------------------------------------------------------------
(* What answers are worth                                                     *)

\* A hundred times the sum is the sum of the hundreds.
LEMMA TotalOfHundreds ==
    ASSUME NEW S, IsFiniteSet(S), NEW w, NEW v, \A x \in S : w[x] \in Nat /\ v[x] = 100 * w[x]
    PROVE  TotalOf(v, S) = 100 * TotalOf(w, S)
<1> DEFINE good == {s \in SUBSET S : TotalOf(v, s) = 100 * TotalOf(w, s)}
<1>1. {} \in good
  BY TotalEmpty
<1>2. ASSUME NEW s \in SUBSET S, s # {}, \A x \in s : s \ {x} \in good PROVE s \in good
  <2>1. PICK x \in s : TRUE
    BY <1>2
  <2>2. IsFiniteSet(s) /\ IsFiniteSet(s \ {x})
    BY FS_Subset
  <2>3. \A y \in s : w[y] \in Int /\ v[y] \in Int
    OBVIOUS
  <2>4. TotalOf(v, s) = v[x] + TotalOf(v, s \ {x}) /\ TotalOf(w, s) = w[x] + TotalOf(w, s \ {x})
    BY <2>2, <2>3, TotalSplit
  <2>5. TotalOf(w, s \ {x}) \in Int
    BY <2>2, <2>3, TotalType
  <2>6. TotalOf(v, s \ {x}) = 100 * TotalOf(w, s \ {x})
    BY <1>2
  <2>7. v[x] = 100 * w[x] /\ w[x] \in Int
    OBVIOUS
  <2>8. TotalOf(v, s) = 100 * TotalOf(w, s)
    BY <2>4, <2>5, <2>6, <2>7
  <2> QED BY <2>8
<1>3. S \in good
  <2> HIDE DEF good
  <2> QED BY <1>1, <1>2, SubsetInduction
<1> QED BY <1>3

\* Two decimals of a share
IsShare(n, d, r) == r \in Nat /\ r <= 10000 /\ (r = 10000 => 2 * (10000 * d - n) <= d)

LEMMA RoundedIs ==
    ASSUME NEW n \in Nat, NEW d \in Nat \ {0}, n <= 10000 * d
    PROVE  IsShare(n, d, Rounded(n, d))
<1> DEFINE e == 2 * d
           m == 2 * n + d
           r == m \div e
<1>1. e \in Nat /\ e > 0 /\ m \in Nat /\ m <= 10000 * e + d /\ d < e
  OBVIOUS
<1>2. Rounded(n, d) = r
  BY DEF Rounded
<1>3. PICK k \in Nat : k = r /\ k * e <= m /\ m < (k + 1) * e
  <2> HIDE DEF e, m
  <2>1. PICK k \in Nat, rest \in 0 .. e - 1 : k = r /\ m = e * k + rest
    BY <1>1, Divides
  <2>2. k * e <= m /\ m < (k + 1) * e
    BY <1>1, <2>1
  <2> QED BY <2>1, <2>2
<1>4. k <= 10000
  <2>1. SUFFICES ASSUME k >= 10001 PROVE FALSE
    BY <1>3
  <2>2. k * e >= 10001 * e
    <3> HIDE DEF e, m, r
    <3>1. PICK i \in Nat : k = 10001 + i
      <4>1. k - 10001 \in Nat /\ k = 10001 + (k - 10001)
        BY <2>1
      <4> QED BY <4>1
    <3>2. k * e = 10001 * e + i * e /\ i * e \in Nat
      BY <1>1, <3>1
    <3> QED BY <1>1, <3>2
  <2> HIDE DEF r
  <2>3. m >= 10001 * e
    BY <1>3, <2>2
  <2> QED BY <1>1, <2>3
<1>5. ASSUME k = 10000 PROVE 2 * (10000 * d - n) <= d
  <2>1. 10000 * e <= m
    BY <1>3, <1>5
  <2> QED BY <2>1
<1> HIDE DEF e, m, r
<1>6. IsShare(n, d, k)
  BY <1>4, <1>5 DEF IsShare
<1> QED BY <1>2, <1>3, <1>6

\* A result is a share, and a full one has the best of each question but for what rounding hides.
LEMMA ScoreSays ==
    ASSUME NEW s, NEW S \in SUBSET Questions, S = s.asked, S # {},
           NEW D \in SUBSET Questions, s.given \in [D -> Options]
    PROVE  /\ Score(s) \in 0 .. FullMark
           /\ Score(s) = FullMark => \A q \in S :
                 LET lacks == IF q \in D THEN 100 - Worth[s.given[q]] ELSE 100 IN
                 200 * Weight[q] * lacks <= SumOver(Weight, S)
<1> DEFINE T == S \cap D
           w == [q \in S |-> IF q \in D THEN Worth[s.given[q]] * Weight[q] ELSE 0]
           v == [q \in S |-> 100 * Weight[q]]
           sum == TotalOf(Points(s), T)
           total == TotalOf(Weight, S)
<1>1. IsFiniteSet(S) /\ IsFiniteSet(T) /\ T \in SUBSET S
  BY QuestionAssumption, FS_Subset
<1>2. \A q \in S : Weight[q] \in Nat \ {0}
  BY QuestionAssumption
<1>3. \A q \in T : s.given[q] \in Options /\ Worth[s.given[q]] \in 0 .. 100
  BY QuestionAssumption
<1>4. DOMAIN Points(s) = T /\ \A q \in T : Points(s)[q] = w[q]
  BY DEF Points
<1>5. Score(s) = Rounded(100 * sum, total) /\ SumOver(Weight, S) = total
  BY <1>1, <1>4, SumOverIs DEF Score
<1>6. \A q \in S : w[q] \in Nat /\ v[q] \in Nat /\ v[q] = 100 * Weight[q] /\ w[q] <= v[q]
  <2>1. ASSUME NEW q \in S PROVE w[q] \in Nat /\ v[q] \in Nat /\ w[q] <= v[q]
    <3>1. CASE q \in D
      <4>1. PICK a \in 0 .. 100, b \in Nat : a = Worth[s.given[q]] /\ b = Weight[q]
        BY <1>2, <1>3, <3>1
      <4>2. a * b \in Nat /\ a * b <= 100 * b
        <5>1. PICK c \in Nat : a + c = 100
          <6>1. 100 - a \in Nat /\ a + (100 - a) = 100
            OBVIOUS
          <6> QED BY <6>1
        <5>2. a * b + c * b = 100 * b /\ a * b \in Nat /\ c * b \in Nat
          BY <5>1
        <5> QED BY <5>2
      <4> QED BY <3>1, <4>1, <4>2
    <3>2. CASE q \notin D
      BY <1>2, <3>2
    <3> QED BY <3>1, <3>2
  <2> QED BY <2>1
<1> HIDE DEF w, v, sum, total, T
<1>7. TotalOf(v, S) = 100 * total
  <2>1. \A q \in S : Weight[q] \in Nat /\ v[q] = 100 * Weight[q]
    BY <1>2, <1>6
  <2> QED BY <1>1, <2>1, TotalOfHundreds DEF total
<1>8. total \in Nat
  BY <1>1, <1>2, TotalNat DEF total
<1>9. sum \in Nat /\ sum <= TotalOf(w, S)
  <2>1. sum = TotalOf(w, T)
    BY <1>1, <1>4, TotalAlike DEF sum
  <2>2. \A q \in T : w[q] \in Nat
    BY <1>1, <1>6
  <2>3. TotalOf(w, T) \in Nat
    BY <1>1, <2>2, TotalNat
  <2> QED BY <1>1, <1>6, <2>1, <2>3, TotalPart
<1>10. ASSUME NEW q \in S PROVE sum <= 100 * total - (v[q] - w[q]) /\ Weight[q] <= total
  <2>1. \A p \in S : w[p] \in Int /\ v[p] \in Int /\ w[p] <= v[p] /\ Weight[p] \in Int
    BY <1>2, <1>6
  <2>2. IsFiniteSet(S \ {q})
    BY <1>1, FS_Subset
  <2>3. /\ TotalOf(w, S) = w[q] + TotalOf(w, S \ {q}) /\ TotalOf(v, S) = v[q] + TotalOf(v, S \ {q})
        /\ total = Weight[q] + TotalOf(Weight, S \ {q})
    BY <1>1, <2>1, TotalSplit DEF total
  <2>4. TotalOf(w, S \ {q}) <= TotalOf(v, S \ {q})
    BY <2>1, <2>2, TotalAtMost
  <2>5. TotalOf(w, S \ {q}) \in Int /\ TotalOf(v, S \ {q}) \in Int
    BY <2>1, <2>2, TotalType
  <2>6. TotalOf(Weight, S \ {q}) \in Nat
    <3>1. \A p \in S \ {q} : Weight[p] \in Nat
      BY <1>2
    <3> QED BY <2>2, <3>1, TotalNat
  <2>7. Weight[q] \in Nat /\ w[q] \in Int /\ v[q] \in Int
    BY <1>2, <2>1
  <2> QED BY <1>7, <1>8, <1>9, <2>3, <2>4, <2>5, <2>6, <2>7
<1>11. total \in Nat \ {0} /\ 100 * sum \in Nat /\ 100 * sum <= 10000 * total
  <2>1. PICK q \in S : TRUE
    OBVIOUS
  <2>2. w[q] \in Nat /\ v[q] \in Nat /\ w[q] <= v[q] /\ Weight[q] \in Nat \ {0}
    BY <1>2, <1>6
  <2>3. sum <= 100 * total - (v[q] - w[q]) /\ Weight[q] <= total
    BY <1>10
  <2> QED BY <1>8, <1>9, <2>2, <2>3
<1>12. IsShare(100 * sum, total, Rounded(100 * sum, total))
  <2>1. PICK n \in Nat, d \in Nat \ {0} : n = 100 * sum /\ d = total
    BY <1>11
  <2>2. n <= 10000 * d
    BY <1>11, <2>1
  <2>3. IsShare(n, d, Rounded(n, d))
    BY <2>2, RoundedIs
  <2> QED BY <2>1, <2>3
<1>13. ASSUME Score(s) = FullMark, NEW q \in S
       PROVE  LET lacks == IF q \in D THEN 100 - Worth[s.given[q]] ELSE 100 IN
              200 * Weight[q] * lacks <= total
  <2> DEFINE lacks == IF q \in D THEN 100 - Worth[s.given[q]] ELSE 100
  <2>1. 2 * (10000 * total - 100 * sum) <= total
    BY <1>5, <1>12, <1>13 DEF IsShare, FullMark
  <2>2. sum <= 100 * total - (v[q] - w[q])
    BY <1>10
  <2>3. 200 * (v[q] - w[q]) <= total
    BY <1>6, <1>8, <1>9, <2>1, <2>2
  <2>4. v[q] - w[q] = Weight[q] * lacks /\ lacks \in Nat /\ Weight[q] \in Nat
    <3>1. CASE q \in D
      <4>1. PICK a \in 0 .. 100, b \in Nat : a = Worth[s.given[q]] /\ b = Weight[q]
        BY <1>2, <1>3, <3>1 DEF T
      <4>2. w[q] = a * b /\ v[q] = 100 * b /\ lacks = 100 - a
        BY <3>1, <4>1 DEF w, v
      <4>3. 100 * b - a * b = b * (100 - a) /\ 100 - a \in Nat
        OBVIOUS
      <4> QED BY <4>1, <4>2, <4>3
    <3>2. CASE q \notin D
      <4>1. w[q] = 0 /\ v[q] = 100 * Weight[q] /\ lacks = 100 /\ Weight[q] \in Nat
        BY <1>2, <3>2 DEF w, v
      <4> QED BY <4>1
    <3> QED BY <3>1, <3>2
  <2> HIDE DEF lacks
  <2>5. PICK b \in Nat, l \in Nat : b = Weight[q] /\ l = lacks
    BY <2>4
  <2>6. 200 * (b * l) <= total /\ 200 * b * l = 200 * (b * l)
    BY <2>3, <2>4, <2>5
  <2>7. 200 * Weight[q] * lacks <= total
    BY <2>5, <2>6
  <2> QED BY <2>7 DEF lacks
<1>14. Score(s) \in 0 .. FullMark
  <2>1. Score(s) \in Nat /\ Score(s) <= 10000
    BY <1>5, <1>12 DEF IsShare
  <2>2. FullMark \in Nat /\ Score(s) <= FullMark
    BY <2>1 DEF FullMark
  <2> QED BY <2>1, <2>2
<1>15. SumOver(Weight, S) = total
  BY <1>5
<1> QED BY <1>13, <1>14, <1>15

\* A mark is a mean of what options are worth.
LEMMA MarksAre ==
    ASSUME NEW s, NEW S \in SUBSET Questions, S = s.asked, NEW n \in 1 .. MaxSubmits, n = s.n,
           NEW D \in SUBSET Questions, s.given \in [D -> Options], NEW m \in MarksOf(s)
    PROVE  m \in Mark /\ m.n = n
<1> DEFINE in(cat) == {q \in s.asked \cap DOMAIN s.given : Category[q] = cat}
<1>1. PICK cat \in Categories :
         /\ in(cat) # {}
         /\ m = [n |-> s.n, category |-> cat,
                 score |-> Rounded(100 * SumOver([q \in in(cat) |-> Worth[s.given[q]]], in(cat)),
                                   Cardinality(in(cat)))]
  BY DEF MarksOf
<1>2. PICK T : T = in(cat)
  OBVIOUS
<1>3. PICK w : w = [q \in T |-> Worth[s.given[q]]]
  OBVIOUS
<1>4. T \in SUBSET (S \cap D) /\ T # {} /\ IsFiniteSet(T)
  BY <1>1, <1>2, QuestionAssumption, FS_Subset
<1>5. \A q \in T : w[q] \in 0 .. 100
  BY <1>3, <1>4, QuestionAssumption
<1>6. PICK d \in Nat \ {0} : d = Cardinality(T)
  BY <1>4, FS_CardinalityType, FS_EmptySet
<1>7. PICK sum : sum = TotalOf(w, T)
  OBVIOUS
<1>8. m = [n |-> n, category |-> cat, score |-> Rounded(100 * sum, d)]
  BY <1>1, <1>2, <1>3, <1>4, <1>6, <1>7, SumOverIs
<1>9. sum \in Nat /\ sum <= 100 * d
  <2> DEFINE good == {t \in SUBSET T : TotalOf(w, t) <= 100 * Cardinality(t)}
  <2>1. {} \in good
    BY TotalEmpty, FS_EmptySet
  <2>2. ASSUME NEW t \in SUBSET T, t # {}, \A x \in t : t \ {x} \in good PROVE t \in good
    <3>1. PICK x \in t : TRUE
      BY <2>2
    <3>2. IsFiniteSet(t) /\ IsFiniteSet(t \ {x})
      BY <1>4, FS_Subset
    <3>3. \A q \in t : w[q] \in Int
      BY <1>5
    <3>4. TotalOf(w, t) = w[x] + TotalOf(w, t \ {x}) /\ TotalOf(w, t \ {x}) \in Int
      BY <3>2, <3>3, TotalSplit, TotalType
    <3>5. Cardinality(t \ {x}) = Cardinality(t) - 1 /\ Cardinality(t) \in Nat
      BY <1>4, Shrinks
    <3>6. TotalOf(w, t \ {x}) <= 100 * Cardinality(t \ {x}) /\ w[x] \in 0 .. 100
      BY <1>5, <2>2
    <3> QED BY <3>4, <3>5, <3>6
  <2>3. T \in good
    <3> HIDE DEF good
    <3> QED BY <1>4, <2>1, <2>2, SubsetInduction
  <2>4. sum \in Nat
    <3>1. \A q \in T : w[q] \in Nat
      BY <1>5
    <3> QED BY <1>4, <1>7, <3>1, TotalNat
  <2> QED BY <1>6, <1>7, <2>3, <2>4
<1>10. Rounded(100 * sum, d) \in 0 .. FullMark
  <2>1. 100 * sum \in Nat /\ 100 * sum <= 10000 * d
    BY <1>9
  <2>2. IsShare(100 * sum, d, Rounded(100 * sum, d))
    BY <2>1, RoundedIs
  <2>3. PICK r \in Nat : r = Rounded(100 * sum, d) /\ r <= 10000
    BY <2>2 DEF IsShare
  <2>4. FullMark \in Nat /\ r <= FullMark
    BY <2>3 DEF FullMark
  <2> QED BY <2>3, <2>4
<1> QED BY <1>8, <1>10 DEF Mark

-----------------------------------------------------------------------------
(* The result of an assessment                                                *)

Reading(c) == submitting[c].step = "read"

Busy(c) == submitting[c].step # "idle"

\* No row has the number n, nor has one that a submission holds.
Unused(n) ==
    /\ \A a \in answers : a.n # n
    /\ \A m \in marks : m.n # n
    /\ \A d \in Submitters : Reading(d) =>
          (\A a \in submitting[d].old : a.n # n) /\ (\A m \in submitting[d].oldMarks : m.n # n)

NumbersFit ==
    /\ \A n \in Nat : n > submits => Unused(n)
    /\ \A c \in Submitters : Busy(c) => submitting[c].n <= submits /\ Unused(submitting[c].n)
    /\ \A c, d \in Submitters : c # d /\ Busy(c) /\ Busy(d) => submitting[c].n # submitting[d].n

\* What a submission has read before there was a result is not of the result.
ReadersSound ==
    \A c \in Submitters :
        /\ submitting[c].step = "row" => submitting[c].seen = "in_progress"
        /\ Reading(c) =>
              /\ submitting[c].complete => submitting[c].asked # {}
              /\ \A q \in submitting[c].asked : asked[q] # "absent"
              /\ submitting[c].late \/ submitting[c].old \cap basis.answers = {}

Accounted ==
    /\ assessment.score = FullMark => \A q \in basis.asked :
          \/ Rounds(q, 100)
          \/ \E a \in basis.answers : a.question = q /\ Rounds(q, 100 - Worth[a.option])
    /\ \A q \in basis.asked : q \in missing \/ \E a \in basis.answers : a.question = q

BasisSound ==
    /\ assessment.status # "completed" => basis.answers = {}
    /\ \A a \in basis.answers : asked[a.question] # "absent"
    /\ torn \/ Kept(basis.answers, choices) \subseteq answers
    /\ assessment.status = "completed" => Accounted

\* Whichever of the submissions that have read the old rows delete them, a strength that
\* none of them deletes has its mark left.
Grounds ==
    \A T \in SUBSET Submitters : (\A c \in T : Reading(c)) =>
        \A cat \in strengths : (\A c \in T : cat \notin submitting[c].oldStrengths) =>
            \E m \in marks : m.category = cat /\ m.score >= 7000 /\ \A c \in T : m \notin submitting[c].oldMarks

AssessInv ==
    /\ AssessmentTypeOK /\ DOMAIN submitting = Submitters
    /\ NumbersFit /\ ReadersSound /\ BasisSound /\ Grounds

\* The fields of a submission, by how far it is
LEMMA SubmissionIs ==
    ASSUME NEW s, s = NoSubmission \/ s \in Submission
    PROVE  /\ s.step \in {"idle", "row", "read"}
           /\ s.step = "idle" <=> s = NoSubmission
           /\ s.step = "row" => s \in [step : {"row"}, n : 1 .. MaxSubmits, given : Given, complete : BOOLEAN, seen : Status]
           /\ s.step = "read" =>
                 s \in [step : {"read"}, n : 1 .. MaxSubmits, given : Given, complete : BOOLEAN,
                        old : SUBSET Answer, oldMarks : SUBSET Mark, oldStrengths : SUBSET Categories,
                        oldMissing : SUBSET Questions, asked : SUBSET Questions, late : BOOLEAN]
<1>1. CASE s = NoSubmission
  BY <1>1 DEF NoSubmission
<1>2. CASE s \in [step : {"row"}, n : 1 .. MaxSubmits, given : Given, complete : BOOLEAN, seen : Status]
  <2>1. s.step = "row"
    BY <1>2
  <2> QED BY <1>2, <2>1 DEF NoSubmission
<1>3. CASE s \in [step : {"read"}, n : 1 .. MaxSubmits, given : Given, complete : BOOLEAN,
                  old : SUBSET Answer, oldMarks : SUBSET Mark, oldStrengths : SUBSET Categories,
                  oldMissing : SUBSET Questions, asked : SUBSET Questions, late : BOOLEAN]
  <2>1. s.step = "read"
    BY <1>3
  <2> QED BY <1>3, <2>1 DEF NoSubmission
<1> QED BY <1>1, <1>2, <1>3 DEF Submission

LEMMA GivenIs ==
    ASSUME NEW given \in Given
    PROVE  DOMAIN given \in SUBSET Questions /\ given \in [DOMAIN given -> Options]
BY DEF Given

LEMMA AssessInitInv == AssessmentInit => AssessInv
<1> SUFFICES ASSUME AssessmentInit PROVE AssessInv
  OBVIOUS
<1>1. DOMAIN submitting = Submitters /\ \A c \in Submitters :
         submitting[c] = NoSubmission /\ submitting[c].step = "idle"
  BY DEF AssessmentInit, NoSubmission
<1>2. assessment.status = "in_progress" /\ basis.answers = {} /\ assessment \in Assessment
  <2>1. FullMark \in Nat
    BY DEF FullMark
  <2>2. 0 \in 0 .. FullMark
    BY <2>1
  <2> QED BY <2>2 DEF AssessmentInit, Assessment, Status
<1>3. AssessmentTypeOK
  <2>1. submits \in 0 .. MaxSubmits
    BY QuestionAssumption DEF AssessmentInit
  <2>2. basis \in [answers : SUBSET Answer, asked : SUBSET Questions]
    BY DEF AssessmentInit
  <2> QED BY <1>1, <1>2, <2>1, <2>2 DEF AssessmentInit, AssessmentTypeOK
<1>4. NumbersFit
  BY <1>1 DEF AssessmentInit, NumbersFit, Unused, Reading, Busy
<1>5. ReadersSound
  BY <1>1 DEF ReadersSound, Reading
<1>6. BasisSound
  BY <1>2 DEF AssessmentInit, BasisSound, Kept
<1>7. Grounds
  BY DEF AssessmentInit, Grounds
<1> QED BY <1>1, <1>3, <1>4, <1>5, <1>6, <1>7 DEF AssessInv

\* What an administrator does to the questionnaire, and with it to the answers
LEMMA AdminInv ==
    ASSUME AssessInv,
           UNCHANGED <<assessment, marks, strengths, missing, basis, torn, submitting, submits>>,
           asked' \in [Questions -> {"absent", "active", "inactive", "deleted"}],
           \A q \in Questions : asked[q] # "absent" => asked'[q] # "absent",
           choices' \subseteq Options, \A o \in choices' : asked'[OptionOf[o]] \in {"active", "inactive"},
           answers' \subseteq answers,
           torn \/ Kept(basis.answers, choices') \subseteq answers'
    PROVE  AssessInv'
<1>1. AssessmentTypeOK'
  BY DEF AssessInv, AssessmentTypeOK
<1>2. \A c : Reading(c)' = Reading(c) /\ Busy(c)' = Busy(c)
  BY DEF Reading, Busy
<1>3. \A n : Unused(n) => Unused(n)'
  BY <1>2 DEF Unused
<1>4. NumbersFit'
  BY <1>2, <1>3 DEF AssessInv, NumbersFit
<1>5. ReadersSound'
  <2>1. ASSUME NEW c \in Submitters, Reading(c), NEW q \in submitting[c].asked PROVE asked'[q] # "absent"
    <3>1. q \in Questions
      <4>1. submitting[c].asked \in SUBSET Questions
        BY <2>1, SubmissionIs DEF AssessInv, AssessmentTypeOK, Reading
      <4> QED BY <4>1
    <3> QED BY <2>1, <3>1 DEF AssessInv, ReadersSound
  <2> QED BY <1>2, <2>1 DEF AssessInv, ReadersSound
<1>6. BasisSound'
  <2>1. \A a \in basis.answers : a.question \in Questions
    BY DEF AssessInv, AssessmentTypeOK, Answer
  <2>2. Accounted' = Accounted
    BY DEF Accounted, Rounds
  <2> QED BY <2>1, <2>2 DEF AssessInv, BasisSound, Kept
<1>7. Grounds'
  BY <1>2 DEF AssessInv, Grounds
<1> QED BY <1>1, <1>4, <1>5, <1>6, <1>7 DEF AssessInv

LEMMA AdministeredInv == ASSUME AssessInv, Administered PROVE AssessInv'
<1> DEFINE States == {"absent", "active", "inactive", "deleted"}
<1>1. /\ asked \in [Questions -> States] /\ choices \subseteq Options
      /\ \A o \in choices : asked[OptionOf[o]] \in {"active", "inactive"}
      /\ torn \/ Kept(basis.answers, choices) \subseteq answers
      /\ \A a \in basis.answers : a.question \in Questions /\ a.option \in Options /\ asked[a.question] # "absent"
  BY DEF AssessInv, AssessmentTypeOK, BasisSound, Answer
<1>2. \A o \in Options : OptionOf[o] \in Questions
  BY QuestionAssumption
<1>3. ASSUME NEW q \in Questions, CreateQuestion(q) PROVE AssessInv'
  <2>1. /\ asked[q] = "absent" /\ asked' = [asked EXCEPT ![q] = "active"]
        /\ choices' = choices \cup {o \in Options : OptionOf[o] = q}
        /\ UNCHANGED <<assessment, answers, marks, strengths, missing, basis, torn, submitting, submits>>
    BY <1>3 DEF CreateQuestion, resultVars
  <2>2. asked' \in [Questions -> States] /\ \A p \in Questions : asked'[p] = IF p = q THEN "active" ELSE asked[p]
    BY <1>1, <2>1
  <2>3. choices' \subseteq Options /\ \A o \in choices' : asked'[OptionOf[o]] \in {"active", "inactive"}
    BY <1>1, <1>2, <2>1, <2>2
  <2>4. torn \/ Kept(basis.answers, choices') \subseteq answers'
    <3>1. \A a \in basis.answers : a.question # q
      BY <1>1, <2>1
    <3>2. Kept(basis.answers, choices') = Kept(basis.answers, choices)
      BY <2>1, <3>1 DEF Kept
    <3> QED BY <1>1, <2>1, <3>2
  <2> QED BY <2>1, <2>2, <2>3, <2>4, AdminInv
<1>4. ASSUME NEW q \in Questions, NEW to \in {"active", "inactive"}, SetActive(q, to) PROVE AssessInv'
  <2>1. /\ asked[q] \in {"active", "inactive"} /\ asked' = [asked EXCEPT ![q] = to]
        /\ UNCHANGED <<choices, assessment, answers, marks, strengths, missing, basis, torn, submitting, submits>>
    BY <1>4 DEF SetActive, resultVars
  <2>2. asked' \in [Questions -> States] /\ \A p \in Questions : asked'[p] = IF p = q THEN to ELSE asked[p]
    BY <1>1, <2>1
  <2>3. choices' \subseteq Options /\ \A o \in choices' : asked'[OptionOf[o]] \in {"active", "inactive"}
    BY <1>1, <1>2, <2>1, <2>2
  <2>4. \A p \in Questions : asked[p] # "absent" => asked'[p] # "absent"
    BY <2>2
  <2>5. torn \/ Kept(basis.answers, choices') \subseteq answers'
    BY <1>1, <2>1
  <2> QED BY <2>1, <2>2, <2>3, <2>4, <2>5, AdminInv
<1>5. ASSUME NEW to \in {"active", "inactive"}, BulkSetActive(to) PROVE AssessInv'
  <2>1. /\ asked' = [q \in Questions |-> IF asked[q] \in {"active", "inactive"} THEN to ELSE asked[q]]
        /\ UNCHANGED <<choices, assessment, answers, marks, strengths, missing, basis, torn, submitting, submits>>
    BY <1>5 DEF BulkSetActive, resultVars
  <2>2. asked' \in [Questions -> States] /\ \A p \in Questions :
           asked'[p] = IF asked[p] \in {"active", "inactive"} THEN to ELSE asked[p]
    BY <1>1, <2>1
  <2>3. choices' \subseteq Options /\ \A o \in choices' : asked'[OptionOf[o]] \in {"active", "inactive"}
    BY <1>1, <1>2, <2>1, <2>2
  <2>4. \A p \in Questions : asked[p] # "absent" => asked'[p] # "absent"
    BY <2>2
  <2>5. torn \/ Kept(basis.answers, choices') \subseteq answers'
    BY <1>1, <2>1
  <2> QED BY <2>1, <2>2, <2>3, <2>4, <2>5, AdminInv
<1>6. ASSUME choices' \subseteq choices PROVE Kept(basis.answers, choices') \subseteq Kept(basis.answers, choices)
  BY <1>6 DEF Kept
<1>7. ASSUME NEW o \in Options, DropOption(o) PROVE AssessInv'
  <2>1. /\ choices' = choices \ {o} /\ answers' = Kept(answers, choices')
        /\ UNCHANGED <<asked, assessment, marks, strengths, missing, basis, torn, submitting, submits>>
    BY <1>7 DEF DropOption
  <2>2. answers' \subseteq answers
    BY <2>1 DEF Kept
  <2>3. torn \/ Kept(basis.answers, choices') \subseteq answers'
    BY <1>1, <1>6, <2>1 DEF Kept
  <2>4. asked' \in [Questions -> States] /\ choices' \subseteq Options
        /\ \A p \in choices' : asked'[OptionOf[p]] \in {"active", "inactive"}
    BY <1>1, <2>1
  <2> QED BY <2>1, <2>2, <2>3, <2>4, AdminInv
<1>8. ASSUME NEW q \in Questions, DeleteQuestion(q) PROVE AssessInv'
  <2>1. /\ asked[q] \in {"active", "inactive"} /\ asked' = [asked EXCEPT ![q] = "deleted"]
        /\ choices' = {o \in choices : OptionOf[o] # q} /\ answers' = Kept(answers, choices')
        /\ UNCHANGED <<assessment, marks, strengths, missing, basis, torn, submitting, submits>>
    BY <1>8 DEF DeleteQuestion
  <2>2. asked' \in [Questions -> States] /\ \A p \in Questions : asked'[p] = IF p = q THEN "deleted" ELSE asked[p]
    BY <1>1, <2>1
  <2>3. answers' \subseteq answers
    BY <2>1 DEF Kept
  <2>4. torn \/ Kept(basis.answers, choices') \subseteq answers'
    BY <1>1, <1>6, <2>1 DEF Kept
  <2>5. choices' \subseteq Options /\ \A p \in choices' : asked'[OptionOf[p]] \in {"active", "inactive"}
    BY <1>1, <1>2, <2>1, <2>2
  <2>6. \A p \in Questions : asked[p] # "absent" => asked'[p] # "absent"
    BY <2>2
  <2> QED BY <2>1, <2>2, <2>3, <2>4, <2>5, <2>6, AdminInv
<1> QED BY <1>3, <1>4, <1>5, <1>7, <1>8 DEF Administered, AssessInv

-----------------------------------------------------------------------------
(* The submissions                                                            *)

\* A submission that goes on, or ends, and has written nothing
LEMMA SubmittingInv ==
    ASSUME AssessInv, UNCHANGED <<asked, choices, assessment, answers, marks, strengths, missing, basis, torn>>,
           submits' \in 0 .. MaxSubmits, submits' >= submits,
           NEW c \in Submitters, NEW s, submitting' = [submitting EXCEPT ![c] = s],
           s = NoSubmission \/ s \in Submission,
           s.step # "idle" =>
              \/ Busy(c) /\ s.n = submitting[c].n
              \/ s.n = submits' /\ submits' > submits,
           s.step = "row" => s.seen = "in_progress",
           s.step = "read" =>
              /\ s.old = answers /\ s.oldMarks = marks /\ s.oldStrengths = strengths
              /\ s.complete => s.asked # {}
              /\ \A q \in s.asked : asked[q] # "absent"
              /\ s.late \/ s.old \cap basis.answers = {}
    PROVE  AssessInv'
<1>1. DOMAIN submitting' = Submitters /\ \A d \in Submitters : submitting'[d] = IF d = c THEN s ELSE submitting[d]
  BY DEF AssessInv
<1>2. submits \in Nat /\ submits' \in Nat
  BY QuestionAssumption DEF AssessInv, AssessmentTypeOK
<1>3. AssessmentTypeOK'
  BY <1>1 DEF AssessInv, AssessmentTypeOK
<1>4. \A d \in Submitters : /\ Reading(d)' <=> IF d = c THEN s.step = "read" ELSE Reading(d)
                            /\ Busy(d)' <=> IF d = c THEN s.step # "idle" ELSE Busy(d)
  BY <1>1 DEF Reading, Busy
<1>5. ASSUME NEW n, Unused(n) PROVE Unused(n)'
  <2>1. ASSUME NEW d \in Submitters, Reading(d)'
        PROVE  (\A a \in submitting'[d].old : a.n # n) /\ (\A m \in submitting'[d].oldMarks : m.n # n)
    <3>1. CASE d = c
      BY <1>1, <1>4, <1>5, <2>1, <3>1 DEF Unused
    <3>2. CASE d # c
      BY <1>1, <1>4, <1>5, <2>1, <3>2 DEF Unused
    <3> QED BY <3>1, <3>2
  <2>2. (\A a \in answers' : a.n # n) /\ (\A m \in marks' : m.n # n)
    BY <1>5 DEF Unused
  <2> QED BY <2>1, <2>2 DEF Unused
<1>6. NumbersFit'
  <2>1. ASSUME NEW n \in Nat, n > submits' PROVE Unused(n)'
    <3>1. n > submits
      BY <1>2, <2>1
    <3> QED BY <1>5, <3>1 DEF AssessInv, NumbersFit
  <2>2. ASSUME NEW d \in Submitters, Busy(d) PROVE submitting[d].n \in Nat /\ submitting[d].n <= submits
    <3>1. submitting[d].n \in Nat
      BY <2>2, SubmissionIs DEF AssessInv, AssessmentTypeOK, Busy
    <3> QED BY <2>2, <3>1 DEF AssessInv, NumbersFit
  <2>3. ASSUME s.step # "idle" PROVE s.n \in Nat /\ s.n <= submits' /\ Unused(s.n)
    <3>1. CASE Busy(c) /\ s.n = submitting[c].n
      BY <1>2, <2>2, <3>1 DEF AssessInv, NumbersFit
    <3>2. CASE s.n = submits' /\ submits' > submits
      BY <1>2, <3>2 DEF AssessInv, NumbersFit
    <3> QED BY <2>3, <3>1, <3>2
  <2>4. ASSUME NEW d \in Submitters, Busy(d)', NEW n, n = submitting'[d].n PROVE n <= submits' /\ Unused(n)'
    <3>1. CASE d = c
      <4>1. n = s.n /\ s.step # "idle"
        BY <1>1, <1>4, <2>4, <3>1
      <4> QED BY <1>5, <2>3, <4>1
    <3>2. CASE d # c
      <4>1. Busy(d) /\ n = submitting[d].n
        BY <1>1, <1>4, <2>4, <3>2
      <4>2. n <= submits' /\ Unused(n)
        BY <1>2, <2>2, <4>1 DEF AssessInv, NumbersFit
      <4> QED BY <1>5, <4>2
    <3> QED BY <3>1, <3>2
  <2>5. ASSUME NEW d \in Submitters, d # c, Busy(d), s.step # "idle" PROVE submitting[d].n # s.n
    <3>1. CASE Busy(c) /\ s.n = submitting[c].n
      BY <2>5, <3>1 DEF AssessInv, NumbersFit
    <3>2. CASE s.n = submits' /\ submits' > submits
      BY <1>2, <2>2, <2>5, <3>2
    <3> QED BY <2>5, <3>1, <3>2
  <2>6. ASSUME NEW d \in Submitters, NEW e \in Submitters, d # e, Busy(d)', Busy(e)'
        PROVE  submitting'[d].n # submitting'[e].n
    <3>1. CASE d = c
      BY <1>1, <1>4, <2>5, <2>6, <3>1
    <3>2. CASE e = c
      BY <1>1, <1>4, <2>5, <2>6, <3>2
    <3>3. CASE d # c /\ e # c
      BY <1>1, <1>4, <2>6, <3>3 DEF AssessInv, NumbersFit
    <3> QED BY <3>1, <3>2, <3>3
  <2>7. ASSUME NEW d \in Submitters, Busy(d)' PROVE (submitting[d].n <= submits /\ Unused(submitting[d].n))'
    BY <2>4, <2>7 DEF Unused
  <2> QED BY <2>1, <2>6, <2>7 DEF NumbersFit
<1>7. ReadersSound'
  <2>1. ASSUME NEW d \in Submitters
        PROVE  /\ submitting'[d].step = "row" => submitting'[d].seen = "in_progress"
               /\ Reading(d)' =>
                     /\ submitting'[d].complete => submitting'[d].asked # {}
                     /\ \A q \in submitting'[d].asked : asked'[q] # "absent"
                     /\ submitting'[d].late \/ submitting'[d].old \cap basis'.answers = {}
    <3>1. CASE d = c
      BY <1>1, <1>4, <3>1
    <3>2. CASE d # c
      BY <1>1, <1>4, <3>2 DEF AssessInv, ReadersSound
    <3> QED BY <3>1, <3>2
  <2> QED BY <2>1 DEF ReadersSound
<1>8. BasisSound'
  <2>1. Accounted' = Accounted
    BY DEF Accounted, Rounds
  <2> QED BY <2>1 DEF AssessInv, BasisSound, Kept
<1>9. Grounds'
  <2> SUFFICES ASSUME NEW T \in SUBSET Submitters, \A d \in T : Reading(d)',
                      NEW cat \in strengths', \A d \in T : cat \notin submitting'[d].oldStrengths
               PROVE  \E m \in marks' : m.category = cat /\ m.score >= 7000
                         /\ \A d \in T : m \notin submitting'[d].oldMarks
    BY DEF Grounds
  <2>1. c \notin T
    BY <1>1, <1>4
  <2>2. \A d \in T : Reading(d) /\ submitting'[d] = submitting[d]
    BY <1>1, <1>4, <2>1
  <2> QED BY <2>2 DEF AssessInv, Grounds
<1> QED BY <1>1, <1>3, <1>6, <1>7, <1>8, <1>9 DEF AssessInv

LEMMA LoadInv ==
    ASSUME AssessInv, NEW c \in Submitters, NEW given \in Given, NEW complete \in BOOLEAN,
           LoadAssessment(c, given, complete)
    PROVE  AssessInv'
<1>1. PICK s : s = [step |-> "row", n |-> submits', given |-> given, complete |-> complete, seen |-> assessment.status]
  OBVIOUS
<1>2. /\ submitting[c] = NoSubmission /\ submits < MaxSubmits /\ assessment.status # "completed"
      /\ submits' = submits + 1 /\ submitting' = [submitting EXCEPT ![c] = s]
      /\ UNCHANGED <<asked, choices, assessment, answers, marks, strengths, missing, basis, torn>>
  BY <1>1 DEF LoadAssessment, MaySubmit, questionVars, resultVars
<1>3. submits \in 0 .. MaxSubmits /\ assessment.status \in {"in_progress", "completed"}
  BY DEF AssessInv, AssessmentTypeOK, Assessment, Status
<1>4. submits' \in 1 .. MaxSubmits /\ submits' \in 0 .. MaxSubmits /\ submits' > submits
  BY <1>2, <1>3, QuestionAssumption
<1>5. s.step = "row" /\ s.n = submits' /\ s.seen = "in_progress"
  BY <1>1, <1>2, <1>3
<1>6. s \in Submission
  BY <1>1, <1>3, <1>4 DEF Submission, Status
<1>7. s.step # "read" /\ submits' >= submits /\ (s.n = submits' /\ submits' > submits)
  BY <1>3, <1>4, <1>5
<1> QED BY <1>2, <1>4, <1>5, <1>6, <1>7, SubmittingInv

LEMMA ReadInv == ASSUME AssessInv, NEW c \in Submitters, ReadQuestionnaire(c) PROVE AssessInv'
<1>1. PICK r : r = submitting[c]
  OBVIOUS
<1>2. PICK s : s = [step |-> "read", n |-> r.n, given |-> r.given, complete |-> r.complete,
                    old |-> answers, oldMarks |-> marks, oldStrengths |-> strengths, oldMissing |-> missing,
                    asked |-> Applicable(Active, r.given), late |-> assessment.status # r.seen]
  OBVIOUS
<1>3. /\ r.step = "row" /\ Valid(r.given, r.complete) /\ submitting' = [submitting EXCEPT ![c] = s]
      /\ UNCHANGED <<asked, choices, assessment, answers, marks, strengths, missing, basis, torn, submits>>
  BY <1>1, <1>2 DEF ReadQuestionnaire, questionVars, resultVars
<1>4. /\ r.n \in 1 .. MaxSubmits /\ r.given \in Given /\ r.complete \in BOOLEAN /\ r.seen = "in_progress" /\ Busy(c)
  BY <1>1, <1>3, SubmissionIs DEF AssessInv, AssessmentTypeOK, ReadersSound, Busy
<1>5. s.step = "read" /\ s.n = r.n /\ s.old = answers /\ s.oldMarks = marks /\ s.oldStrengths = strengths
  BY <1>2
<1>6. s.asked = Applicable(Active, r.given) /\ s.complete = r.complete /\ s.late = (assessment.status # r.seen)
  BY <1>2
<1>7. s.asked \in SUBSET Questions /\ \A q \in s.asked : asked[q] # "absent"
  BY <1>6 DEF Applicable, Active
<1>8. s.complete => s.asked # {}
  BY <1>3, <1>6 DEF Valid
<1>9. s.late \/ s.old \cap basis.answers = {}
  BY <1>4, <1>5, <1>6 DEF AssessInv, BasisSound
<1>10. s \in Submission
  <2>1. answers \subseteq Answer /\ marks \subseteq Mark /\ strengths \subseteq Categories /\ missing \subseteq Questions
    BY DEF AssessInv, AssessmentTypeOK
  <2> QED BY <1>2, <1>4, <1>6, <1>7, <2>1 DEF Submission
<1>11. submits' \in 0 .. MaxSubmits /\ submits' >= submits
  BY <1>3 DEF AssessInv, AssessmentTypeOK
<1>12. s.step # "idle" /\ s.step # "row" /\ s.n = submitting[c].n
  BY <1>1, <1>5
<1> QED BY <1>3, <1>4, <1>5, <1>7, <1>8, <1>9, <1>10, <1>11, <1>12, SubmittingInv

LEMMA StopInv == ASSUME AssessInv, NEW c \in Submitters, StopSubmission(c) PROVE AssessInv'
<1>1. PICK s : s = NoSubmission
  OBVIOUS
<1>4. s.step = "idle" /\ s.step # "row" /\ s.step # "read"
  BY <1>1 DEF NoSubmission
<1>2. /\ submitting' = [submitting EXCEPT ![c] = s] /\ submits' = submits
      /\ UNCHANGED <<asked, choices, assessment, answers, marks, strengths, missing, basis, torn>>
  BY <1>1 DEF StopSubmission, EndSubmission, questionVars, resultVars
<1>3. submits' \in 0 .. MaxSubmits /\ submits' >= submits
  BY <1>2 DEF AssessInv, AssessmentTypeOK
<1> QED BY <1>1, <1>2, <1>3, <1>4, SubmittingInv

\* What a submission that has read holds
LEMMA ReadIs ==
    ASSUME AssessInv, NEW c \in Submitters, NEW s, s = submitting[c], s.step = "read"
    PROVE  /\ s.n \in Nat /\ s.n \in 1 .. MaxSubmits /\ s.n <= submits
           /\ s.given \in Given /\ s.complete \in BOOLEAN /\ s.late \in BOOLEAN
           /\ s.asked \in SUBSET Questions /\ s.old \in SUBSET Answer /\ s.oldMarks \in SUBSET Mark
           /\ s.oldStrengths \in SUBSET Categories /\ s.oldMissing \in SUBSET Questions
           /\ Reading(c) /\ Busy(c) /\ Unused(s.n)
<1>1. s = NoSubmission \/ s \in Submission
  BY DEF AssessInv, AssessmentTypeOK
<1>2. s \in [step : {"read"}, n : 1 .. MaxSubmits, given : Given, complete : BOOLEAN,
             old : SUBSET Answer, oldMarks : SUBSET Mark, oldStrengths : SUBSET Categories,
             oldMissing : SUBSET Questions, asked : SUBSET Questions, late : BOOLEAN]
  BY <1>1, SubmissionIs
<1>3. Reading(c) /\ Busy(c)
  BY DEF Reading, Busy
<1>4. s.n <= submits /\ Unused(s.n)
  BY <1>3 DEF AssessInv, NumbersFit
<1>5. s.n \in Nat
  BY <1>2
<1> QED BY <1>2, <1>3, <1>4, <1>5

LEMMA RowsAre ==
    ASSUME NEW s, s.n \in 1 .. MaxSubmits, s.given \in Given, NEW T \in SUBSET Questions
    PROVE  /\ Rows(s, T) \subseteq Answer
           /\ \A a \in Rows(s, T) : a.n = s.n /\ a.question \in T /\ a.option = s.given[a.question]
           /\ \A q \in T \cap DOMAIN s.given : \E a \in Rows(s, T) : a.question = q /\ a.option = s.given[q]
<1>1. DOMAIN s.given \in SUBSET Questions /\ s.given \in [DOMAIN s.given -> Options]
  BY GivenIs
<1>2. ASSUME NEW a \in Rows(s, T) PROVE a \in Answer /\ a.n = s.n /\ a.question \in T /\ a.option = s.given[a.question]
  <2>1. PICK q \in T \cap DOMAIN s.given : a = [n |-> s.n, question |-> q, option |-> s.given[q]]
    BY <1>2 DEF Rows
  <2> QED BY <1>1, <2>1 DEF Answer
<1>3. ASSUME NEW q \in T \cap DOMAIN s.given PROVE \E a \in Rows(s, T) : a.question = q /\ a.option = s.given[q]
  <2>1. PICK a : a = [n |-> s.n, question |-> q, option |-> s.given[q]]
    OBVIOUS
  <2>2. a \in Rows(s, T) /\ a.question = q /\ a.option = s.given[q]
    BY <2>1 DEF Rows
  <2> QED BY <2>2
<1> QED BY <1>2, <1>3

\* The numbers of a submission that ends and inserts rows are still its own.
LEMMA WritesFit ==
    ASSUME AssessInv, NEW c \in Submitters, NEW s, s = submitting[c], s.step = "read",
           NEW rows, \A a \in rows : a.n = s.n, answers' \subseteq answers \cup rows,
           NEW more, \A m \in more : m.n = s.n, marks' \subseteq marks \cup more,
           EndSubmission(c), submits' = submits
    PROVE  NumbersFit'
<1>1. DOMAIN submitting' = Submitters /\ \A d \in Submitters :
         submitting'[d] = IF d = c THEN NoSubmission ELSE submitting[d]
  BY DEF AssessInv, EndSubmission
<1>2. \A d \in Submitters : /\ Reading(d)' <=> d # c /\ Reading(d)
                            /\ Busy(d)' <=> d # c /\ Busy(d)
  BY <1>1 DEF Reading, Busy, NoSubmission
<1>3. s.n \in Nat /\ s.n <= submits /\ Busy(c) /\ submits \in Nat
  BY ReadIs, QuestionAssumption DEF AssessInv, AssessmentTypeOK
<1>4. ASSUME NEW n, n # s.n, Unused(n) PROVE Unused(n)'
  BY <1>1, <1>2, <1>4 DEF Unused
<1>5. ASSUME NEW n \in Nat, n > submits' PROVE Unused(n)'
  <2>1. n > submits /\ n # s.n
    BY <1>3, <1>5
  <2> QED BY <1>4, <2>1 DEF AssessInv, NumbersFit
<1>6. ASSUME NEW d \in Submitters, Busy(d)', NEW n, n = submitting'[d].n PROVE n <= submits' /\ Unused(n)'
  <2>1. Busy(d) /\ d # c /\ n = submitting[d].n
    BY <1>1, <1>2, <1>6
  <2>2. n <= submits /\ Unused(n) /\ n # s.n
    BY <1>3, <2>1 DEF AssessInv, NumbersFit
  <2> QED BY <1>4, <2>2
<1>7. ASSUME NEW d \in Submitters, Busy(d)' PROVE (submitting[d].n <= submits /\ Unused(submitting[d].n))'
  BY <1>6, <1>7 DEF Unused
<1>8. ASSUME NEW d \in Submitters, NEW e \in Submitters, d # e, Busy(d)', Busy(e)'
      PROVE  submitting'[d].n # submitting'[e].n
  BY <1>1, <1>2, <1>8 DEF AssessInv, NumbersFit
<1> QED BY <1>5, <1>7, <1>8 DEF NumbersFit

LEMMA SaveProgressInv == ASSUME AssessInv, NEW c \in Submitters, SaveProgress(c) PROVE AssessInv'
<1>1. PICK s : s = submitting[c]
  OBVIOUS
<1>2. PICK rows : rows = Rows(s, Questions)
  OBVIOUS
<1>3. /\ s.step = "read" /\ answers' = (answers \ s.old) \cup rows /\ torn' = (torn \/ s.late) /\ EndSubmission(c)
      /\ UNCHANGED <<asked, choices, assessment, marks, strengths, missing, basis, submits>>
  BY <1>1, <1>2 DEF SaveProgress, Replaced, questionVars
<1>4. /\ s.n \in 1 .. MaxSubmits /\ s.given \in Given /\ s.late \in BOOLEAN
  BY <1>1, <1>3, ReadIs
<1>5. rows \subseteq Answer /\ \A a \in rows : a.n = s.n
  BY <1>2, <1>4, RowsAre
<1>6. DOMAIN submitting' = Submitters /\ \A d \in Submitters :
         submitting'[d] = IF d = c THEN NoSubmission ELSE submitting[d]
  BY <1>3 DEF AssessInv, EndSubmission
<1>7. \A d \in Submitters : Reading(d)' <=> d # c /\ Reading(d)
  BY <1>6 DEF Reading, NoSubmission
<1>8. AssessmentTypeOK'
  <2>1. answers' \subseteq Answer /\ torn' \in BOOLEAN
    BY <1>3, <1>4, <1>5 DEF AssessInv, AssessmentTypeOK
  <2> QED BY <1>3, <1>6, <2>1 DEF AssessInv, AssessmentTypeOK
<1>9. NumbersFit'
  <2>1. answers' \subseteq answers \cup rows /\ submits' = submits
    BY <1>3
  <2>2. PICK more : more = {}
    OBVIOUS
  <2>3. (\A m \in more : m.n = s.n) /\ marks' \subseteq marks \cup more
    BY <1>3, <2>2
  <2> QED BY <1>1, <1>3, <1>5, <2>1, <2>3, WritesFit
<1>10. ReadersSound'
  <2>1. NoSubmission.step # "row"
    BY DEF NoSubmission
  <2> QED BY <1>3, <1>6, <1>7, <2>1 DEF AssessInv, ReadersSound
<1>11. BasisSound'
  <2>1. Accounted' = Accounted
    BY <1>3 DEF Accounted, Rounds
  <2>2. ASSUME ~torn' PROVE Kept(basis.answers, choices) \subseteq answers'
    <3>1. ~torn /\ ~s.late
      BY <1>3, <2>2
    <3>2. s.old \cap basis.answers = {}
      BY <1>1, <1>3, <3>1, ReadIs DEF AssessInv, ReadersSound
    <3>3. Kept(basis.answers, choices) \subseteq answers
      BY <3>1 DEF AssessInv, BasisSound
    <3>4. Kept(basis.answers, choices) \subseteq basis.answers
      BY DEF Kept
    <3> QED BY <1>3, <3>2, <3>3, <3>4
  <2>3. torn' \/ Kept(basis.answers, choices)' \subseteq answers'
    BY <1>3, <2>2 DEF Kept
  <2> QED BY <1>3, <2>1, <2>3 DEF AssessInv, BasisSound
<1>12. Grounds'
  BY <1>3, <1>6, <1>7 DEF AssessInv, Grounds
<1> QED BY <1>6, <1>8, <1>9, <1>10, <1>11, <1>12 DEF AssessInv

LEMMA CompleteInv ==
    ASSUME AssessInv, NEW c \in Submitters, NEW praised \in SUBSET Categories, Complete(c, praised)
    PROVE  AssessInv'
<1>1. PICK s : s = submitting[c]
  OBVIOUS
<1>2. PICK S, D, rows, more, praise : /\ S = s.asked /\ D = DOMAIN s.given /\ rows = Rows(s, S)
                                      /\ more = MarksOf(s) /\ praise = Grounded(s, praised)
  OBVIOUS
<1>3. /\ s.step = "read" /\ s.complete /\ answers' = (answers \ s.old) \cup rows
      /\ assessment' = [status |-> "completed", score |-> Score(s)]
      /\ marks' = (marks \ s.oldMarks) \cup more
      /\ strengths' = (strengths \ s.oldStrengths) \cup praise
      /\ missing' = (missing \ s.oldMissing) \cup (S \ D)
      /\ basis' = [answers |-> rows, asked |-> S]
      /\ torn' = (torn \/ s.late) /\ EndSubmission(c) /\ UNCHANGED <<asked, choices, submits>>
  BY <1>1, <1>2 DEF Complete, Replaced, questionVars
<1>4. /\ s.n \in 1 .. MaxSubmits /\ s.given \in Given /\ s.late \in BOOLEAN /\ Unused(s.n)
      /\ S \in SUBSET Questions /\ Reading(c)
  BY <1>1, <1>2, <1>3, ReadIs
<1>5. D \in SUBSET Questions /\ s.given \in [D -> Options]
  BY <1>2, <1>4, GivenIs
<1>6. S # {} /\ \A q \in S : asked[q] # "absent"
  BY <1>1, <1>2, <1>3, <1>4 DEF AssessInv, ReadersSound
<1>7. /\ rows \subseteq Answer /\ \A a \in rows : a.n = s.n /\ a.question \in S /\ a.option = s.given[a.question]
      /\ \A q \in S \cap D : \E a \in rows : a.question = q /\ a.option = s.given[q]
  BY <1>2, <1>4, RowsAre
<1>8. /\ Score(s) \in 0 .. FullMark
      /\ Score(s) = FullMark => \A q \in S :
            LET lacks == IF q \in D THEN 100 - Worth[s.given[q]] ELSE 100 IN
            200 * Weight[q] * lacks <= SumOver(Weight, S)
  BY <1>2, <1>4, <1>5, <1>6, ScoreSays
<1>9. \A m \in more : m \in Mark /\ m.n = s.n
  <2>1. PICK n \in 1 .. MaxSubmits : n = s.n
    BY <1>4
  <2>2. \A m \in MarksOf(s) : m \in Mark /\ m.n = n
    BY <1>2, <1>4, <1>5, <2>1, MarksAre
  <2> QED BY <1>2, <2>1, <2>2
<1>10. praise \subseteq Categories /\ \A cat \in praise : \E m \in more : m.category = cat /\ m.score >= 7000
  BY <1>2 DEF Grounded
<1>11. DOMAIN submitting' = Submitters /\ \A d \in Submitters :
         submitting'[d] = IF d = c THEN NoSubmission ELSE submitting[d]
  BY <1>3 DEF AssessInv, EndSubmission
<1>12. \A d \in Submitters : Reading(d)' <=> d # c /\ Reading(d)
  BY <1>11 DEF Reading, NoSubmission
<1>13. AssessmentTypeOK'
  <2>1. answers' \subseteq Answer /\ torn' \in BOOLEAN /\ marks' \subseteq Mark
    BY <1>3, <1>4, <1>7, <1>9 DEF AssessInv, AssessmentTypeOK
  <2>2. assessment' \in Assessment
    BY <1>3, <1>8 DEF Assessment, Status
  <2>3. basis' \in [answers : SUBSET Answer, asked : SUBSET Questions]
    BY <1>3, <1>4, <1>7
  <2>4. strengths' \subseteq Categories /\ missing' \subseteq Questions
    BY <1>3, <1>4, <1>10 DEF AssessInv, AssessmentTypeOK
  <2> QED BY <1>3, <1>11, <2>1, <2>2, <2>3, <2>4 DEF AssessInv, AssessmentTypeOK
<1>14. NumbersFit'
  <2>1. answers' \subseteq answers \cup rows /\ submits' = submits /\ marks' \subseteq marks \cup more
    BY <1>3
  <2> QED BY <1>1, <1>3, <1>7, <1>9, <2>1, WritesFit
<1>15. ReadersSound'
  <2>1. NoSubmission.step # "row"
    BY DEF NoSubmission
  <2>2. basis'.answers = rows
    BY <1>3
  <2>3. ASSUME NEW d \in Submitters, Reading(d) PROVE submitting[d].old \cap rows = {}
    BY <1>4, <1>7, <2>3 DEF Unused
  <2> QED BY <1>3, <1>11, <1>12, <2>1, <2>2, <2>3 DEF AssessInv, ReadersSound
<1>16. BasisSound'
  <2>1. assessment'.status = "completed" /\ assessment'.score = Score(s) /\ basis'.answers = rows /\ basis'.asked = S
    BY <1>3
  <2>2. \A a \in rows : asked'[a.question] # "absent"
    BY <1>3, <1>6, <1>7
  <2>3. Kept(basis.answers, choices)' \subseteq answers'
    BY <1>3, <2>1 DEF Kept
  <2>4. \A q, lacks : 200 * Weight[q] * lacks <= SumOver(Weight, S) => Rounds(q, lacks)'
    BY <2>1 DEF Rounds
  <2>5. ASSUME assessment'.score = FullMark, NEW q \in S
        PROVE  Rounds(q, 100)' \/ \E a \in rows : a.question = q /\ Rounds(q, 100 - Worth[a.option])'
    <3>1. CASE q \in D
      <4>1. PICK a \in rows : a.question = q /\ a.option = s.given[q]
        BY <1>7, <3>1
      <4>2. 200 * Weight[q] * (100 - Worth[s.given[q]]) <= SumOver(Weight, S)
        BY <1>8, <2>1, <2>5, <3>1
      <4>3. Rounds(q, 100 - Worth[a.option])'
        BY <4>1, <4>2, <2>1 DEF Rounds
      <4> QED BY <4>1, <4>3
    <3>2. CASE q \notin D
      <4>1. 200 * Weight[q] * 100 <= SumOver(Weight, S)
        BY <1>8, <2>1, <2>5, <3>2
      <4>2. Rounds(q, 100)'
        BY <4>1, <2>1 DEF Rounds
      <4> QED BY <4>2
    <3> QED BY <3>1, <3>2
  <2>6. \A q \in S : q \in missing' \/ \E a \in rows : a.question = q
    BY <1>3, <1>7
  <2>7. Accounted'
    BY <2>1, <2>5, <2>6 DEF Accounted
  <2> QED BY <2>1, <2>2, <2>3, <2>7 DEF BasisSound
<1>17. Grounds'
  <2> SUFFICES ASSUME NEW T \in SUBSET Submitters, \A d \in T : Reading(d)',
                      NEW cat \in strengths', \A d \in T : cat \notin submitting'[d].oldStrengths
               PROVE  \E m \in marks' : m.category = cat /\ m.score >= 7000
                         /\ \A d \in T : m \notin submitting'[d].oldMarks
    BY DEF Grounds
  <2>1. \A d \in T : d # c /\ Reading(d) /\ submitting'[d] = submitting[d]
    BY <1>11, <1>12
  <2>2. CASE cat \in strengths /\ cat \notin s.oldStrengths
    <3>1. PICK U \in SUBSET Submitters : U = T \cup {c}
      OBVIOUS
    <3>2. \A d \in U : Reading(d) /\ cat \notin submitting[d].oldStrengths
      BY <1>1, <1>4, <2>1, <2>2, <3>1
    <3>3. PICK m \in marks : m.category = cat /\ m.score >= 7000 /\ \A d \in U : m \notin submitting[d].oldMarks
      BY <2>2, <3>2 DEF AssessInv, Grounds
    <3>4. m \in marks' /\ \A d \in T : m \notin submitting'[d].oldMarks
      BY <1>1, <1>3, <2>1, <3>1, <3>3
    <3> QED BY <3>3, <3>4
  <2>3. CASE cat \in praise
    <3>1. PICK m \in more : m.category = cat /\ m.score >= 7000
      BY <1>10, <2>3
    <3>2. m \in marks' /\ m.n = s.n
      BY <1>3, <1>9
    <3>3. ASSUME NEW d \in T PROVE m \notin submitting'[d].oldMarks
      BY <1>4, <2>1, <3>2 DEF Unused
    <3> QED BY <3>1, <3>2, <3>3
  <2> QED BY <1>3, <2>2, <2>3
<1> QED BY <1>11, <1>13, <1>14, <1>15, <1>16, <1>17 DEF AssessInv

LEMMA AssessNextInv == AssessInv /\ [AssessmentNext]_assessmentVars => AssessInv'
<1> SUFFICES ASSUME AssessInv, [AssessmentNext]_assessmentVars PROVE AssessInv'
  OBVIOUS
<1>1. CASE Administered
  BY <1>1, AdministeredInv
<1>2. ASSUME NEW c \in Submitters, NEW given \in Given, NEW complete \in BOOLEAN, LoadAssessment(c, given, complete)
      PROVE  AssessInv'
  BY <1>2, LoadInv
<1>3. ASSUME NEW c \in Submitters,
             ReadQuestionnaire(c) \/ SaveProgress(c) \/ StopSubmission(c)
      PROVE  AssessInv'
  BY <1>3, ReadInv, SaveProgressInv, StopInv
<1>4. ASSUME NEW c \in Submitters, NEW praised \in SUBSET Categories, Complete(c, praised) PROVE AssessInv'
  BY <1>4, CompleteInv
<1>5. CASE UNCHANGED assessmentVars
  BY <1>5 DEF assessmentVars, questionVars, resultVars, AssessInv, AssessmentTypeOK, NumbersFit, Unused, Reading,
              Busy, ReadersSound, BasisSound, Kept, Accounted, Rounds, Grounds
<1> QED BY <1>1, <1>2, <1>3, <1>4, <1>5 DEF AssessmentNext

LEMMA ExplainedOf == AssessInv => AssessmentTypeOK /\ ResultExplained
<1> SUFFICES ASSUME AssessInv PROVE AssessmentTypeOK /\ ResultExplained
  OBVIOUS
<1>1. StrengthsGrounded
  <2>1. Grounds /\ {} \in SUBSET Submitters
    BY DEF AssessInv
  <2>2. ASSUME NEW T \in SUBSET Submitters, \A c \in T : Reading(c), NEW cat \in strengths,
               \A c \in T : cat \notin submitting[c].oldStrengths
        PROVE  \E m \in marks : m.category = cat /\ m.score >= 7000
    BY <2>1, <2>2 DEF Grounds
  <2>3. ASSUME NEW cat \in strengths PROVE \E m \in marks : m.category = cat /\ m.score >= 7000
    <3>1. \E T : T = {}
      OBVIOUS
    <3>2. PICK T : /\ T \in SUBSET Submitters /\ \A c \in T : Reading(c)
                   /\ \A c \in T : cat \notin submitting[c].oldStrengths
      BY <3>1
    <3> QED BY <2>2, <2>3, <3>2
  <2> QED BY <2>3 DEF StrengthsGrounded
<1>2. assessment.status = "completed" => (torn \/ Kept(basis.answers, choices) \subseteq answers) /\ Accounted
  BY DEF AssessInv, BasisSound
<1>3. ResultExplained
  BY <1>1, <1>2, Zenon DEF Accounted, ResultExplained
<1> QED BY <1>3 DEF AssessInv

\* What a completed assessment says of a seeker stands on what the seeker answered, however
\* submissions and edits of the questionnaire interleave (submit_answers).
THEOREM ResultsAreExplained == AssessmentSpec => [](AssessmentTypeOK /\ ResultExplained)
<1>1. AssessmentInit => AssessInv
  BY AssessInitInv
<1>2. AssessInv /\ [AssessmentNext]_assessmentVars => AssessInv'
  BY AssessNextInv
<1>3. AssessInv => AssessmentTypeOK /\ ResultExplained
  BY ExplainedOf
<1> QED BY <1>1, <1>2, <1>3, PTL DEF AssessmentSpec

\* Whom an assessment matches and what its score stands on: the gate's and the rules' for the
\* leads (match_advisors_for_assessment), the seeker's own answers for the result.
THEOREM FindingsAreGrounded == LeadSpec /\ AssessmentSpec => []FindingsGrounded
<1>1. LeadTypeOK /\ LeadsAsGated /\ AssessmentTypeOK /\ ResultExplained => FindingsGrounded
  BY DEF FindingsGrounded
<1> QED BY <1>1, LeadsAreGated, ResultsAreExplained, PTL

-----------------------------------------------------------------------------
(* All cases                                                                  *)

\* The seeker's cards, the advisor's earnings and the administrators' figures speak of one
\* ledger (seeker_payment_summary, get_earnings_summary, get_finance_analytics), whatever is
\* charged, settled, refunded and paid out.
THEOREM BooksAreShown == BooksSpec => []BooksShown
<1>1. BooksAgree => BooksShown
  BY DEF BooksShown
<1> QED BY <1>1, BooksAgreeAlways, PTL

\* Every row, and what every request in progress has read, keeps its type in every component:
\* a score is at most a full one, an offering has a row of the catalog, a refund is at most
\* the price.
THEOREM CasesHaveTypes ==
    ConnectionSpec /\ OfferSpec /\ LeadSpec /\ AssessmentSpec /\ DeskSpec /\ JourneySpec
      /\ BooksSpec /\ ScreensSpec /\ TidingsSpec /\ LiveSpec
    => []CasesTypeOK
<1>1. ConnectionSpec => []ConnectionTypeOK
  <2>1. ConnectionInv => ConnectionTypeOK
    BY DEF ConnectionInv
  <2> QED BY <2>1, ConnectionInitInv, ConnectionNextInv, PTL DEF ConnectionSpec
<1>2. OfferSpec => []OfferTypeOK
  <2>1. OfferInv => OfferTypeOK
    BY DEF OfferInv
  <2> QED BY <2>1, OfferInitInv, OfferNextInv, PTL DEF OfferSpec
<1>3. DeskSpec => []DeskTypeOK
  <2>1. DeskInv => DeskTypeOK
    BY DEF DeskInv
  <2> QED BY <2>1, DeskInitInv, DeskNextInv, PTL DEF DeskSpec
<1>4. JourneySpec => []JourneyTypeOK
  <2>1. JourneyInv => JourneyTypeOK
    BY DEF JourneyInv
  <2> QED BY <2>1, JourneyInitInv, JourneyNextInv, PTL DEF JourneySpec
<1>5. ScreensSpec => []ScreensTypeOK
  <2>1. ScreenInv => ScreensTypeOK
    BY DEF ScreenInv
  <2> QED BY <2>1, ScreensInitInv, ScreensNextInv, PTL DEF ScreensSpec
<1>6. /\ ConnectionTypeOK /\ OfferTypeOK /\ LeadTypeOK /\ AssessmentTypeOK /\ DeskTypeOK
      /\ JourneyTypeOK /\ BooksTypeOK /\ ScreensTypeOK /\ TidingsTypeOK /\ LiveTypeOK
      => CasesTypeOK
  BY DEF CasesTypeOK
<1> QED BY <1>1, <1>2, <1>3, <1>4, <1>5, <1>6, LeadsAreGated, ResultsAreExplained, BooksAgreeAlways,
           TidingsAreTrue, WindowsAreTrue, PTL

=============================================================================
