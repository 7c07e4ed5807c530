------------------------------ MODULE Directory ------------------------------
(* Who is shown to whom: the advisors' marketplace, public profiles, bookmarks *)
(* and suggestions of seekers (advisor_search_service, bookmark_service,       *)
(* seeker_recommendation_service, api/v1/advisors and bookmarks), and the      *)
(* administrators' lists of advisors, seekers and accounts                     *)
(* (advisor_admin_service, seeker_admin_service, user_admin_service,           *)
(* verification_queue_service, impersonation_service).  They all look at the   *)
(* account of AdvisorAccount, which its requests go on changing, and at the    *)
(* account of one seeker.                                                      *)
EXTENDS AdvisorAccount, Naturals, FiniteSets

CONSTANT ZoomAsked  \* whether Zoom is set up, and an advisor must have connected it

ASSUME ZoomAssumption  == ZoomAsked \in BOOLEAN
ASSUME PaperAssumption == IsFiniteSet(Credentials)

VARIABLES
    card,      \* the advisor_profiles row
    proven,    \* who has a confirmed e-mail address
    seat,      \* the seeker's account
    bookmark,  \* the advisor_bookmarks row
    suggested, \* whether a recommendation of the advisor is saved for the seeker
    keeping    \* what each request on the seeker's side has read

shelf         == <<card, proven, seat, bookmark, suggested, keeping>>
directoryVars == <<accountVars, shelf>>

-----------------------------------------------------------------------------
Connections == {"stripe", "zoom"}

Card == [there : BOOLEAN, slug : BOOLEAN, featured : BOOLEAN, connected : SUBSET Connections]

\* Seekers are suspended with two columns.
Seat == [active : BOOLEAN, suspended : BOOLEAN]

Mark == {"none", "kept", "archived"}

Keeping == [op : {"suspend", "reactivate", "mark", "unmark"}, seat : Seat, found : Mark]
NotKeeping == [op |-> "idle"]

DirectoryTypeOK ==
    /\ AccountTypeOK
    /\ card \in Card /\ (~card.there => ~card.slug /\ ~card.featured /\ card.connected = {})
    /\ proven \subseteq {"advisor", "seeker"}
    /\ seat \in Seat /\ bookmark \in Mark /\ suggested \in BOOLEAN
    /\ \A p \in Clerks : keeping[p] = NotKeeping \/ keeping[p] \in Keeping

DirectoryInit ==
    /\ AccountInit
    /\ card = [there |-> FALSE, slug |-> FALSE, featured |-> FALSE, connected |-> {}]
    /\ proven = {} /\ seat = [active |-> TRUE, suspended |-> FALSE]
    /\ bookmark = "none" /\ suggested = FALSE
    /\ keeping = [p \in Clerks |-> NotKeeping]

-----------------------------------------------------------------------------
\* The marketplace

\* apply_integrations_ready_filter, is_integrations_ready
IntegrationsReady ==
    card.there /\ "stripe" \in card.connected /\ (ZoomAsked => "zoom" \in card.connected)

\* build_search_stmt, without filters
OnMarket == advisor.active /\ advisor.status = "approved" /\ IntegrationsReady

\* list_featured_advisors
ListedFeatured == OnMarket /\ card.featured

\* get_advisor_public_profile
ProfileOpens == advisor.active /\ advisor.status = "approved" /\ IntegrationsReady

\* get_advisor_by_slug
SlugOpens == card.slug /\ advisor.active /\ advisor.status = "approved" /\ IntegrationsReady

\* list_advisors(recommended): what is saved, as far as the marketplace has it
ListedRecommended == suggested /\ OnMarket

\* is_bookmarked, bookmarked_advisor_ids
is_bookmarked == bookmark = "kept"

\* build_listing_card
ListingCard == [featured |-> card.featured, link |-> card.slug, marked |-> is_bookmarked]

\* Mutation: an advisor can be bookmarked who cannot be booked.
BookmarkableUnready == advisor.active /\ ~advisor.suspended /\ advisor.status = "approved"

\* _require_approved_advisor
Bookmarkable ==
    advisor.active /\ ~advisor.suspended /\ advisor.status = "approved" /\ IntegrationsReady

\* list_for_seeker_stmt: nothing is asked of the account.
ListedBookmark == bookmark = "kept" /\ IntegrationsReady

\* _advisor_status
BookmarkStatus ==
    IF advisor.active /\ ~advisor.suspended /\ advisor.status = "approved" THEN "active"
    ELSE "inactive"

-----------------------------------------------------------------------------
\* The administrators' lists

\* compute_status of the advisor's account, and of the seeker's
AccountStatus(who) ==
    CASE who = "advisor" /\ (\/ advisor.suspended \/ advisor.status = "suspended"
                             \/ ~advisor.active /\ advisor.status \notin Onboarding) -> "suspended"
      [] who = "seeker" /\ (seat.suspended \/ ~seat.active) -> "suspended"
      [] OTHER -> IF who \in proven THEN "verified" ELSE "unverified"

\* list_users_stmt
UsersWith(status) ==
    {who \in {"advisor", "seeker"} :
        LET suspended  == IF who = "advisor" THEN advisor.suspended ELSE seat.suspended
            verdict_is == who = "advisor" /\ advisor.status = "suspended"
            onboarding == who = "advisor" /\ advisor.status \in Onboarding
            active     == IF who = "advisor" THEN advisor.active ELSE seat.active
        IN CASE status = "suspended"  -> suspended \/ verdict_is \/ (~active /\ ~onboarding)
             [] status = "unverified" ->
                  ~suspended /\ ~verdict_is /\ who \notin proven /\ (active \/ onboarding)
             [] status = "verified"   ->
                  ~suspended /\ ~verdict_is /\ who \in proven /\ (active \/ onboarding)}

\* list_seekers_stmt
SeekersWith(status) ==
    CASE status = "suspended"  -> seat.suspended
      [] status = "unverified" -> ~seat.suspended /\ seat.active /\ "seeker" \notin proven
      [] status = "verified"   -> ~seat.suspended /\ seat.active /\ "seeker" \in proven

\* list_advisors_stmt
AdvisorsWith(status) == advisor.status = status

\* advisor_display_status
DisplayStatus ==
    IF advisor.suspended \/ advisor.status = "suspended" THEN "suspended" ELSE advisor.status

\* build_list_read of the queue, and the panel that opens from it: deleted documents count.
QueueRow == Cardinality({d \in Credentials : credential[d] = "pending"})

\* get_advisor_detail: they do not.
DetailPending == Cardinality({d \in Credentials \ archived : credential[d] = "pending"})

\* impersonate
MayImpersonate == advisor.active \/ advisor.status \in Onboarding

-----------------------------------------------------------------------------
\* What changes the accounts

\* A request of AdvisorAccount: verify_account confirms the address as well, the onboarding
\* gives the profile its slug.
AccountWork ==
    \/ \E p \in Clerks :
         \/ /\ AdminCommit(p)
            /\ proven' = IF task[p].op = "verify" THEN proven \cup {"advisor"} ELSE proven
            /\ UNCHANGED card
         \/ /\ OnboardCommit(p)
            /\ card' = [card EXCEPT !.there = TRUE, !.slug = TRUE]
            /\ UNCHANGED proven
         \/ /\ \/ \E op \in TaskOp : AdminReads(p, op)
               \/ \E d \in Credentials, s \in CredentialStatus : ReadCredential(p, d, s)
               \/ \E d \in Credentials : CreateCredential(p, d)
               \/ Onboard(p) \/ ListCredentials(p) \/ ReviewCommit(p) \/ AccountRollBack(p)
            /\ UNCHANGED <<card, proven>>
    \/ (\E d \in Credentials : DeleteCredential(d)) /\ UNCHANGED <<card, proven>>

CardTo(new) ==
    /\ card' = new
    /\ UNCHANGED <<accountVars, proven, seat, bookmark, suggested, keeping>>

\* update_my_advisor_profile
EditProfile == MayCall /\ CardTo([card EXCEPT !.there = TRUE, !.slug = TRUE])

\* What comes of AdvisorConnections: an advisor connects; the connection may end by itself.
Connect(c) == MayCall /\ CardTo([card EXCEPT !.there = TRUE, !.connected = @ \cup {c}])
Disconnect(c) == CardTo([card EXCEPT !.connected = @ \ {c}])

\* update_advisor_featured
Feature(flag) == CardTo([card EXCEPT !.there = TRUE, !.featured = flag])

\* verify_email, verify_account of a seeker
ConfirmAddress(who) ==
    /\ proven' = proven \cup {who}
    /\ UNCHANGED <<accountVars, card, seat, bookmark, suggested, keeping>>

\* unverify_account
Unverify(who) ==
    /\ IF who = "advisor" THEN ~advisor.suspended ELSE ~seat.suspended
    /\ proven' = proven \ {who}
    /\ UNCHANGED <<accountVars, card, seat, bookmark, suggested, keeping>>

\* ensure_for_seeker: saved suggestions are served as they are, and new ones come from the
\* advisors in the marketplace.
Suggest ==
    /\ seat.active /\ ~suggested
    /\ suggested' = OnMarket
    /\ UNCHANGED <<accountVars, card, proven, seat, bookmark, keeping>>

\* clear_for_seeker, when the seeker's plans change
ForgetSuggestion ==
    /\ suggested' = FALSE
    /\ UNCHANGED <<accountVars, card, proven, seat, bookmark, keeping>>

-----------------------------------------------------------------------------
\* Requests on the seeker's account, and the seeker's own on the bookmark

Keep(p, op) ==
    /\ keeping[p] = NotKeeping
    /\ op \in {"mark", "unmark"} => seat.active
    /\ op = "mark" => Bookmarkable /\ bookmark # "kept"
    /\ op = "unmark" => bookmark = "kept"
    /\ keeping' = [keeping EXCEPT ![p] = [op |-> op, seat |-> seat, found |-> bookmark]]
    /\ UNCHANGED <<accountVars, card, proven, seat, bookmark, suggested>>

\* suspend_account, reactivate_account
SeatAfter(op) == [active |-> op = "reactivate", suspended |-> op = "suspend"]

SeatCommit(p) ==
    /\ keeping[p].op \in {"suspend", "reactivate"}
    /\ seat' = Flush(seat, keeping[p].seat, SeatAfter(keeping[p].op))
    /\ keeping' = [keeping EXCEPT ![p] = NotKeeping]
    /\ UNCHANGED <<accountVars, card, proven, bookmark, suggested>>

\* create inserts a row or takes the archived one back: of two insertions the unique
\* constraint refuses the second.  delete archives.
MarkCommit(p) ==
    /\ keeping[p].op \in {"mark", "unmark"}
    /\ bookmark' = IF keeping[p].op = "mark" THEN "kept" ELSE "archived"
    /\ keeping[p].op = "mark" /\ keeping[p].found = "none" => bookmark = "none"
    /\ keeping' = [keeping EXCEPT ![p] = NotKeeping]
    /\ UNCHANGED <<accountVars, card, proven, seat, suggested>>

KeepRollBack(p) ==
    /\ keeping[p] # NotKeeping
    /\ keeping' = [keeping EXCEPT ![p] = NotKeeping]
    /\ UNCHANGED <<accountVars, card, proven, seat, bookmark, suggested>>

DirectoryNext ==
    \/ AccountWork /\ UNCHANGED <<seat, bookmark, suggested, keeping>>
    \/ EditProfile \/ Suggest \/ ForgetSuggestion
    \/ \E c \in Connections : Connect(c) \/ Disconnect(c)
    \/ \E flag \in BOOLEAN : Feature(flag)
    \/ \E who \in {"advisor", "seeker"} : ConfirmAddress(who) \/ Unverify(who)
    \/ \E p \in Clerks :
          \/ \E op \in {"suspend", "reactivate", "mark", "unmark"} : Keep(p, op)
          \/ SeatCommit(p) \/ MarkCommit(p) \/ KeepRollBack(p)

DirectorySpec == DirectoryInit /\ [][DirectoryNext]_directoryVars

-----------------------------------------------------------------------------
\* Properties

\* Everyone in the marketplace, among the featured or the suggested ones can be opened, by the
\* name in the link as well, and answers: nobody is listed who could not call the service.
ListedOpens ==
    /\ ListedFeatured \/ ListedRecommended \/ Bookmarkable => OnMarket
    /\ OnMarket <=> ProfileOpens
    /\ OnMarket /\ ListingCard.link <=> SlugOpens
    /\ OnMarket => Serves

\* A suspension takes the advisor out of every list of the seekers, unless two requests mixed
\* their writes; then the lists and the bookmark may say different things of the account.
SuspendedHidden ==
    ~blurred => /\ advisor.suspended => ~OnMarket /\ ~Bookmarkable /\ BookmarkStatus = "inactive"
                /\ OnMarket => BookmarkStatus = "active" /\ AccountStatus("advisor") # "suspended"

\* A bookmark of a listed advisor is in the list of bookmarks, there and on the card; one
\* that is shown as active can be opened.
BookmarksTrue ==
    /\ OnMarket => (ListingCard.marked <=> ListedBookmark)
    /\ ListedBookmark /\ BookmarkStatus = "active" => ProfileOpens

\* Every account is found by the filter of the status it shows, and by no other, whatever
\* was written beside each other.  The list of advisors filters by something else than it
\* shows only when a suspended advisor was judged anew, and not approved, or the row is mixed.
FiltersTrue ==
    /\ \A who \in {"advisor", "seeker"}, s \in {"suspended", "unverified", "verified"} :
          who \in UsersWith(s) <=> AccountStatus(who) = s
    /\ \A s \in {"suspended", "unverified", "verified"} :
          SeekersWith(s) <=> AccountStatus("seeker") = s
    /\ ~blurred /\ ~AdvisorsWith(DisplayStatus) => verdict \notin {"approved", "none"}
    /\ seat.suspended <=> ~seat.active

\* Who is in the queue has documents in its row; the detail page counts fewer only when some
\* were deleted.  Acting for an advisor works if the advisor was not rejected.
QueueTrue ==
    /\ InQueue => QueueRow > 0
    /\ DetailPending <= QueueRow /\ (archived = {} => DetailPending = QueueRow)
    /\ advisor.status # "rejected" => (MayImpersonate <=> MayCall)

\* The lists and pages say of an account the same, whatever becomes of it.
DirectoryTrue == ListedOpens /\ SuspendedHidden /\ BookmarksTrue /\ FiltersTrue /\ QueueTrue

=============================================================================
