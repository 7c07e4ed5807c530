----------------------------- MODULE MCRecords ------------------------------
(* The components that keep records and share no state with one another, on   *)
(* small instances.  A behaviour takes place in one scene, which says which   *)
(* component is at work, which of its operations and on how much of it, so    *)
(* that a run adds the instances up instead of multiplying them.              *)
EXTENDS AuthSessions, AdvisorAccount, PayoutRequests, CountryRules, DeviceTokens, SeekerDocuments,
        Reviews, Conversations, SupportTickets, DocumentScreens, PlatformFigures, Directory,
        SequencesExt

CONSTANTS p1, p2, t1, t2, t3, l1, l2, l3, c1, c2, x1, x2, x3, e1, e2, r1, r2, u1, u2, f1, f2, f3,
          a1, a2, d1, d2, y1, y2

VARIABLE scene

\* The requests are alike.
Symmetry == Permutations({p1, p2})

\* So are the rows of most components: they are taken in a fixed order.
InOrder(taken, order, limit) ==
    \E n \in 0 .. limit : taken = {order[i] : i \in 1 .. n}

\* Each document of the portfolio is of a category of its own.
SampleCategory == d1 :> y1 @@ d2 :> y2

Busy(requests, idle) == Cardinality({p \in DOMAIN requests : requests[p] # idle})

-----------------------------------------------------------------------------
AuthBy(menu, callers, tokens, links, changes) ==
    /\ AuthNext
    /\ \A p \in Callers : call'[p].op \in menu \cup {"idle"}
    /\ Busy(call', NoCall) <= callers
    /\ InOrder({t \in Tokens : refresh'[t].state # "absent"}, <<t1, t2, t3>>, tokens)
    /\ InOrder({l \in Links : link'[l].state # "absent"}, <<l1, l2, l3>>, links)
    /\ changes \/ ~(AccountChanges \/ Lapse)

AuthStep ==
    \/ scene = "sessions" /\ AuthBy({"login", "refresh", "password"}, 2, 3, 0, FALSE)
    \/ scene = "links"    /\ AuthBy({"resend", "forgot", "reset", "verify"}, 2, 0, 3, FALSE)
    \/ scene = "account"  /\ AuthBy(AuthOp, 1, 1, 1, TRUE)

-----------------------------------------------------------------------------
AccountBy(menu, clerks, credentials) ==
    /\ AccountNext /\ UNCHANGED shelf
    /\ \A p \in Clerks : task'[p].op \in menu \cup {"idle"}
    /\ Busy(task', NoTask) <= clerks
    /\ InOrder({d \in Credentials : credential'[d] # "absent"}, <<c1, c2>>, credentials)

AccountStep ==
    \/ scene = "standing" /\ AccountBy({"suspend", "reactivate", "approved"}, 2, 0)
    \/ scene = "rulings"  /\ AccountBy({"suspend", "approved", "rejected"}, 2, 0)
    \/ scene = "papers"   /\ AccountBy({"approved", "under_review", "verify_all", "review"}, 2, 1)
    \/ scene = "folder"   /\ AccountBy({"approved", "under_review", "review", "onboard"}, 1, 2)
    \/ scene = "advisor"  /\ AccountBy(TaskOp, 1, 1)

\* The same account, with whatever shows it
DirectoryBy(clerks, tasks, keepers, work) ==
    /\ DirectoryNext
    /\ Busy(task', NoTask) <= clerks /\ Busy(keeping', NotKeeping) <= keepers
    /\ \A p \in Clerks : task'[p].op \in tasks \cup {"idle"} /\ keeping'[p].op \in work \cup {"idle"}
    /\ credential'[c2] = "absent"

Paperless == credential' = credential

DirectoryStep ==
    \/ /\ scene = "market" /\ DirectoryBy(2, {"suspend", "reactivate", "approved"}, 0, {})
       /\ Paperless /\ UNCHANGED proven
       /\ card'.connected \in {{}, Connections} /\ (card'.there => card'.slug)
    \/ /\ scene = "marks" /\ DirectoryBy(1, {"suspend", "approved"}, 2, {"mark", "unmark", "suspend"})
       /\ Paperless /\ UNCHANGED proven /\ ~card'.featured /\ ~card'.slug
    \/ /\ scene = "users" /\ DirectoryBy(1, AccountOps \cup {"rejected", "verify"}, 1, {"suspend"})
       /\ Paperless /\ UNCHANGED card /\ proven' \subseteq {"advisor"}
    \/ scene = "seats" /\ DirectoryBy(0, {}, 2, {"suspend", "reactivate"}) /\ UNCHANGED card
    \/ /\ scene = "queue"
       /\ DirectoryBy(1, {"approved", "under_review", "onboard", "review"}, 0, {})
       /\ UNCHANGED proven /\ card'.connected = {} /\ ~card'.featured

-----------------------------------------------------------------------------
PayoutBy(callers, payouts) ==
    /\ PayoutNext
    /\ Busy(errand', NoErrand) <= callers
    /\ InOrder({x \in Payouts : payout'[x].status # "absent"}, <<x1, x2, x3>>, payouts)
    /\ InOrder(everPaid', <<e1, e2>>, 2)

PayoutStep ==
    \/ scene = "payouts" /\ PayoutBy(2, 2)
    \/ scene = "balance" /\ PayoutBy(1, 3)

CountryBy(menu, desks, rules) ==
    /\ CountryNext
    /\ \A c \in Desks : desk'[c].op \in menu \cup {"idle"}
    /\ Busy(desk', NoDesk) <= desks
    /\ InOrder({r \in Rules : rule'[r].status # "absent"}, <<r1, r2>>, rules)

CountryStep ==
    \/ scene = "drafting" /\ CountryBy({"draft", "publish", "delete"}, 2, 2)
    \/ scene = "editing"  /\ CountryBy(DeskOps \cup {"draft"}, 2, 1)
    \/ scene = "policies" /\ CountryBy(DeskOps \cup {"draft"}, 1, 2)

DeviceBy(visits, owners) ==
    /\ DeviceNext
    /\ Busy(visit', Idle) <= visits
    /\ \A d \in Devices : owner'[d] \in owners \cup {Nobody}
    /\ \A v \in Registrations : visit'[v] # Idle => visit'[v].user \in owners

DeviceStep ==
    \/ scene = "devices"  /\ DeviceBy(2, {u1})
    \/ scene = "handover" /\ DeviceBy(1, {u1, u2})

-----------------------------------------------------------------------------
DocumentBy(menu, callers, advisors, uploads, dates, steps) ==
    /\ DocumentNext /\ UNCHANGED remarkVars /\ portfolio'[d2] = Absent
    /\ \A p \in PaperCalls : paper'[p].op \in menu \cup {"idle"}
    /\ Busy(paper', NoPaper) <= callers
    /\ \A d \in Documents, a \in Advisors \ advisors : opinion'[d][a] = NoOpinion
    /\ \A p \in PaperCalls : paper'[p].op = "review" => paper'[p].advisor \in advisors
    /\ InOrder(used', <<f1, f2, f3>>, uploads)
    /\ \A d \in Documents : portfolio'[d] # Absent => portfolio'[d].expiry \in dates
    /\ clock' <= steps

\* Nobody deletes a file, neither the seeker nor a sweep nor a replacement that is lost.
Tidy == ~sweeping'.running /\ dropped' = dropped

DocumentStep ==
    \/ scene = "verdicts" /\ DocumentBy({"update", "review"}, 2, {a1}, 2, {"none"}, 0) /\ Tidy
    \/ scene = "opinions" /\ DocumentBy({"update", "review"}, 1, {a1, a2}, 2, {"none"}, 1) /\ Tidy
    \/ scene = "expiry"   /\ DocumentBy({"update", "verdict", "review"}, 1, {a1}, 2, Expiry, 0) /\ Tidy
    \/ scene = "rivals"   /\ DocumentBy({"update"}, 2, {}, 3, {"none"}, 0) /\ ~sweeping'.running
    \/ scene = "files"    /\ DocumentBy({"update", "archive", "comments"}, 1, {}, 3, {"none"}, 0)

\* The same portfolio, with what is shown of it
FolderBy(kept, advisors, dates, comments) ==
    /\ FolderNext
    /\ \A d \in Documents \ kept : portfolio'[d] = Absent
    /\ \A d \in Documents :
          portfolio'[d] # Absent => portfolio'[d].expiry \in dates /\ portfolio'[d].file # f3
    /\ \A d \in Documents, a \in Advisors \ advisors : opinion'[d][a] = NoOpinion
    /\ Len(remarks') <= comments
    /\ clock' <= 1

FolderStep ==
    \/ /\ scene = "checklist" /\ FolderBy({d1, d2}, {a1}, {"none"}, 0)
       /\ byHand' = {} /\ clock' = 0
       /\ \A d \in Documents :
             portfolio'[d] # Absent => ~portfolio'[d].archived /\ portfolio'[d].status # "expired"
    \/ scene = "customers" /\ FolderBy({d1}, {a1, a2}, {"none"}, 0)
    \/ scene = "dates"     /\ FolderBy({d1}, {a1}, Expiry, 0)
    \/ /\ scene = "remarks" /\ FolderBy({d1}, {a1}, {"none"}, 3) /\ opinion' = opinion
       /\ portfolio'[d1] # Absent => portfolio'[d1].file = f1 /\ portfolio'[d1].status = "under_review"

-----------------------------------------------------------------------------
ChatBy(menu, chatters, messages) ==
    /\ ChatNext
    /\ \A p \in Chatters : chat'[p].op \in menu \cup {"idle"}
    /\ Busy(chat', NoChat) <= chatters
    /\ begun' <= messages

ChatStep ==
    \/ scene = "chatting"  /\ ChatBy({"send", "delete", "edit", "read"}, 2, 2)
    \/ scene = "thread"    /\ ChatBy({"send", "delete"}, 2, 3)
    \/ scene = "moderated" /\ ChatBy({"send", "delete"} \cup ModerationOps, 2, 2)

-----------------------------------------------------------------------------
AccountScenes   == {"standing", "rulings", "papers", "folder", "advisor"}
DirectoryScenes == {"market", "marks", "users", "seats", "queue"}
DocumentScenes  == {"verdicts", "opinions", "expiry", "rivals", "files"}
FolderScenes    == {"checklist", "customers", "dates", "remarks"}

Scenes == AccountScenes \cup DirectoryScenes \cup DocumentScenes \cup FolderScenes \cup
          {"sessions", "links", "account", "payouts", "balance", "drafting", "editing", "policies",
           "devices", "handover", "reviews", "chatting", "thread", "moderated", "tickets", "figures"}

\* An advisor's account starts unverified, a seeker's may be anything; the platform has its
\* founders in their scene only.
MCInit ==
    /\ AuthInit /\ DirectoryInit /\ PayoutInit /\ CountryInit /\ DeviceInit
    /\ ReviewInit /\ ChatInit /\ TicketInit /\ FiguresInit
    /\ scene \in Scenes
    /\ IF scene \in FolderScenes THEN FolderInit ELSE DocumentInit /\ NoRemarks
    /\ scene \notin {"sessions", "links", "account"} => account = NewAccount
    /\ scene # "figures" => people = <<>>

recordVars == <<authVars, directoryVars, payoutVars, countryVars, deviceVars, documentVars,
                remarkVars, reviewVars, chatVars, ticketVars, figureVars, scene>>

MCNext ==
    /\ UNCHANGED scene
    /\ IF scene \in {"sessions", "links", "account"} THEN AuthStep ELSE UNCHANGED authVars
    /\ CASE scene \in AccountScenes -> AccountStep
         [] scene \in DirectoryScenes -> DirectoryStep
         [] OTHER -> UNCHANGED directoryVars
    /\ IF scene \in {"payouts", "balance"} THEN PayoutStep ELSE UNCHANGED payoutVars
    /\ IF scene \in {"drafting", "editing", "policies"} THEN CountryStep ELSE UNCHANGED countryVars
    /\ IF scene \in {"devices", "handover"} THEN DeviceStep ELSE UNCHANGED deviceVars
    /\ CASE scene \in DocumentScenes -> DocumentStep
         [] scene \in FolderScenes -> FolderStep
         [] OTHER -> UNCHANGED <<documentVars, remarkVars>>
    /\ IF scene = "reviews" THEN ReviewNext ELSE UNCHANGED reviewVars
    /\ IF scene \in {"chatting", "thread", "moderated"} THEN ChatStep ELSE UNCHANGED chatVars
    /\ IF scene = "tickets" THEN TicketNext ELSE UNCHANGED ticketVars
    /\ IF scene = "figures" THEN FiguresNext ELSE UNCHANGED figureVars

MCSpec == MCInit /\ [][MCNext]_recordVars

-----------------------------------------------------------------------------
\* Every row, and what every request in progress has read, has its type: a token is not
\* killed twice, a payout is for an amount somebody earned, a policy is not generated again.
RecordsTypeOK ==
    /\ AuthTypeOK /\ DirectoryTypeOK /\ PayoutTypeOK /\ CountryTypeOK /\ DeviceTypeOK
    /\ DocumentTypeOK /\ FolderTypeOK /\ ReviewTypeOK /\ ChatTypeOK /\ TicketTypeOK /\ FiguresTypeOK

\* Where the requests on a portfolio run one after another, its screens agree.
FoldersShown == scene \in FolderScenes => PortfolioShown

\* The lists and the figures are looked at in their scenes, where there is something in them:
\* who is shown to whom,
PeopleShown == scene \in DirectoryScenes => DirectoryTrue

\* and the administrators' dashboards.
FiguresShown == scene = "figures" => FiguresAgree

\* What an administrator has moderated is out of the listing of reviews and out of the
\* order of the conversations alike, for as long as the decision stands.
ModerationStands == RemovedHidden /\ NewestListed

=============================================================================
