---------------------------- MODULE DocumentScreens ----------------------------
(* What the seeker, the advisors and the administrators are shown of a        *)
(* portfolio: the status each of them sees, the tallies and the checklist,    *)
(* the table of customers with its filter, and the comments with the dot of   *)
(* what is unread (seeker_document_service, api/v1/seeker_profiles,           *)
(* api/v1/advisors, api/v1/admin).  The requests run one after another here;  *)
(* SeekerDocuments has them interleaved.  A comment alone is written in two   *)
(* steps, since its time is that of the beginning of its transaction.         *)
EXTENDS SeekerDocuments, FiniteSets, Sequences

CONSTANTS
    Categories,  \* REQUIRED_CHECKLIST
    CategoryOf,  \* of each document
    Given,    \* statuses the reviewers give
    MaxRemarks   \* bound: comments

ASSUME CategoryAssumption == CategoryOf \in [Documents -> Categories]
ASSUME VerdictAssumption  == Given \subseteq DocumentStatus
ASSUME FolderAssumption   == IsFiniteSet(Documents) /\ IsFiniteSet(Categories)

VARIABLES
    remarks,     \* the comments, in the order in which their transactions begin
    lastRead,    \* comments_last_read_at: how many had begun when the seeker read them
    looked,      \* history: comments that were there when the seeker read them
    overlooked,  \* history: comments that were on their way then
    byHand       \* history: documents that an administrator has marked as expired

remarkVars == <<remarks, lastRead, looked, overlooked, byHand>>
folderVars == <<portfolio, opinion, clock, remarkVars>>
shelfVars  == <<stored, recent, paper, sweeping, used, dropped, unseen>>

Remark == [document : Documents, by : Advisors \cup {"seeker"}, there : BOOLEAN]

FolderTypeOK ==
    /\ \A i \in DOMAIN remarks : remarks[i] \in Remark
    /\ lastRead \in [Documents -> 0 .. Len(remarks)]
    /\ looked \cup overlooked \subseteq DOMAIN remarks /\ byHand \subseteq Documents

\* Nothing was said of the portfolio yet.
NoRemarks ==
    /\ remarks = <<>>
    /\ lastRead = [d \in Documents |-> 0]
    /\ looked = {} /\ overlooked = {} /\ byHand = {}

\* A seeker that has put files into the storage
FolderInit ==
    /\ portfolio = [d \in Documents |-> Absent]
    /\ opinion = [d \in Documents |-> [a \in Advisors |-> NoOpinion]]
    /\ stored = Uploads /\ recent = {} /\ used = Uploads
    /\ clock = 0
    /\ paper = [p \in PaperCalls |-> NoPaper]
    /\ sweeping = [running |-> FALSE, found |-> {}]
    /\ dropped = {} /\ unseen = {}
    /\ NoRemarks

-----------------------------------------------------------------------------
\* The requests, as wholes

\* What a request that is to write a document has read: those that lapsed are refreshed.
Fresh ==
    [d \in Documents |->
        IF Active(d) /\ Refreshed(portfolio[d]) # portfolio[d]
        THEN [Refreshed(portfolio[d]) EXCEPT !.updated = clock] ELSE portfolio[d]]

Write(d, row) == portfolio' = [Fresh EXCEPT ![d] = [row EXCEPT !.updated = clock]]

Add(d, expiry) ==
    /\ portfolio[d] = Absent /\ expiry \in {"none", "ahead"}
    /\ \E f \in used \ Files :
          portfolio' = [portfolio EXCEPT ![d] =
                          [status |-> "under_review", expiry |-> expiry, file |-> f, by |-> NoAdvisor,
                           archived |-> FALSE, updated |-> clock]]
    /\ UNCHANGED <<opinion, clock, remarkVars, shelfVars>>

\* Another date, or another file in the place of the one that was there.  Files are not told
\* apart here.
Update(d, expiry, another) ==
    LET row == Fresh[d]
        f == IF another THEN row.file ELSE NoUpload
    IN  /\ Active(d) /\ (another \/ expiry # "kept")
        /\ Write(d, Amended(row, expiry, f))
        /\ opinion' = IF Clears(row, expiry, f)
                      THEN [opinion EXCEPT ![d] = [a \in Advisors |-> NoOpinion]] ELSE opinion
        /\ UNCHANGED <<clock, remarkVars, shelfVars>>

Archive(d) ==
    /\ Active(d)
    /\ Write(d, [Fresh[d] EXCEPT !.archived = TRUE, !.by = NoAdvisor])
    /\ UNCHANGED <<opinion, clock, remarkVars, shelfVars>>

\* review_seeker_document_admin
SetStatus(d, status) ==
    /\ Active(d)
    /\ Write(d, [Fresh[d] EXCEPT !.status = status, !.by = NoAdvisor])
    /\ byHand' = IF status = "expired" THEN byHand \cup {d} ELSE byHand
    /\ UNCHANGED <<opinion, clock, remarks, lastRead, looked, overlooked, shelfVars>>

\* review_client_document
Judge(d, a, status) ==
    /\ Active(d)
    /\ status # EffectiveStatus(Fresh[d], opinion[d][a]) /\ ~Completes(a)
    /\ IF status = "under_review"
       THEN /\ opinion' = [opinion EXCEPT ![d] = [b \in Advisors |-> NoOpinion]]
            /\ portfolio' = Fresh
       ELSE /\ opinion' = [opinion EXCEPT ![d][a] =
                             [status |-> status, reviewed |-> clock, file |-> Fresh[d].file]]
            /\ IF Fresh[d].by = a THEN portfolio' = Fresh ELSE Write(d, [Fresh[d] EXCEPT !.by = a])
    /\ UNCHANGED <<clock, remarkVars, shelfVars>>

\* add_comment: the transaction begins ...
BeginRemark(d, by) ==
    /\ Active(d) /\ Len(remarks) < MaxRemarks
    /\ remarks' = Append(remarks, [document |-> d, by |-> by, there |-> FALSE])
    /\ UNCHANGED <<portfolio, opinion, clock, lastRead, looked, overlooked, byHand, shelfVars>>

\* ... and commits.
CommitRemark(i) ==
    /\ ~remarks[i].there
    /\ remarks' = [remarks EXCEPT ![i].there = TRUE]
    /\ UNCHANGED <<portfolio, opinion, clock, lastRead, looked, overlooked, byHand, shelfVars>>

\* mark_comments_read: the document's row is written, as if it were amended.
OpenComments(d) ==
    /\ Active(d)
    /\ Write(d, [Fresh[d] EXCEPT !.by = NoAdvisor])
    /\ lastRead' = [lastRead EXCEPT ![d] = Len(remarks)]
    /\ looked' = looked \cup {i \in DOMAIN remarks : remarks[i].document = d /\ remarks[i].there}
    /\ overlooked' = (overlooked \cup {i \in DOMAIN remarks : remarks[i].document = d}) \ looked'
    /\ UNCHANGED <<opinion, clock, remarks, byHand, shelfVars>>

LaterOn == (ListDocuments \/ Tick \/ \E d \in Documents : DayPasses(d)) /\ UNCHANGED remarkVars

FolderNext ==
    \/ \E d \in Documents :
          \/ \E expiry \in Expiry : Add(d, expiry)
          \/ \E expiry \in {"kept", "clear", "set"}, another \in BOOLEAN : Update(d, expiry, another)
          \/ \E status \in Given : SetStatus(d, status) \/ \E a \in Advisors : Judge(d, a, status)
          \/ \E by \in Advisors \cup {"seeker"} : BeginRemark(d, by)
          \/ Archive(d) \/ OpenComments(d)
    \/ \E i \in DOMAIN remarks : CommitRemark(i)
    \/ LaterOn

FolderSpec == FolderInit /\ [][FolderNext]_<<documentVars, remarkVars>>

-----------------------------------------------------------------------------
\* What is shown

\* list_by_seeker_stmt, in the list of a status: it asks for the status of the row.
list_by_seeker(status) == {d \in Documents : Active(d) /\ Fresh[d].status \in status}

ListedDocuments == list_by_seeker(DocumentStatus)

\* Mutation: verdicts that are older than the document count as well.
AllReviews(d) == {a \in Advisors : opinion[d][a] # NoOpinion}

\* reviews_by_document, those that count
ActiveReviews(d) == {a \in Advisors : opinion[d][a] # NoOpinion /\ ~Outdated(Fresh[d], opinion[d][a])}

\* seeker_effective_status: the worst that any advisor has said
seeker_effective_status(d) ==
    LET said == {opinion[d][a].status : a \in ActiveReviews(d)} IN
    CASE Fresh[d].status = "expired" -> "expired"
      [] Fresh[d].status # "expired" /\ "rejected" \in said -> "rejected"
      [] Fresh[d].status # "expired" /\ "rejected" \notin said /\ "approved" \in said -> "approved"
      [] OTHER -> "under_review"

\* _latest_review: whose name stands beside the status.  An administrator's, which is shown
\* where no advisor has given a verdict, is left out.
LatestReviewers(d) ==
    {a \in Advisors : /\ opinion[d][a] # NoOpinion
                      /\ \A b \in Advisors : opinion[d][b] # NoOpinion
                                                => opinion[d][b].reviewed <= opinion[d][a].reviewed}

\* unread_comment_flags
HasUnread(d) ==
    \E i \in DOMAIN remarks : /\ remarks[i].document = d /\ remarks[i].there
                              /\ remarks[i].by # "seeker" /\ i > lastRead[d]

comments_count(d) == Cardinality({i \in DOMAIN remarks : remarks[i].document = d /\ remarks[i].there})

\* build_reads, for the seeker and for the administrators
SeekerRead(d) ==
    [status |-> seeker_effective_status(d), reviewed_by |-> LatestReviewers(d),
     comments |-> comments_count(d), unread |-> HasUnread(d)]

\* build_reads, for one advisor
AdvisorRead(d, a) ==
    [status |-> EffectiveStatus(Fresh[d], opinion[d][a]),
     reviewed_by |-> IF opinion[d][a] = NoOpinion THEN {} ELSE {a},
     comments |-> comments_count(d), unread |-> FALSE]

\* The best that can be said of a category: _checklist_status_for_docs
ChecklistStatus(c) ==
    LET shown == {seeker_effective_status(d) : d \in {e \in ListedDocuments : CategoryOf[e] = c}} IN
    IF shown = {} THEN "missing"
    ELSE CHOOSE s \in shown :
           \/ s = "approved"
           \/ s = "under_review" /\ "approved" \notin shown
           \/ s = "rejected" /\ shown \cap {"approved", "under_review"} = {}
           \/ s = "expired" /\ shown = {"expired"}

\* _expiring_soon_docs: whatever status the row has
ExpiringSoon == {d \in ListedDocuments : Fresh[d].expiry \in {"ahead", "today"}}

\* portfolio_summary
Tally(status) == Cardinality({d \in ListedDocuments : seeker_effective_status(d) = status})

portfolio_summary ==
    LET missing == Cardinality({c \in Categories : ChecklistStatus(c) = "missing"}) IN
    [total |-> Cardinality(ListedDocuments), approved |-> Tally("approved"),
     under_review |-> Tally("under_review"), rejected |-> Tally("rejected"), missing |-> missing,
     filled |-> Cardinality(Categories) - missing]

\* build_customer_document_rows: the statuses are not refreshed.
TableTally(a, status) == Cardinality({d \in Documents : Active(d) /\ Effective(d, a) \in status})

\* _row_documents_status
RowStatus(a) ==
    LET count == TableTally(a, DocumentStatus) IN
    IF count > 0 /\ TableTally(a, {"under_review"}) = 0 /\ TableTally(a, {"rejected"}) = count
    THEN "rejected"
    ELSE IF count > 0 /\ TableTally(a, {"approved"}) = count THEN "completed"
    ELSE "pending"

\* A verdict of the advisor, whether it is outdated or not
HasVerdict(d, a, status) == opinion[d][a].status = status

AllSaid(a, status) ==
    /\ \E d \in Documents : Active(d)
    /\ \A d \in Documents : Active(d) => portfolio[d].status # "expired" /\ HasVerdict(d, a, status)

portfolio_completed_clause(a) == AllSaid(a, "approved")
portfolio_rejected_clause(a) == AllSaid(a, "rejected")

\* list_customer_documents_stmt: whether the filter lists the row
Lists(a, filter) ==
    CASE filter = "completed" -> portfolio_completed_clause(a)
      [] filter = "rejected"  -> portfolio_rejected_clause(a)
      [] filter = "pending"   -> ~portfolio_completed_clause(a) /\ ~portfolio_rejected_clause(a)

\* build_customer_document_rows, and the page of the table
CustomerRow(a) == [documents_count |-> TableTally(a, DocumentStatus), documents_status |-> RowStatus(a)]

list_customer_documents(a, filter) == {row \in {CustomerRow(a)} : Lists(a, filter)}

-----------------------------------------------------------------------------
\* Properties

\* The seeker is shown an approval or a rejection exactly when an advisor is shown the same of
\* that document, a rejection before an approval, and the name beside it is an advisor's that
\* has given a verdict.
SeekerSeesAdvisors ==
    \A d \in ListedDocuments :
        LET advisors == {AdvisorRead(d, a).status : a \in Advisors}
            shown == SeekerRead(d).status IN
        /\ shown = "rejected" <=> "rejected" \in advisors
        /\ shown = "approved" <=> "approved" \in advisors /\ "rejected" \notin advisors
        /\ shown = "expired" => advisors \subseteq {"expired"}
        /\ shown \in {"approved", "rejected"} => SeekerRead(d).reviewed_by # {}

OutdatedFor(a) == \E d \in Documents : /\ Active(d) /\ opinion[d][a] # NoOpinion
                                       /\ Outdated(portfolio[d], opinion[d][a])

\* The table of customers lists a portfolio under the status it shows, unless one of the
\* advisor's verdicts is older than its document, and a portfolio is shown as completed
\* exactly when it is locked for the advisor, unless a document has lapsed since.  Some page
\* always lists it.
TableAgrees ==
    \A a \in Advisors :
        /\ \A filter \in {"pending", "completed", "rejected"} :
              \A row \in list_customer_documents(a, filter) :
                  row.documents_status = filter \/ OutdatedFor(a)
        /\ \E filter \in {"pending", "completed", "rejected"} :
              list_customer_documents(a, filter) = {CustomerRow(a)}
        /\ (RowStatus(a) = "completed" <=> Completes(a)) \/ Fresh # portfolio

\* The tallies add up with what is expired, a category is as good as its best document, and
\* what an advisor has completed leaves nothing for the seeker that is under review, expired
\* or missing.
SummaryAddsUp ==
    LET summary == portfolio_summary IN
    /\ summary.total = summary.approved + summary.under_review + summary.rejected + Tally("expired")
    /\ summary.filled <= summary.total
    /\ summary.approved = summary.total =>
          \A c \in Categories : ChecklistStatus(c) \in {"approved", "missing"}
    /\ \A a \in Advisors : Completes(a) =>
          \A c \in Categories : ChecklistStatus(c) \in {"approved", "rejected", "missing"}

\* What is listed as expiring soon has not expired, unless an administrator says so.
ExpiringNotExpired ==
    \A d \in ExpiringSoon : seeker_effective_status(d) # "expired" \/ d \in byHand

\* A document has the dot exactly when there is a comment of somebody else that was neither
\* there nor on its way when the seeker last looked.
DotHonest ==
    \A d \in Documents :
        HasUnread(d) <=> \E i \in DOMAIN remarks \ (looked \cup overlooked) :
                            remarks[i].document = d /\ remarks[i].there /\ remarks[i].by # "seeker"

\* seeker_document_service: the seeker, each advisor and the tables are shown one portfolio,
\* whatever is replaced, judged, outdated, expired or only read.
PortfolioShown ==
    SeekerSeesAdvisors /\ TableAgrees /\ SummaryAddsUp /\ ExpiringNotExpired /\ DotHonest

=============================================================================
