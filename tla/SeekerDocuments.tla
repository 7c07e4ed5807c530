--------------------------- MODULE SeekerDocuments ---------------------------
(* The document portfolio of one seeker: uploads, replacement, expiry, the    *)
(* verdicts of the seeker's advisors and of the administrators, and the sweep *)
(* of uploads nobody refers to (seeker_document_service, api/v1/uploads,      *)
(* upload_cleanup_service, core/file_storage).                                *)
(*                                                                            *)
(* An advisor's verdict is a row of its own, which counts only while it is    *)
(* not older than the document's row.  Requests read without locks, and files *)
(* are deleted at once, whatever becomes of the transaction.                  *)
EXTENDS Naturals, UnitOfWork

CONSTANTS
    Documents,   \* documents the seeker may have
    Uploads,     \* files the seeker may upload
    NoUpload,    \* no file
    Advisors,    \* advisors with a booking of the seeker
    NoAdvisor,   \* updated_by of a row an advisor was not the last to write
    PaperCalls,  \* requests that may be in progress at once
    MaxClock     \* bound: time steps, each of more than the two seconds of tolerance

ASSUME UploadAssumption  == NoUpload \notin Uploads
ASSUME AdvisorAssumption == NoAdvisor \notin Advisors
ASSUME ClockAssumption   == MaxClock \in Nat

VARIABLES
    portfolio, \* the seeker_documents rows
    opinion,   \* the seeker_document_advisor_reviews rows
    stored,    \* the files in the storage
    recent,    \* those the sweep leaves alone for their age
    clock,     \* the time
    paper,     \* what each request in progress has read
    sweeping,  \* the files the sweep has found referenced, when it is running
    used,      \* history: the files that were uploaded
    dropped,   \* history: files deleted by their owner, by a replacement that rolled back or
               \* by a sweep that listed the documents before they were attached
    unseen     \* history: verdicts written beside a replacement of the file

remnants     == <<used, dropped, unseen>>
documentVars == <<portfolio, opinion, stored, recent, clock, paper, sweeping, remnants>>

-----------------------------------------------------------------------------
DocumentStatus == {"under_review", "approved", "rejected", "expired"}

\* expires_at against the date of today
Expiry == {"none", "ahead", "today", "past"}

Document == [status : DocumentStatus, expiry : Expiry, file : Uploads, by : Advisors \cup {NoAdvisor},
             archived : BOOLEAN, updated : 0 .. MaxClock]

Absent == [status |-> "absent"]

Opinion == [status : DocumentStatus, reviewed : 0 .. MaxClock, file : Uploads]

NoOpinion == [status |-> "none"]

\* had: the advisor's verdict was there.  cleared: the verdicts a replacement has deleted.
\* replaced, late: the file was replaced, verdicts were written since the request has read.
\* start: the time of its transaction, which updated_at gets.
Paper == [op : {"update", "archive", "comments", "verdict", "review"}, step : {"write", "cleared"},
          document : Documents, seen : Document, new : Document, lapsed : BOOLEAN,
          advisor : Advisors \cup {NoAdvisor}, status : DocumentStatus, had : BOOLEAN,
          cleared : SUBSET Advisors, replaced : BOOLEAN, late : SUBSET Advisors,
          start : 0 .. MaxClock]

NoPaper == [op |-> "idle"]

Listing == [running : BOOLEAN, found : SUBSET Uploads]

DocumentTypeOK ==
    /\ \A d \in Documents : portfolio[d] = Absent \/ portfolio[d] \in Document
    /\ \A d \in Documents, a \in Advisors : opinion[d][a] = NoOpinion \/ opinion[d][a] \in Opinion
    /\ stored \subseteq used /\ recent \subseteq used /\ used \subseteq Uploads
    /\ clock \in 0 .. MaxClock
    /\ \A p \in PaperCalls : paper[p] = NoPaper \/ paper[p] \in Paper
    /\ sweeping \in Listing
    /\ dropped \subseteq Uploads
    /\ unseen \subseteq Documents \X Advisors

DocumentInit ==
    /\ portfolio = [d \in Documents |-> Absent]
    /\ opinion = [d \in Documents |-> [a \in Advisors |-> NoOpinion]]
    /\ stored = {} /\ recent = {} /\ used = {}
    /\ clock = 0
    /\ paper = [p \in PaperCalls |-> NoPaper]
    /\ sweeping = [running |-> FALSE, found |-> {}]
    /\ dropped = {} /\ unseen = {}

-----------------------------------------------------------------------------
Active(d) == portfolio[d] # Absent /\ ~portfolio[d].archived

\* _review_stale_after_document_update
Outdated(row, verdict) == row.status = "under_review" /\ verdict.reviewed < row.updated

\* advisor_effective_status
EffectiveStatus(row, verdict) ==
    IF row.status = "expired" THEN "expired"
    ELSE IF verdict = NoOpinion \/ Outdated(row, verdict) THEN "under_review"
    ELSE verdict.status

Effective(d, a) == EffectiveStatus(portfolio[d], opinion[d][a])

\* refresh_expired_statuses, of one row.  Rejected wins.
Refreshed(row) ==
    IF row.expiry = "past" /\ row.status \notin {"rejected", "expired"}
    THEN [row EXCEPT !.status = "expired"] ELSE row

\* is_advisor_portfolio_completed
Completes(a) ==
    /\ \E d \in Documents : Active(d)
    /\ \A d \in Documents :
         Active(d) => EffectiveStatus(Refreshed(portfolio[d]), opinion[d][a]) = "approved"

-----------------------------------------------------------------------------
\* upload_file
Upload(f) ==
    /\ f \notin used
    /\ used' = used \cup {f} /\ stored' = stored \cup {f} /\ recent' = recent \cup {f}
    /\ UNCHANGED <<portfolio, opinion, clock, paper, sweeping, dropped, unseen>>

\* delete_upload_by_file_key: whether a document refers to the file is not asked.
DeleteUpload(f) ==
    /\ f \in stored
    /\ stored' = stored \ {f}
    /\ dropped' = dropped \cup {f}
    /\ UNCHANGED <<portfolio, opinion, recent, clock, paper, sweeping, used, unseen>>

Files == {portfolio[d].file : d \in {e \in Documents : portfolio[e] # Absent}}

\* A client attaches what it uploaded, once.
Attachable == {f \in used : f \notin Files /\ \A p \in PaperCalls :
                              paper[p] # NoPaper => f # paper[p].new.file /\ f # paper[p].seen.file}

\* What the sweep deletes under a document that is attached only now
Missed(f) == IF f \notin stored \/ sweeping.running THEN dropped \cup {f} ELSE dropped

\* create.  That the file exists is not checked.
Attach(d, f, expiry) ==
    /\ portfolio[d] = Absent
    /\ f \in Attachable /\ expiry \in {"none", "ahead"}
    /\ portfolio' = [portfolio EXCEPT ![d] =
                       [status |-> "under_review", expiry |-> expiry, file |-> f, by |-> NoAdvisor,
                        archived |-> FALSE, updated |-> clock]]
    /\ dropped' = Missed(f)
    /\ UNCHANGED <<opinion, stored, recent, clock, paper, sweeping, used, unseen>>

\* The list endpoints: refresh_expired_statuses and the commit
ListDocuments ==
    /\ \E d \in Documents : Active(d) /\ Refreshed(portfolio[d]) # portfolio[d]
    /\ portfolio' = [d \in Documents |->
                       IF Active(d) /\ Refreshed(portfolio[d]) # portfolio[d]
                       THEN [Refreshed(portfolio[d]) EXCEPT !.updated = clock] ELSE portfolio[d]]
    /\ UNCHANGED <<opinion, stored, recent, clock, paper, sweeping, used, dropped, unseen>>

-----------------------------------------------------------------------------
\* get_for_seeker, and what the operation makes of the object it has read
ReadDocument(p, op, d, step, a, new, status) ==
    /\ paper[p] = NoPaper
    /\ paper' = [paper EXCEPT ![p] =
                   [op |-> op, step |-> step, document |-> d, seen |-> Refreshed(portfolio[d]),
                    new |-> new, lapsed |-> Refreshed(portfolio[d]) # portfolio[d],
                    advisor |-> a, status |-> status,
                    had |-> IF a = NoAdvisor THEN FALSE ELSE opinion[d][a] # NoOpinion,
                    cleared |-> {}, replaced |-> FALSE, late |-> {}, start |-> clock]]
    /\ UNCHANGED <<portfolio, opinion, stored, recent, clock, sweeping, remnants>>

\* update_document: the expiry is kept, cleared or set ahead, and the file may be another.
Amended(row, expiry, f) ==
    LET dated == [row EXCEPT
                    !.by = NoAdvisor,
                    !.expiry = CASE expiry = "kept" -> @ [] expiry = "clear" -> "none"
                                 [] expiry = "set" -> "ahead",
                    !.status = IF expiry = "set" /\ @ = "expired" THEN "under_review" ELSE @]
    IN  IF f = NoUpload THEN dated
        ELSE [dated EXCEPT !.file = f, !.status = "under_review",
                           !.expiry = IF expiry = "kept" /\ @ \in {"today", "past"} THEN "none"
                                      ELSE @]

\* Mutation: the verdicts on the file that is replaced are kept.
ClearsNothing(row, expiry, f) == FALSE

\* Whether clear_advisor_reviews is called
Clears(row, expiry, f) == f # NoUpload \/ (expiry = "set" /\ row.status = "expired")

ReadForUpdate(p, d, expiry, f) ==
    LET row == Refreshed(portfolio[d]) IN
    /\ Active(d)
    /\ f \in Attachable \cup {NoUpload}
    /\ expiry # "kept" \/ f # NoUpload
    /\ ReadDocument(p, "update", d, IF Clears(row, expiry, f) THEN "cleared" ELSE "write", NoAdvisor,
            Amended(row, expiry, f), row.status)

\* archive_document, mark_comments_read and the administrator's set_status
ReadForChange(p, d, op, status) ==
    LET row == Refreshed(portfolio[d]) IN
    /\ Active(d)
    /\ op \in {"archive", "comments", "verdict"}
    /\ op # "verdict" => status = row.status
    /\ ReadDocument(p, op, d, "write", NoAdvisor,
            [row EXCEPT !.by = NoAdvisor, !.status = status, !.archived = op = "archive"], status)

\* review_client_document: nothing is done when the status is the same, and nothing is
\* allowed once the advisor has approved every document.
ReadForReview(p, d, a, status) ==
    LET row == Refreshed(portfolio[d]) IN
    /\ Active(d)
    /\ status # EffectiveStatus(row, opinion[d][a])
    /\ ~Completes(a)
    /\ ReadDocument(p, "review", d, "write", a,
            IF status = "under_review" THEN row ELSE [row EXCEPT !.by = a], status)

\* clear_advisor_reviews deletes the verdicts that are committed by then.
ClearOpinions(p) ==
    LET d == paper[p].document IN
    /\ paper[p].op = "update" /\ paper[p].step = "cleared"
    /\ paper' = [paper EXCEPT ![p].step = "write",
                              ![p].cleared = {a \in Advisors : opinion[d][a] # NoOpinion}]
    /\ UNCHANGED <<portfolio, opinion, stored, recent, clock, sweeping, remnants>>

\* The row after p's flush.  A refresh that found it expired has written the status before.
RowAfter(p) ==
    [Flush(portfolio[paper[p].document], paper[p].seen, paper[p].new)
       EXCEPT !.status = IF paper[p].lapsed THEN paper[p].new.status ELSE @,
              !.updated = paper[p].start]

Replaces(p) == paper[p].new.file # paper[p].seen.file

\* The requests when p is done, and what its write means for what the others have read
PapersAfter(p) ==
    [q \in PaperCalls |->
        IF q = p \/ paper[q] = NoPaper THEN NoPaper
        ELSE IF paper[q].document # paper[p].document THEN paper[q]
        ELSE [paper[q] EXCEPT !.replaced = @ \/ Replaces(p),
                              !.late = IF paper[p].op = "review" THEN @ \cup {paper[p].advisor}
                                       ELSE @]]

\* The flush and the commit of everything but a review.  A file that was replaced is
\* deleted if it is in the local storage.
WriteDocument(p) ==
    LET d == paper[p].document IN
    /\ paper[p] # NoPaper /\ paper[p].op # "review" /\ paper[p].step = "write"
    /\ portfolio' = [portfolio EXCEPT ![d] = RowAfter(p)]
    /\ opinion' = [opinion EXCEPT ![d] = [a \in Advisors |-> IF a \in paper[p].cleared
                                                             THEN NoOpinion ELSE @[a]]]
    /\ stored' \in {stored} \cup (IF Replaces(p) THEN {stored \ {paper[p].seen.file}} ELSE {})
    /\ dropped' = IF Replaces(p) THEN Missed(paper[p].new.file) ELSE dropped
    /\ unseen' = IF Replaces(p) THEN unseen \cup ({d} \X paper[p].late) ELSE unseen
    /\ paper' = PapersAfter(p)
    /\ UNCHANGED <<recent, clock, sweeping, used>>

\* The transaction fails after the file was deleted.
LoseReplacement(p) ==
    /\ paper[p] # NoPaper /\ paper[p].op = "update" /\ paper[p].step = "write" /\ Replaces(p)
    /\ stored' = stored \ {paper[p].seen.file}
    /\ dropped' = dropped \cup {paper[p].seen.file}
    /\ paper' = [paper EXCEPT ![p] = NoPaper]
    /\ UNCHANGED <<portfolio, opinion, recent, clock, sweeping, used, unseen>>

\* set_advisor_review.  Sending a document back to review clears the verdicts of every
\* advisor; another verdict touches the document's row when a different advisor gave the
\* last.  The transaction fails if the verdict was made or deleted since it was looked up.
WriteReview(p) ==
    LET d == paper[p].document
        a == paper[p].advisor
    IN  /\ paper[p] # NoPaper /\ paper[p].op = "review"
        /\ IF paper[p].status = "under_review"
           THEN opinion' = [opinion EXCEPT ![d] = [b \in Advisors |-> NoOpinion]]
           ELSE /\ paper[p].had = (opinion[d][a] # NoOpinion)
                /\ opinion' = [opinion EXCEPT ![d][a] =
                                 [status |-> paper[p].status, reviewed |-> clock,
                                  file |-> paper[p].seen.file]]
        /\ portfolio' = IF paper[p].lapsed \/ paper[p].new # paper[p].seen
                        THEN [portfolio EXCEPT ![d] = RowAfter(p)] ELSE portfolio
        /\ unseen' = IF paper[p].replaced THEN unseen \cup {<<d, a>>} ELSE unseen \ {<<d, a>>}
        /\ paper' = PapersAfter(p)
        /\ UNCHANGED <<stored, recent, clock, sweeping, used, dropped>>

PaperRollBack(p) ==
    /\ paper[p] # NoPaper
    /\ paper' = [paper EXCEPT ![p] = NoPaper]
    /\ UNCHANGED <<portfolio, opinion, stored, recent, clock, sweeping, remnants>>

-----------------------------------------------------------------------------
\* Archived documents still refer to their files.
Referenced == Files

\* sweep_orphan_seeker_uploads: the documents are listed ...
StartSweep ==
    /\ ~sweeping.running
    /\ sweeping' = [running |-> TRUE, found |-> Referenced]
    /\ UNCHANGED <<portfolio, opinion, stored, recent, clock, paper, remnants>>

\* ... and files of some age that are not among them deleted, all of them or, if the
\* process stops, some.
SweepUploads ==
    /\ sweeping.running
    /\ \E gone \in SUBSET (stored \ (sweeping.found \cup recent)) : stored' = stored \ gone
    /\ sweeping' = [running |-> FALSE, found |-> {}]
    /\ UNCHANGED <<portfolio, opinion, recent, clock, paper, remnants>>

\* More than two seconds pass, for some uploads more than the TTL.
Tick ==
    /\ clock < MaxClock
    /\ clock' = clock + 1
    /\ recent' = {}
    /\ UNCHANGED <<portfolio, opinion, stored, paper, sweeping, remnants>>

\* The date passes.
DayPasses(d) ==
    /\ portfolio[d] # Absent /\ portfolio[d].expiry \in {"ahead", "today"}
    /\ portfolio' = [portfolio EXCEPT ![d].expiry = IF @ = "ahead" THEN "today" ELSE "past"]
    /\ UNCHANGED <<opinion, stored, recent, clock, paper, sweeping, remnants>>

DocumentNext ==
    \/ \E f \in Uploads : Upload(f) \/ DeleteUpload(f)
    \/ \E d \in Documents, f \in Uploads, expiry \in Expiry : Attach(d, f, expiry)
    \/ \E p \in PaperCalls, d \in Documents :
         \/ \E expiry \in {"kept", "clear", "set"}, f \in Uploads \cup {NoUpload} :
              ReadForUpdate(p, d, expiry, f)
         \/ \E op \in {"archive", "comments", "verdict"}, s \in DocumentStatus :
              ReadForChange(p, d, op, s)
         \/ \E a \in Advisors, s \in DocumentStatus : ReadForReview(p, d, a, s)
    \/ \E p \in PaperCalls : \/ ClearOpinions(p) \/ WriteDocument(p) \/ LoseReplacement(p)
                             \/ WriteReview(p) \/ PaperRollBack(p)
    \/ \E d \in Documents : DayPasses(d)
    \/ ListDocuments \/ StartSweep \/ SweepUploads \/ Tick

DocumentSpec == DocumentInit /\ [][DocumentNext]_documentVars

-----------------------------------------------------------------------------
\* An advisor's approval that counts was given on the file the document has now, unless
\* the file was replaced while the verdict was being written.
ApprovedAsSeen ==
    \A d \in Documents, a \in Advisors :
        portfolio[d] # Absent /\ <<d, a>> \notin unseen /\ Effective(d, a) = "approved"
            => opinion[d][a].file = portfolio[d].file

\* Every document has its file, archived ones too, whatever is replaced, swept and rolled
\* back, except the files in dropped.
DocumentFileKept ==
    \A d \in Documents : portfolio[d] # Absent => portfolio[d].file \in stored \cup dropped

\* The portfolio is what the advisors looked at: their verdicts are about its files, and
\* the files are there.
PortfolioSound == ApprovedAsSeen /\ DocumentFileKept

=============================================================================
