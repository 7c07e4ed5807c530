--------------------------- MODULE AdvisorAccount ---------------------------
(* The standing of one advisor: the verdicts of the administrators, soft       *)
(* suspension and the documents a verdict rests on (user_admin_service,        *)
(* advisor_credential_service, advisor_profile_service, api/v1/admin).         *)
(*                                                                             *)
(* Several administrators and the advisor work on the same rows.  Each request *)
(* reads the rows without a lock, and its flush writes only what differs from  *)
(* its copy, so two of them may leave a mixture of both.                       *)
EXTENDS UnitOfWork

CONSTANTS
    Credentials,  \* credential documents the advisor may hand in
    NoCredential, \* the credential of a request that is not about one
    Clerks        \* requests that may be in progress at once

ASSUME CredentialAssumption == NoCredential \notin Credentials

VARIABLES
    advisor,    \* the row of the user
    credential, \* the advisor_credentials rows
    archived,   \* those of them the advisor has deleted
    files,      \* the credentials whose file is in the storage
    task,       \* what each request in progress has read
    verdict,    \* history: the last verdict on the account
    judged,     \* history: whether a verdict was given since the suspension in force, or
                \* none is in force
    blurred,    \* history: whether the row is a mixture of two requests, or a reactivation
                \* restored what was kept from before such a verdict
    awaiting    \* history: whether the advisor has waited for a verdict since documents
                \* were handed in or reopened, none of which was reviewed by itself

documents   == <<credential, archived, files>>
remembered  == <<verdict, judged, blurred, awaiting>>
accountVars == <<advisor, documents, task, remembered>>

-----------------------------------------------------------------------------
VerificationStatus == {"pending", "under_review", "approved", "rejected", "suspended"}
Onboarding         == {"pending", "under_review"}
CredentialStatus   == {"pending", "verified", "rejected"}

Advisor == [status : VerificationStatus, pre : VerificationStatus \cup {"none"},
            active : BOOLEAN, suspended : BOOLEAN]

\* "rejected" stands for every status of a document that was reviewed and not verified.
Verdicts   == {"approved", "rejected", "pending", "under_review"}
AccountOps == {"suspend", "reactivate", "verify"}
BulkOps    == {"verify_all", "reject_all"}
TaskOp     == Verdicts \cup AccountOps \cup BulkOps \cup {"review", "onboard", "idle"}

\* outdated: documents were handed in or reviewed since the request listed them.
Task == [op : TaskOp, step : {"idle", "list", "write"}, seen : Advisor,
         document : Credentials \cup {NoCredential}, status : CredentialStatus,
         listed : SUBSET Credentials, outdated : BOOLEAN]

\* create_advisor
NewAdvisor == [status |-> "pending", pre |-> "none", active |-> FALSE, suspended |-> FALSE]

NoTask == [op |-> "idle", step |-> "idle", seen |-> NewAdvisor, document |-> NoCredential,
           status |-> "pending", listed |-> {}, outdated |-> FALSE]

AccountTypeOK ==
    /\ advisor \in Advisor
    /\ credential \in [Credentials -> CredentialStatus \cup {"absent"}]
    /\ archived \subseteq Credentials /\ files \subseteq Credentials
    /\ task \in [Clerks -> Task]
    /\ verdict \in Verdicts \cup {"none"}
    /\ judged \in BOOLEAN
    /\ blurred \in BOOLEAN
    /\ awaiting \in BOOLEAN

AccountInit ==
    /\ advisor = NewAdvisor
    /\ credential = [d \in Credentials |-> "absent"]
    /\ archived = {} /\ files = {}
    /\ task = [p \in Clerks |-> NoTask]
    /\ verdict = "none"
    /\ judged = TRUE /\ blurred = FALSE /\ awaiting = FALSE

-----------------------------------------------------------------------------
\* get_current_principal: is_suspended is not asked.
MayCall ==
    /\ advisor.status # "rejected"
    /\ advisor.active \/ advisor.status \in Onboarding

\* require_verified_advisor
Serves == MayCall /\ advisor.status = "approved"

\* verification_queue_service.list_stmt
InQueue == advisor.status \in Onboarding /\ \E d \in Credentials : credential[d] = "pending"

-----------------------------------------------------------------------------
Take(p, r) ==
    /\ task[p] = NoTask
    /\ task' = [task EXCEPT ![p] = r]
    /\ UNCHANGED <<advisor, documents, remembered>>

\* A review does not read the user.
Work(op, step) ==
    [NoTask EXCEPT !.op = op, !.step = step,
                   !.seen = IF op \in BulkOps \cup {"review"} THEN NewAdvisor ELSE advisor]

\* The tasks when p is done; what the others have listed is out of date if the
\* documents have changed.
TasksAfter(p) ==
    [q \in Clerks |->
        IF q = p \/ task[q] = NoTask THEN NoTask
        ELSE [task[q] EXCEPT !.outdated = @ \/ credential' # credential]]

\* suspend, reactivate, verify, the verdicts of update_advisor_verification, and the
\* review of everything pending.
AdminReads(p, op) ==
    /\ op \in Verdicts \cup AccountOps \cup BulkOps
    /\ Take(p, Work(op, IF op \in AccountOps THEN "write" ELSE "list"))

\* complete_advisor_onboarding
Onboard(p) == MayCall /\ Take(p, Work("onboard", "write"))

Reopens == {"pending", "under_review"}

\* resolve_pending lists what is pending, reopen_for_review what is not.  Neither
\* leaves out what was archived.
ListCredentials(p) ==
    LET found == {d \in Credentials :
                     /\ credential[d] # "absent"
                     /\ (credential[d] = "pending") = (task[p].op \notin Reopens)}
    IN  /\ task[p].step = "list"
        /\ task' = [task EXCEPT ![p].step = "write", ![p].listed = found,
                                ![p].outdated = FALSE]
        /\ UNCHANGED <<advisor, documents, remembered>>

\* Mutation: suspending twice keeps the suspension as the status to restore.
KeptTwice(u) == u.status

\* suspend_account: what a reactivation will restore
Kept(u) == IF u.status = "suspended" THEN u.pre ELSE u.status

\* reactivate_account: "pending" when nothing was kept.
Restored(u) == IF u.pre \in {"none", "suspended"} THEN "pending" ELSE u.pre

\* The user as the operation leaves the object it has read.
AccountAfter(op, u) ==
    CASE op = "suspend" ->
           [status |-> "suspended", pre |-> Kept(u), active |-> FALSE, suspended |-> TRUE]
      [] op = "reactivate" ->
           [status |-> Restored(u), pre |-> "none", active |-> Restored(u) = "approved",
            suspended |-> FALSE]
      [] op \in {"verify", "approved"} ->
           [status |-> "approved", pre |-> "none", active |-> TRUE, suspended |-> FALSE]
      [] op = "rejected" -> [u EXCEPT !.status = "rejected", !.active = TRUE]
      [] op \in Reopens -> [u EXCEPT !.status = op, !.active = FALSE]
      [] op = "onboard" ->
           IF u.status \in {"pending", "rejected"}
           THEN [u EXCEPT !.status = "under_review", !.active = TRUE] ELSE u

\* What a request makes of the documents it has listed.
CredentialAfter(op) ==
    CASE op \in {"approved", "verify_all"} -> "verified"
      [] op \in {"rejected", "reject_all"} -> "rejected"
      [] op \in Reopens -> "pending"

CredentialsAfter(p) ==
    [d \in Credentials |-> IF d \in task[p].listed THEN CredentialAfter(task[p].op)
                           ELSE credential[d]]

\* Whether a commit leaves the row other than the last verdict says: a commit from a
\* copy that is out of date mixes it, a suspension keeps what it finds, and a
\* reactivation restores what was kept.
Blurs(p) ==
    \/ advisor # task[p].seen
    \/ task[p].op = "suspend" /\ blurred
    \/ task[p].op = "reactivate" /\ (blurred \/ judged)

AdminCommit(p) ==
    LET op == task[p].op IN
    /\ op \in Verdicts \cup AccountOps /\ task[p].step = "write"
    /\ advisor' = Flush(advisor, task[p].seen, AccountAfter(op, task[p].seen))
    /\ credential' = CredentialsAfter(p)
    /\ verdict' = CASE op = "verify" -> "approved" [] op \in Verdicts -> op [] OTHER -> verdict
    /\ judged' = IF op = "suspend" THEN judged /\ task[p].seen.status = "suspended" ELSE TRUE
    /\ blurred' = Blurs(p)
    /\ awaiting' = IF op \in Reopens
                   THEN ~task[p].outdated /\ \E d \in Credentials : credential[d] # "absent"
                   ELSE awaiting /\ op \in {"suspend", "reactivate"}
    /\ task' = TasksAfter(p)
    /\ UNCHANGED <<archived, files>>

\* The documents of the form are inserted and the account moved by one transaction.
OnboardCommit(p) ==
    /\ task[p].op = "onboard"
    /\ \E new \in SUBSET {d \in Credentials : credential[d] = "absent"} :
         /\ credential' = [d \in Credentials |-> IF d \in new THEN "pending" ELSE credential[d]]
         /\ files' = files \cup new
         /\ awaiting' = (awaiting \/ new # {})
    /\ advisor' = Flush(advisor, task[p].seen, AccountAfter("onboard", task[p].seen))
    /\ blurred' = (blurred \/ advisor # task[p].seen)
    /\ task' = TasksAfter(p)
    /\ UNCHANGED <<archived, verdict, judged>>

\* create_credential
CreateCredential(p, d) ==
    /\ MayCall
    /\ task[p] = NoTask
    /\ credential[d] = "absent"
    /\ credential' = [credential EXCEPT ![d] = "pending"]
    /\ files' = files \cup {d}
    /\ awaiting' = (awaiting \/ advisor.status \in Onboarding)
    /\ task' = TasksAfter(p)
    /\ UNCHANGED <<advisor, archived, verdict, judged, blurred>>

\* delete_credential: the file goes first, then the row is refused unless it is
\* pending.  Only is_archived is written.
DeleteCredential(d) ==
    /\ MayCall
    /\ credential[d] # "absent"
    /\ files' = files \ {d}
    /\ archived' = IF credential[d] = "pending" THEN archived \cup {d} ELSE archived
    /\ UNCHANGED <<advisor, credential, task, remembered>>

\* review_advisor_credential.  A review that leaves the status writes notes only.
ReadCredential(p, d, status) ==
    /\ credential[d] \notin {"absent", status}
    /\ Take(p, [Work("review", "write") EXCEPT !.document = d, !.status = status])

\* update_status of one document, or of everything listed
ReviewCommit(p) ==
    /\ task[p].op \in BulkOps \cup {"review"} /\ task[p].step = "write"
    /\ credential' = IF task[p].op = "review"
                     THEN [credential EXCEPT ![task[p].document] = task[p].status]
                     ELSE CredentialsAfter(p)
    /\ awaiting' = (awaiting /\ credential' = credential)
    /\ task' = TasksAfter(p)
    /\ UNCHANGED <<advisor, archived, files, verdict, judged, blurred>>

AccountRollBack(p) ==
    /\ task[p] # NoTask
    /\ task' = [task EXCEPT ![p] = NoTask]
    /\ UNCHANGED <<advisor, documents, remembered>>

AccountNext ==
    \/ \E p \in Clerks :
         \/ \E op \in TaskOp : AdminReads(p, op)
         \/ \E d \in Credentials, s \in CredentialStatus : ReadCredential(p, d, s)
         \/ \E d \in Credentials : CreateCredential(p, d)
         \/ Onboard(p) \/ ListCredentials(p)
         \/ AdminCommit(p) \/ OnboardCommit(p) \/ ReviewCommit(p) \/ AccountRollBack(p)
    \/ \E d \in Credentials : DeleteCredential(d)

AccountSpec == AccountInit /\ [][AccountNext]_accountVars

-----------------------------------------------------------------------------
\* An advisor serves seekers exactly when the last verdict approved them and they are
\* not suspended, whatever suspensions, reactivations and verdicts came in between,
\* unless two requests mixed their writes or a reactivation restored something else.
ServesByVerdict ==
    ~blurred => (Serves <=> verdict = "approved" /\ ~advisor.suspended)

\* An advisor who waits for a verdict on documents is in the administrators' queue,
\* unless the documents were reviewed beside the request that sent them back.
AwaitingInQueue == awaiting /\ advisor.status \in Onboarding => InQueue

\* delete: "Only pending credentials can be deleted": a document that was reviewed
\* has its file.
ReviewedFileKept ==
    \A d \in Credentials \ archived : credential[d] \in {"verified", "rejected"} => d \in files

\* What an advisor's status says is what was decided and is still to be decided about them.
StatusHonest == ServesByVerdict /\ AwaitingInQueue

=============================================================================
