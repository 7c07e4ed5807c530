---------------------------- MODULE CountryRules ----------------------------
(* The immigration policies of one country and visa type: an AI drafts, an   *)
(* administrator edits and publishes, and the assessments read the one that   *)
(* is published (country_rule_service).                                       *)
(*                                                                            *)
(* A generation works in two transactions of its own with the slow call in    *)
(* between; the first leaves a placeholder that keeps a second generation     *)
(* out.  Every other request checks the status on an unlocked read, and its   *)
(* flush lands on whatever the rule has become.                               *)
EXTENDS FiniteSets, Naturals, UnitOfWork

CONSTANTS
    Rules,   \* policies that may be generated
    NoRule,  \* no policy
    Desks    \* requests that may be in progress at once

ASSUME RuleAssumption == NoRule \notin Rules

VARIABLES
    rule,      \* the country_rules rows
    desk,      \* what each request in progress has read
    orphaned,  \* history: placeholders whose generation stopped with its process
    overtaken  \* history: rules written by a request that had read them before a change

countryVars == <<rule, desk, orphaned, overtaken>>

-----------------------------------------------------------------------------
\* A row that was deleted leaves its key unused.
RulePublishStatus == {"generating", "draft", "published", "archived"}

\* Whether there is a source URL, which stands for every attribute an edit may set, and
\* whether there are requirements, which stand for the pitfalls and notes too.
Rule == [status : RulePublishStatus \cup {"absent", "deleted"}, source : BOOLEAN,
         requirements : BOOLEAN]

DeskOps == {"edit", "publish", "archive", "restore", "delete"}

\* seen, new and given: what an edit has read and makes of it.  current: the policy a publication
\* replaces.  stale: the rule was written by another request since it was read.
Desk == [op : DeskOps \cup {"draft", "idle"}, step : {"idle", "list", "write"},
         rule : Rules \cup {NoRule}, seen : Rule, new : Rule,
         given : {"kept", "filled", "emptied"}, current : Rules \cup {NoRule}, stale : BOOLEAN]

NewRule == [status |-> "absent", source |-> FALSE, requirements |-> FALSE]

NoDesk == [op |-> "idle", step |-> "idle", rule |-> NoRule, seen |-> NewRule, new |-> NewRule,
           given |-> "kept", current |-> NoRule, stale |-> FALSE]

CountryTypeOK ==
    /\ rule \in [Rules -> Rule]
    /\ desk \in [Desks -> Desk]
    /\ orphaned \subseteq Rules /\ overtaken \subseteq Rules

CountryInit ==
    /\ rule = [r \in Rules |-> NewRule]
    /\ desk = [c \in Desks |-> NoDesk]
    /\ orphaned = {} /\ overtaken = {}

-----------------------------------------------------------------------------
Exists(r)     == rule[r].status \notin {"absent", "deleted"}
Published     == {r \in Rules : rule[r].status = "published"}
Placeholders  == {r \in Rules : rule[r].status = "generating"}

\* The desks when c is done and has written rows.
DesksAfter(c, rows) ==
    [d \in Desks |-> IF d = c THEN NoDesk
                     ELSE [desk[d] EXCEPT !.stale = @ \/ desk[d].rule \in rows]]

\* Mutation: whether a draft is being generated is not asked.
StartDraftTwice(c, r) ==
    /\ desk[c] = NoDesk
    /\ rule[r].status = "absent"
    /\ rule' = [rule EXCEPT ![r].status = "generating"]
    /\ desk' = [desk EXCEPT ![c] = [NoDesk EXCEPT !.op = "draft", !.rule = r]]
    /\ UNCHANGED <<orphaned, overtaken>>

\* generate, first transaction: check and insert under the advisory lock of the pair.
StartDraft(c, r) ==
    /\ desk[c] = NoDesk
    /\ Placeholders = {}
    /\ rule[r].status = "absent"
    /\ rule' = [rule EXCEPT ![r].status = "generating"]
    /\ desk' = [desk EXCEPT ![c] = [NoDesk EXCEPT !.op = "draft", !.rule = r]]
    /\ UNCHANGED <<orphaned, overtaken>>

\* draft_policy: a draft, with a source when it is grounded, or None.
Drafted == [status : {"draft"}, source : BOOLEAN, requirements : BOOLEAN]
Failed  == {[NewRule EXCEPT !.status = "deleted"]}

\* Mutation: a failure leaves the placeholder to be tried again.
OutcomesLeft == Drafted \cup {[NewRule EXCEPT !.status = "generating"]}

Outcomes == Drafted \cup Failed

\* generate, second transaction, unless an administrator has deleted the placeholder.
LandDraft(c) ==
    /\ desk[c].op = "draft"
    /\ IF Exists(desk[c].rule)
       THEN \E outcome \in Outcomes : rule' = [rule EXCEPT ![desk[c].rule] = outcome]
       ELSE UNCHANGED rule
    /\ desk' = DesksAfter(c, {desk[c].rule})
    /\ UNCHANGED <<orphaned, overtaken>>

\* The process stops during the call, or the second transaction fails.
LoseDraft(c) ==
    /\ desk[c].op = "draft"
    /\ orphaned' = orphaned \cup {desk[c].rule}
    /\ desk' = [desk EXCEPT ![c] = NoDesk]
    /\ UNCHANGED <<rule, overtaken>>

\* Mutation: a policy that is live may be edited.
MayDoMore(op, row) ==
    CASE op = "edit"    -> row.status \in {"draft", "published"}
      [] op = "publish" -> row.status = "draft" /\ row.source /\ row.requirements
      [] op = "archive" -> row.status \in {"draft", "published"}
      [] op = "restore" -> row.status = "archived"
      [] op = "delete"  -> row.status # "published"

\* The checks of update_draft, publish, archive, restore and delete_rule.
MayDo(op, row) ==
    CASE op = "edit"    -> row.status = "draft"
      [] op = "publish" -> row.status = "draft" /\ row.source /\ row.requirements
      [] op = "archive" -> row.status \in {"draft", "published"}
      [] op = "restore" -> row.status = "archived"
      [] op = "delete"  -> row.status # "published"

\* get_rule and the check of the operation
ReadRule(c, r, op) ==
    /\ desk[c] = NoDesk
    /\ Exists(r) /\ MayDo(op, rule[r])
    /\ desk' = [desk EXCEPT ![c] =
                  [NoDesk EXCEPT !.op = op, !.step = IF op = "publish" THEN "list" ELSE "write",
                                 !.rule = r]]
    /\ UNCHANGED <<rule, orphaned, overtaken>>

\* CountryRuleUpdate: attributes that are left out stay as they are.
ReadForEdit(c, r) ==
    /\ desk[c] = NoDesk
    /\ Exists(r) /\ MayDo("edit", rule[r])
    /\ \E source \in BOOLEAN, given \in {"kept", "filled", "emptied"} :
         desk' = [desk EXCEPT ![c] =
                    [NoDesk EXCEPT !.op = "edit", !.step = "write", !.rule = r, !.given = given,
                                   !.seen = rule[r],
                                   !.new = [rule[r] EXCEPT !.source = source]]]
    /\ UNCHANGED <<rule, orphaned, overtaken>>

\* get_published inside publish
ListCurrent(c) ==
    /\ desk[c].step = "list"
    /\ \E current \in IF Published \ {desk[c].rule} = {} THEN {NoRule}
                      ELSE Published \ {desk[c].rule} :
         desk' = [desk EXCEPT ![c].step = "write", ![c].current = current]
    /\ UNCHANGED <<rule, orphaned, overtaken>>

\* A new list replaces the requirements that were read: what another request has
\* inserted in between stays.
RequirementsAfter(c) ==
    LET now == rule[desk[c].rule].requirements IN
    CASE desk[c].given = "kept"    -> {now}
      [] desk[c].given = "filled"  -> {TRUE}
      [] desk[c].given = "emptied" ->
           {now /\ ~desk[c].seen.requirements} \cup (IF desk[c].stale THEN {now} ELSE {})

Edit(c) ==
    LET r == desk[c].rule IN
    /\ desk[c].op = "edit"
    /\ Exists(r)
    /\ \E requirements \in RequirementsAfter(c) :
         rule' = [rule EXCEPT ![r] = [Flush(rule[r], desk[c].seen, desk[c].new)
                                       EXCEPT !.requirements = requirements]]
    /\ overtaken' = IF desk[c].stale THEN overtaken \cup {r} ELSE overtaken
    /\ desk' = DesksAfter(c, {r})
    /\ UNCHANGED orphaned

\* The current policy is archived and the draft published by one transaction, which
\* the unique index refuses when a third policy is published.
Publish(c) ==
    LET r == desk[c].rule
        current == desk[c].current
    IN  /\ desk[c].op = "publish" /\ desk[c].step = "write"
        /\ Exists(r) /\ (current # NoRule => Exists(current))
        /\ Published \subseteq {r, current}
        /\ rule' = [q \in Rules |-> CASE q = r -> [rule[q] EXCEPT !.status = "published"]
                                      [] q = current -> [rule[q] EXCEPT !.status = "archived"]
                                      [] OTHER -> rule[q]]
        /\ overtaken' = IF desk[c].stale THEN overtaken \cup {r} ELSE overtaken
        /\ desk' = DesksAfter(c, {r, current})
        /\ UNCHANGED orphaned

StatusAfter(op) ==
    CASE op = "archive" -> "archived" [] op = "restore" -> "draft" [] op = "delete" -> "deleted"

\* archive, restore and delete_rule
Shelve(c) ==
    LET r == desk[c].rule IN
    /\ desk[c].op \in {"archive", "restore", "delete"}
    /\ Exists(r)
    /\ rule' = [rule EXCEPT ![r].status = StatusAfter(desk[c].op)]
    /\ overtaken' = IF desk[c].stale THEN overtaken \cup {r} ELSE overtaken
    /\ desk' = DesksAfter(c, {r})
    /\ UNCHANGED orphaned

\* An error, or a row that is gone: nothing is committed.
DeskRollBack(c) ==
    /\ desk[c].op \in DeskOps
    /\ desk' = [desk EXCEPT ![c] = NoDesk]
    /\ UNCHANGED <<rule, orphaned, overtaken>>

CountryNext ==
    \E c \in Desks :
        \/ \E r \in Rules : StartDraft(c, r) \/ ReadForEdit(c, r)
        \/ \E r \in Rules, op \in DeskOps \ {"edit"} : ReadRule(c, r, op)
        \/ LandDraft(c) \/ LoseDraft(c) \/ ListCurrent(c)
        \/ Edit(c) \/ Publish(c) \/ Shelve(c) \/ DeskRollBack(c)

CountrySpec == CountryInit /\ [][CountryNext]_countryVars

-----------------------------------------------------------------------------
\* The assessments find one live policy, and one draft is generated at a time,
\* however generations, publications and restorations interleave.
OneLivePolicy == Cardinality(Published) <= 1 /\ Cardinality(Placeholders) <= 1

\* A placeholder, which refuses every other generation, is being worked on, unless the
\* process stopped under it.
PlaceholdersEnd ==
    \A r \in Placeholders : r \in orphaned \/ \E c \in Desks : desk[c].op = "draft"
                                                             /\ desk[c].rule = r

\* "Published/archived rules are immutable": what is published has a source and
\* requirements, and keeps its text until it is archived, unless a request had read
\* the rule before another one wrote it.
PublishedStands ==
    [][\A r \in Rules \ overtaken' :
          /\ rule'[r].status = "published" => rule'[r].source /\ rule'[r].requirements
          /\ rule[r].status = "published" =>
                /\ rule'[r].status \in {"published", "archived"}
                /\ [rule'[r] EXCEPT !.status = "published"] = rule[r]]_countryVars

=============================================================================
