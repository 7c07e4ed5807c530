---------------------------- MODULE AdvisorLeads ----------------------------
(* The leads that a completed assessment gives to advisors                    *)
(* (advisor_lead_service): made when the seeker first looks at the matches,   *)
(* and worked on by the advisors.                                             *)
(*                                                                            *)
(* A request counts the leads, asks the model, and inserts; another may do    *)
(* the same meanwhile, and only the unique constraint keeps the second out.   *)
(* The status is written over a copy, and so is the booking a lead is linked  *)
(* to.                                                                        *)
EXTENDS Matching, UnitOfWork

CONSTANTS
    Matched,      \* advisors
    Cases,        \* what an advisor may have of what a case asks for
    Stranger,     \* an id the model makes up
    AiScores,     \* scores the model gives
    Leaders,      \* requests that may be in progress at once
    Appointments, \* bookings of the seeker
    NoLink        \* the booking_id of a lead without one

ASSUME CasesAssumption == Cases \subseteq Facts
ASSUME MatchedAssumption == IsFiniteSet(Matched) /\ AiScores \subseteq 0 .. Full
ASSUME StrangerAssumption == Stranger \notin Matched /\ NoLink \notin Appointments

VARIABLES
    facts,   \* what each advisor has of what the case asks for
    listed,  \* the advisors that are approved, active and ready to be paid
    lead,    \* each advisor's row of advisor_leads for the assessment
    leading, \* the requests in progress, with what they have read
    gated    \* history: the advisors the gate let through when leads were made

leadVars == <<facts, listed, lead, leading, gated>>

-----------------------------------------------------------------------------
LeadStatus == {"absent", "new", "viewed", "contacted", "dismissed"}

Lead == [status : LeadStatus, score : 0 .. Full, booking : Appointments \cup {NoLink}]

NoLead == [status |-> "absent", score |-> 0, booking |-> NoLink]

Leading ==
    [op : {"match"}, list : Seq([id : Matched, score : 1 .. Full])]
    \cup [op : {"viewed", "contacted", "dismissed"}, advisor : Matched, copy : Lead]
    \cup [op : {"link"}, advisor : Matched, copy : Lead, booking : Appointments]

NotLeading == [op |-> "idle"]

Gate == {a \in Matched : Gated(facts[a])}

RuleScore(a) == AdvisorScore(DefaultWeights, facts[a])

\* A lead is there for whom the gate let through, with the score of the rules or a blend.
LeadTypeOK ==
    /\ facts \in [Matched -> Cases]
    /\ listed \subseteq Matched
    /\ lead \in [Matched -> Lead]
    /\ \A c \in Leaders : leading[c] = NotLeading \/ leading[c] \in Leading
    /\ gated \subseteq Matched

LeadInit ==
    /\ facts \in [Matched -> Cases]
    /\ listed = Matched
    /\ lead = [a \in Matched |-> NoLead]
    /\ leading = [c \in Leaders |-> NotLeading]
    /\ gated = {}

-----------------------------------------------------------------------------
\* The verdicts on advisors, their activity and their links change.
Relist(a) ==
    /\ listed' = IF a \in listed THEN listed \ {a} ELSE listed \cup {a}
    /\ UNCHANGED <<facts, lead, leading, gated>>

Begin(c, what) ==
    /\ leading[c] = NotLeading
    /\ leading' = [leading EXCEPT ![c] = what]
    /\ UNCHANGED <<facts, listed, lead, gated>>

\* list_matched_advisors: ensure_for_assessment finds no leads, match_from_context finds
\* somebody.
ReadMatches(c) ==
    LET list == ByRule([s \in listed \cap Gate |-> RuleScore(s)]) IN
    /\ \A a \in Matched : lead[a].status = "absent"
    /\ list # <<>>
    /\ Begin(c, [op |-> "match", list |-> list])

Ended(c) == leading' = [leading EXCEPT ![c] = NotLeading]

\* generate_for_assessment, all or none: the unique constraint refuses a second lead
\* for an advisor, but not leads that another request has made for other advisors.
Insert(c, ranking) ==
    /\ \A a \in Ids(ToSet(ranking)) : lead[a].status = "absent"
    /\ lead' = [a \in Matched |->
                  IF a \in Ids(ToSet(ranking))
                  THEN [status |-> "new", score |-> ScoreIn(ToSet(ranking), a), booking |-> NoLink]
                  ELSE lead[a]]
    /\ gated' = gated \cup Ids(ToSet(leading[c].list))
    /\ Ended(c)
    /\ UNCHANGED <<facts, listed>>

Answers == BoundedSeq([id : Matched \cup {Stranger}, score : AiScores], 2)

\* The model answers, or fails, and then the rules have the last word.
ModelAnswers(c) ==
    /\ leading[c].op = "match"
    /\ \E answer \in Answers : Insert(c, Blended(leading[c].list, answer))

ModelFails(c) ==
    /\ leading[c].op = "match"
    /\ Insert(c, leading[c].list)

-----------------------------------------------------------------------------
\* get_my_lead, contact_my_lead, dismiss_my_lead
ReadLead(c, op, a) ==
    /\ lead[a].status # "absent"
    /\ op = "viewed" => lead[a].status = "new"
    /\ Begin(c, [op |-> op, advisor |-> a, copy |-> lead[a]])

\* link_booking: the newest lead without a booking, for the booking that is being made
ReadUnlinked(c, a, b) ==
    /\ lead[a].status # "absent" /\ lead[a].booking = NoLink
    /\ \A d \in Matched : lead[d].booking # b
    /\ Begin(c, [op |-> "link", advisor |-> a, copy |-> lead[a], booking |-> b])

\* mark_viewed, mark_contacted, dismiss and link_booking: what differs from the copy
SaveLead(c) ==
    /\ leading[c].op \in {"viewed", "contacted", "dismissed", "link"}
    /\ LET copy == leading[c].copy
           new == IF leading[c].op = "link" THEN [copy EXCEPT !.booking = leading[c].booking]
                  ELSE [copy EXCEPT !.status = leading[c].op]
       IN  lead' = [lead EXCEPT ![leading[c].advisor] = Flush(@, copy, new)]
    /\ Ended(c)
    /\ UNCHANGED <<facts, listed, gated>>

StopLeading(c) ==
    /\ leading[c] # NotLeading /\ Ended(c)
    /\ UNCHANGED <<facts, listed, lead, gated>>

LeadNext ==
    \/ \E c \in Leaders :
         \/ ReadMatches(c) \/ ModelAnswers(c) \/ ModelFails(c)
         \/ \E a \in Matched :
              \/ \E op \in {"viewed", "contacted", "dismissed"} : ReadLead(c, op, a)
              \/ \E b \in Appointments : ReadUnlinked(c, a, b)
         \/ SaveLead(c) \/ StopLeading(c)
    \/ \E a \in Matched : Relist(a)

LeadSpec == LeadInit /\ [][LeadNext]_leadVars

-----------------------------------------------------------------------------
\* "Re-rank ONLY the provided": the leads of an assessment are the advisors the gate let
\* through when it was asked, each of them and nobody else, whatever the model answers and
\* however many requests ask it beside one another, and no score is above that of a full
\* match or below the rules' 35 parts.
LeadsAsGated ==
    LET leads == {a \in Matched : lead[a].status # "absent"} IN
    /\ leads = gated
    /\ \A a \in leads : /\ Gated(facts[a])
                        /\ lead[a].score = RuleScore(a) \/ lead[a].score >= Blend(RuleScore(a), 0)

=============================================================================
