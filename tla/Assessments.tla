----------------------------- MODULE Assessments -----------------------------
(* One eligibility assessment of a seeker and the questionnaire that the      *)
(* administrators edit (assessment_service, ai_insight_service).              *)
(*                                                                            *)
(* A submission reads the assessment's row, then its answers and the          *)
(* questions, then, to complete it, asks a model to explain the result, and   *)
(* only then writes: it deletes the rows it had read and inserts its own.     *)
(* Nothing is locked, so that a second submission of the form (saved as       *)
(* progress, or complete) may be anywhere in between.                         *)
EXTENDS Naturals, FiniteSets, FiniteSetsExt, Tables

CONSTANTS
    Questions,  \* ids of questions
    Options,    \* ids of options
    OptionOf,   \* the question of each option
    Worth,      \* the score of each option, in percent
    Weight,     \* the weight of each question
    Trigger,    \* depends_on_option_id of each question
    Always,     \* the trigger of a question that has none
    Category,   \* the category of each question
    Submitters, \* requests that may be in progress at once
    MaxSubmits  \* bound on the submissions of the assessment

ASSUME QuestionAssumption ==
    /\ IsFiniteSet(Questions) /\ MaxSubmits \in Nat
    /\ OptionOf \in [Options -> Questions]
    /\ Worth \in [Options -> 0 .. 100]
    /\ Weight \in [Questions -> Nat \ {0}]
    /\ Always \notin Options /\ Trigger \in [Questions -> Options \cup {Always}]

VARIABLES
    asked,      \* each row of assessment_questions
    choices,    \* the rows of assessment_question_options
    assessment, \* the row of assessments
    answers,    \* its rows of assessment_answers
    marks,      \* its rows of assessment_category_scores
    strengths,  \* its insights that are strengths: the category each is from
    missing,    \* its insights that are unanswered questions
    submitting, \* the requests in progress, with what they have read
    submits,    \* how many there have been
    basis,      \* history: the answers and the questions of the result in the row
    torn        \* history: a submission read the row before, and its answers after, a
                \* result was written

questionVars == <<asked, choices>>

resultVars == <<assessment, answers, marks, strengths, missing, basis, torn>>

assessmentVars == <<questionVars, resultVars, submitting, submits>>

-----------------------------------------------------------------------------
FullMark == 10000 \* scores are in hundredths of a percent

Categories == {Category[q] : q \in Questions}

\* n: the submission that inserted the row.
Answer == [n : 1 .. MaxSubmits, question : Questions, option : Options]

Mark == [n : 1 .. MaxSubmits, category : Categories, score : 0 .. FullMark]

Status == {"in_progress", "completed"}

Assessment == [status : Status, score : 0 .. FullMark]

Given == UNION {[S -> Options] : S \in SUBSET Questions \ {{}}}

Submission ==
    [step : {"row"}, n : 1 .. MaxSubmits, given : Given, complete : BOOLEAN, seen : Status]
    \cup [step : {"read"}, n : 1 .. MaxSubmits, given : Given, complete : BOOLEAN,
          old : SUBSET Answer, oldMarks : SUBSET Mark, oldStrengths : SUBSET Categories,
          oldMissing : SUBSET Questions, asked : SUBSET Questions, late : BOOLEAN]

NoSubmission == [step |-> "idle"]

AssessmentTypeOK ==
    /\ asked \in [Questions -> {"absent", "active", "inactive", "deleted"}]
    /\ choices \subseteq Options
    /\ \A o \in choices : asked[OptionOf[o]] \in {"active", "inactive"}
    /\ assessment \in Assessment
    /\ answers \subseteq Answer /\ marks \subseteq Mark
    /\ strengths \subseteq Categories /\ missing \subseteq Questions
    /\ \A c \in Submitters : submitting[c] = NoSubmission \/ submitting[c] \in Submission
    /\ submits \in 0 .. MaxSubmits
    /\ basis \in [answers : SUBSET Answer, asked : SUBSET Questions]
    /\ torn \in BOOLEAN

AssessmentInit ==
    /\ asked = [q \in Questions |-> "absent"]
    /\ choices = {}
    /\ assessment = [status |-> "in_progress", score |-> 0]
    /\ answers = {} /\ marks = {} /\ strengths = {} /\ missing = {}
    /\ submitting = [c \in Submitters |-> NoSubmission]
    /\ submits = 0
    /\ basis = [answers |-> {}, asked |-> {}]
    /\ torn = FALSE

-----------------------------------------------------------------------------
\* The administrators' side

\* create_question
CreateQuestion(q) ==
    /\ asked[q] = "absent"
    /\ asked' = [asked EXCEPT ![q] = "active"]
    /\ choices' = choices \cup {o \in Options : OptionOf[o] = q}
    /\ UNCHANGED <<resultVars, submitting, submits>>

\* update_question
SetActive(q, to) ==
    /\ asked[q] \in {"active", "inactive"}
    /\ asked' = [asked EXCEPT ![q] = to]
    /\ UNCHANGED <<choices, resultVars, submitting, submits>>

\* bulk_set_active
BulkSetActive(to) ==
    /\ asked' = [q \in Questions |-> IF asked[q] \in {"active", "inactive"} THEN to ELSE asked[q]]
    /\ UNCHANGED <<choices, resultVars, submitting, submits>>

\* Answers go with their options and their questions (ON DELETE CASCADE).
Kept(rows, left) == {a \in rows : a.option \in left /\ OptionOf[a.option] = a.question}

\* _merge_options: the option is not in the patch, two others are.
DropOption(o) ==
    /\ o \in choices
    /\ Cardinality({p \in choices : OptionOf[p] = OptionOf[o]}) > 2
    /\ choices' = choices \ {o}
    /\ answers' = Kept(answers, choices')
    /\ UNCHANGED <<asked, assessment, marks, strengths, missing, basis, torn, submitting, submits>>

\* delete_question
DeleteQuestion(q) ==
    /\ asked[q] \in {"active", "inactive"}
    /\ asked' = [asked EXCEPT ![q] = "deleted"]
    /\ choices' = {o \in choices : OptionOf[o] # q}
    /\ answers' = Kept(answers, choices')
    /\ UNCHANGED <<assessment, marks, strengths, missing, basis, torn, submitting, submits>>

-----------------------------------------------------------------------------
\* The seeker's side

\* submit_answers refuses an assessment that it knows to be completed.
MaySubmit == assessment.status # "completed"

\* get_for_user
LoadAssessment(c, given, complete) ==
    /\ submitting[c] = NoSubmission /\ submits < MaxSubmits
    /\ MaySubmit
    /\ submits' = submits + 1
    /\ submitting' = [submitting EXCEPT ![c] = [step |-> "row", n |-> submits', given |-> given,
                                               complete |-> complete, seen |-> assessment.status]]
    /\ UNCHANGED <<questionVars, resultVars>>

Active == {q \in Questions : asked[q] = "active"}

\* _applicable: by the options that were sent, for whatever question
Applicable(questions, given) ==
    {q \in questions : Trigger[q] = Always \/ \E p \in DOMAIN given : given[p] = Trigger[q]}

\* Progress is checked answer by answer, a complete form only where it counts.
Valid(given, complete) ==
    LET checked == IF complete THEN Applicable(Active, given) \cap DOMAIN given ELSE DOMAIN given IN
    /\ DOMAIN given \subseteq Active
    /\ \A q \in checked : given[q] \in choices /\ OptionOf[given[q]] = q
    /\ complete => checked # {}

\* The rest of submit_answers' reading: the rows of the assessment that will be
\* replaced, and list_questions.
ReadQuestionnaire(c) ==
    LET s == submitting[c] IN
    /\ s.step = "row" /\ Valid(s.given, s.complete)
    /\ submitting' = [submitting EXCEPT ![c] =
          [step |-> "read", n |-> s.n, given |-> s.given, complete |-> s.complete,
           old |-> answers, oldMarks |-> marks, oldStrengths |-> strengths, oldMissing |-> missing,
           asked |-> Applicable(Active, s.given), late |-> assessment.status # s.seen]]
    /\ UNCHANGED <<questionVars, resultVars, submits>>

Rows(s, questions) ==
    {[n |-> s.n, question |-> q, option |-> s.given[q]] : q \in questions \cap DOMAIN s.given}

\* An answer to an option that is gone by now is refused by its foreign key.
Replaced(s, rows) ==
    /\ \A a \in rows : a.option \in choices
    /\ answers' = (answers \ s.old) \cup rows

EndSubmission(c) == submitting' = [submitting EXCEPT ![c] = NoSubmission]

\* _persist_answers, for a form that is not complete
SaveProgress(c) ==
    LET s == submitting[c] IN
    /\ s.step = "read" /\ ~s.complete
    /\ Replaced(s, Rows(s, Questions))
    /\ torn' = (torn \/ s.late)
    /\ EndSubmission(c)
    /\ UNCHANGED <<questionVars, assessment, marks, strengths, missing, basis, submits>>

Rounded(n, d) == (2 * n + d) \div (2 * d)

\* weighted
Points(s) == [q \in s.asked \cap DOMAIN s.given |-> Worth[s.given[q]] * Weight[q]]

\* Mutation: the total counts questions, not their weights.
ScoreOfCount(s) == Rounded(100 * SumOver(Points(s), DOMAIN Points(s)), Cardinality(s.asked))

\* "Unanswered ones contribute 0 so skipping cannot produce an inflated score."
Score(s) == Rounded(100 * SumOver(Points(s), DOMAIN Points(s)), SumOver(Weight, s.asked))

\* category_totals
MarksOf(s) ==
    LET in(cat) == {q \in s.asked \cap DOMAIN s.given : Category[q] = cat} IN
    {[n |-> s.n, category |-> cat,
      score |-> Rounded(100 * SumOver([q \in in(cat) |-> Worth[s.given[q]]], in(cat)), Cardinality(in(cat)))]
       : cat \in {c \in Categories : in(c) # {}}}

\* _filter_strengths
Grounded(s, praised) ==
    {cat \in praised : \E m \in MarksOf(s) : m.category = cat /\ m.score >= 7000}

\* submit_answers of a complete form.  The model praises what it likes, or fails.
Complete(c, praised) ==
    LET s == submitting[c] IN
    /\ s.step = "read" /\ s.complete
    /\ Replaced(s, Rows(s, s.asked))
    /\ assessment' = [status |-> "completed", score |-> Score(s)]
    /\ marks' = (marks \ s.oldMarks) \cup MarksOf(s)
    /\ strengths' = (strengths \ s.oldStrengths) \cup Grounded(s, praised)
    /\ missing' = (missing \ s.oldMissing) \cup (s.asked \ DOMAIN s.given)
    /\ basis' = [answers |-> Rows(s, s.asked), asked |-> s.asked]
    /\ torn' = (torn \/ s.late)
    /\ EndSubmission(c)
    /\ UNCHANGED <<questionVars, submits>>

\* An answer is refused, or the process stops.
StopSubmission(c) ==
    /\ submitting[c] # NoSubmission /\ EndSubmission(c)
    /\ UNCHANGED <<questionVars, resultVars, submits>>

Administered ==
    \/ \E q \in Questions :
         \/ CreateQuestion(q) \/ DeleteQuestion(q)
         \/ \E to \in {"active", "inactive"} : SetActive(q, to)
    \/ \E to \in {"active", "inactive"} : BulkSetActive(to)
    \/ \E o \in Options : DropOption(o)

AssessmentNext ==
    \/ Administered
    \/ \E c \in Submitters :
         \/ \E given \in Given, complete \in BOOLEAN : LoadAssessment(c, given, complete)
         \/ ReadQuestionnaire(c) \/ SaveProgress(c)
         \/ \E praised \in SUBSET Categories : Complete(c, praised)
         \/ StopSubmission(c)

AssessmentSpec == AssessmentInit /\ [][AssessmentNext]_assessmentVars

-----------------------------------------------------------------------------
\* "A strength we cannot ground in the deterministic result must not be shown": a strength
\* is from a category with a score of 70 or more, whoever completes the assessment twice.
StrengthsGrounded ==
    \A cat \in strengths : \E m \in marks : m.category = cat /\ m.score >= 7000

\* Two decimals hide what a question lacks, if it is no more than a twenty-thousandth of them all.
Rounds(q, lacks) == 200 * Weight[q] * lacks <= SumOver(Weight, basis.asked)

\* "Incomplete submissions cannot inflate to 100%": whatever was submitted beside it, a
\* result stands on answers that are still stored (as long as their options are, and unless
\* a submission read the assessment while the result was being written), a full score on the
\* best answer to every question that applied (but for what is rounded), each question that
\* was left out is named, and the strengths are grounded.
ResultExplained ==
    assessment.status = "completed" =>
       /\ torn \/ Kept(basis.answers, choices) \subseteq answers
       /\ assessment.score = FullMark => \A q \in basis.asked :
             \/ Rounds(q, 100)
             \/ \E a \in basis.answers : a.question = q /\ Rounds(q, 100 - Worth[a.option])
       /\ torn \/ \A q \in basis.asked : q \in missing \/ \E a \in basis.answers : a.question = q
       /\ StrengthsGrounded

=============================================================================
