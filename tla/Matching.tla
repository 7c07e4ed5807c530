------------------------------ MODULE Matching ------------------------------
(* How advisors are ranked for a seeker's case (advisor_matching_service,     *)
(* ai_advisor_match_service).  A hard gate, a score by rules, and a model     *)
(* that is asked to rank the best of the list again, whose answer may name    *)
(* anybody, in any order, and leave out whom it likes.                        *)
(*                                                                            *)
(* Scores and weights are in hundredths of a percent, so that 10000 is a full *)
(* match.  A ranking is a sequence of records of a candidate and a score.     *)
EXTENDS Naturals, FiniteSets, Sequences, SequencesExt, Tables

CONSTANT PoolSize \* AI_CANDIDATE_POOL: how many of the list the model gets to see

ASSUME PoolAssumption == PoolSize \in Nat \ {0}

-----------------------------------------------------------------------------
\* What a candidate has of what the case asks for.
Facts == [country : BOOLEAN, visa : BOOLEAN, language : BOOLEAN,
          services : {"not asked", "offered", "missing"}, years : Nat, rating : 0 .. 5]

Full == 10000

\* DEFAULT_CONFIG
DefaultWeights == [country |-> 2500, visa |-> 2500, language |-> 1500, services |-> 1500,
                   experience |-> 1000, rating |-> 1000]

AtMostFull(score) == IF score > Full THEN Full ELSE score

Gated(f) == f.country /\ f.visa

LanguagePoints(w, f) == IF f.language THEN w.language ELSE 0

ServicesPoints(w, f) ==
    CASE f.services = "offered" -> w.services
      [] f.services = "not asked" -> w.services \div 2
      [] OTHER -> 0

\* Half of the weight for five years, all of it for fifteen
ExperiencePoints(w, f) ==
    CASE f.years >= 15 -> w.experience
      [] f.years >= 5 /\ f.years < 15 -> (w.experience * (f.years + 5)) \div 20
      [] OTHER -> (w.experience * f.years) \div 10

RatingPoints(w, f) == (w.rating * f.rating) \div 5

\* score_advisor_for_assessment
AdvisorScore(w, f) ==
    IF Gated(f)
    THEN AtMostFull(w.country + w.visa + LanguagePoints(w, f) + ServicesPoints(w, f)
                    + ExperiencePoints(w, f) + RatingPoints(w, f))
    ELSE 0

-----------------------------------------------------------------------------
Ids(rows) == {x.id : x \in rows}

ScoreIn(rows, id) == (CHOOSE x \in rows : x.id = id).score

\* The rows of a set, a higher score before a lower one
BestFirst(rows) == Descending(rows, [x \in rows |-> x.score])

\* The ranking by `scores`, a function on people, of those who score at all
ByRule(scores) ==
    BestFirst({[id |-> p, score |-> scores[p]] : p \in {q \in DOMAIN scores : scores[q] > 0}})

Pool(list) == SubSeq(list, 1, IF Len(list) < PoolSize THEN Len(list) ELSE PoolSize)

\* rerank_advisors: the first the model says of anybody it was shown
Heard(pool, answer) ==
    {answer[i] : i \in {j \in DOMAIN answer : /\ answer[j].id \in Ids(ToSet(pool))
                                              /\ \A k \in 1 .. j - 1 : answer[k].id # answer[j].id}}

\* blend_scores: 35 parts of the rules' score and 65 of the model's
Blend(rule, ai) == AtMostFull((35 * rule + 65 * ai) \div 100)

\* Mutation: whom the model has left out drops out of the ranking.
BlendedHeard(list, answer) ==
    BestFirst({[x EXCEPT !.score = Blend(ScoreIn(ToSet(list), x.id), @)] : x \in Heard(Pool(list), answer)})

\* _apply_ai_blend: whom the model left out keeps the score of the rules, and
\* who was not shown to it comes after the pool, whatever the score.
Blended(list, answer) ==
    LET pool == Pool(list)
        heard == Heard(pool, answer)
        blended == {IF x.id \in Ids(heard) THEN [x EXCEPT !.score = Blend(@, ScoreIn(heard, x.id))] ELSE x
                       : x \in ToSet(pool)}
    IN  BestFirst(blended) \o SubSeq(list, Len(pool) + 1, Len(list))

=============================================================================
