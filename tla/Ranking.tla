-------------------------------- MODULE Ranking --------------------------------
(***************************************************************************)
(* Which listings a search lets pass and how it ranks them                 *)
(* (search/relevance.py, and _filter of search/live.py).                   *)
(*                                                                         *)
(* A term is what stands between two blanks, a sequence of words: letters  *)
(* and digits, lower-cased.  A query or a skill is read term by term, its  *)
(* words joined together; a text is read word by word.  Pay that is not    *)
(* stated is 0, and so is a date.  Time is counted in half-lives of the    *)
(* recency bonus.                                                          *)
(***************************************************************************)
EXTENDS Integers, SequencesExt

CONSTANTS
  Alias,    \* TOKEN_ALIASES: word -> token, for the words that are not their own
  Joined,   \* terms of several words -> the word they make together
  Filters,  \* SearchState.filters
  Skills,   \* SearchState.profile_skills, as terms
  Near,     \* the location texts that contain Filters.location
  Now       \* SearchState.scored_at, and the time of the filter

NoMinimum == -1

ASSUME RankingAssumption ==
  /\ Filters.minimumSalary \in Nat \cup {NoMinimum}
  /\ Filters.statedOnly \in BOOLEAN
  /\ {Filters.since, Now} \subseteq Nat
  /\ Filters.query \in Seq(ToSet(Filters.query))
  /\ IsFiniteSet(Skills)

Canonical(word) == IF word \in DOMAIN Alias THEN Alias[word] ELSE word

\* normalize_token.  A term without a letter or digit has no token.
Tokens(term) ==
  IF term = <<>> THEN {} ELSE {Canonical(IF Len(term) = 1 THEN term[1] ELSE Joined[term])}

\* normalize_query_tokens
QueryTokens == UNION {Tokens(term) : term \in ToSet(Filters.query)}

SkillTokens == UNION {Tokens(term) : term \in Skills}

\* extract_text_tokens, field by field.
FieldTokens(o) ==
  LET Read(words) == {Canonical(word) : word \in words}
  IN [title       |-> Read(UNION {ToSet(o.title[n].words) : n \in DOMAIN o.title}),
      company     |-> Read(ToSet(o.company)),
      location    |-> Read(ToSet(o.location)),
      description |-> Read(ToSet(o.text))]

-----------------------------------------------------------------------------
(* What passes: _filter.                                                   *)

\* job_matches_query: every token, in one field or another.
MatchesQuery(o) == QueryTokens \subseteq UNION Range(FieldTokens(o))

\* job_matches_location
MatchesLocation(o) == Filters.location = <<>> \/ o.location \in Near

PaysEnough(o) ==
  LET ceiling == IF o.high > 0 THEN o.high ELSE o.low
  IN /\ Filters.statedOnly => ceiling > 0
     /\ Filters.minimumSalary # NoMinimum => ceiling > 0 /\ ceiling >= Filters.minimumSalary

IsRecent(o) == Filters.since = 0 \/ (o.posted > 0 /\ o.posted >= Filters.since)

Passes(o) == PaysEnough(o) /\ IsRecent(o) /\ MatchesQuery(o) /\ MatchesLocation(o)

-----------------------------------------------------------------------------
(* How it ranks: score_job, in fractions of 1 / Unit.                      *)

QueryWeight == [title |-> 10, company |-> 5, location |-> 3, description |-> 1]
SkillWeight == [title |-> 8, company |-> 4, location |-> 2, description |-> 1]
MaxSkillContribution == 20
MaxRecencyBonus == 2

Unit == Max({1, Cardinality(QueryTokens)}) * 2 ^ Now

\* _field_weight_for_token
FieldWeight(token, o, weights) ==
  MapThenSumSet(LAMBDA field : IF token \in FieldTokens(o)[field] THEN weights[field] ELSE 0,
                DOMAIN weights)

\* _query_contribution: what the tokens weigh, times the share of those that match.
QueryContribution(o) ==
  LET Weight(token) == FieldWeight(token, o, QueryWeight)
      matched == Cardinality({token \in QueryTokens : Weight(token) > 0})
  IN MapThenSumSet(Weight, QueryTokens) * matched * 2 ^ Now

\* _skill_contribution
SkillContribution(o) ==
  Unit * Min({MaxSkillContribution,
              MapThenSumSet(LAMBDA token : FieldWeight(token, o, SkillWeight), SkillTokens)})

\* Wrong variant: what is dated in the future gains on and on.
UnboundedBonus(o) ==
  IF o.posted = 0 THEN 0
  ELSE IF o.posted > Now THEN MaxRecencyBonus * Unit * 2 ^ (o.posted - Now)
  ELSE (MaxRecencyBonus * Unit) \div 2 ^ (Now - o.posted)

\* _recency_bonus.  What is dated in the future is no newer than now.
RecencyBonus(o) ==
  IF o.posted = 0 THEN 0
  ELSE (MaxRecencyBonus * Unit) \div 2 ^ Max({0, Now - o.posted})

\* What a listing is worth without its date.
Strength(o) == QueryContribution(o) + SkillContribution(o)

RelevanceScore(o) == Strength(o) + RecencyBonus(o)
=============================================================================
