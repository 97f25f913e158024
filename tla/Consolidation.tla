----------------------------- MODULE Consolidation -----------------------------
(***************************************************************************)
(* What a search makes of the listings its providers deliver               *)
(* (search/consolidation.py, normalization/dedup.py and the part of        *)
(* search/live.py that calls them): listings of the same role become one   *)
(* result, which keeps every source and shows the richest of them.         *)
(*                                                                         *)
(* LiveSearch counts results; here they are listed.  A client's page() and *)
(* resolve_job() run in worker threads and look at the list while a batch  *)
(* is folded into it, so a batch is folded one listing at a time.          *)
(*                                                                         *)
(* Text is a sequence of words: lower-cased, what is not a letter or digit *)
(* taken as a separator.  A title is a sequence of parts, in plain text or *)
(* within brackets; brackets do not nest.                                  *)
(***************************************************************************)
EXTENDS Ranking

CONSTANTS
  Provider,        \* provider keys
  Precedence,      \* KNOWN_KEYS: the more preferred a provider, the greater
  Alphabetical,    \* the place of a provider's key in the order of strings
  Offer,           \* listings as providers deliver them
  LegalSuffix,     \* _LEGAL_SUFFIXES
  RoleWord,        \* _MEANINGFUL_QUALIFIER_TOKENS, and words with a digit
  MaxCandidates,   \* search_max_candidates_per_search
  MaxBatch,        \* bound: offers in a batch
  MaxPages         \* bound: batches of a provider

Within == {"plain", "square", "round"}
GenderWord == {"m", "f", "w"}
SortOrder == {"relevance", "newest", "salary"}

ASSUME ConsolidationAssumption ==
  /\ {Precedence, Alphabetical} \subseteq [Provider -> Nat]
  /\ \A p, q \in Provider :
       p # q => Precedence[p] # Precedence[q] /\ Alphabetical[p] # Alphabetical[q]
  /\ {MaxCandidates, MaxBatch, MaxPages} \subseteq Nat
  /\ \A o \in Offer :
       /\ o.provider \in Provider
       /\ {o.id, o.low, o.high, o.length, o.posted} \subseteq Nat
       /\ o.title \in Seq(ToSet(o.title))
       /\ \A n \in DOMAIN o.title :
            /\ o.title[n].within \in Within
            /\ o.title[n].words \in Seq(ToSet(o.title[n].words))
  /\ RoleWord \cap GenderWord = {}

VARIABLES
  sort,          \* SearchFilters.sort
  status,        \* SearchState.status
  items,         \* SearchState.items
  dedupIndex,    \* SearchState.dedup_index: dedup key -> place in items
  accepted,      \* SearchState.accepted_candidate_count
  exhausted,     \* SearchState.aggregate_exhausted
  pages,         \* provider -> batches taken from it
  returned,      \* providers whose consumer has returned
  inHand,        \* what is left of the batch being folded in
  consolidated   \* history: every offer folded in so far

cvars == <<sort, status, items, dedupIndex, accepted, exhausted, pages, returned,
           inHand, consolidated>>

\* The offers that pass the search's filters, and what every offer scores: the score is
\* a function of what a result shows, so it is the same before and after a merge.
Matches == {o \in Offer : Passes(o)}
Relevance == [o \in Offer |-> RelevanceScore(o)]

-----------------------------------------------------------------------------
(* The identity of a role: derive_dedup_key.                               *)

Identity(o) == <<o.provider, o.id>>

\* normalize_company: legal suffixes are dropped from the end.
NormalizedCompany(words) ==
  LET bare == {n \in 0..Len(words) : \A i \in n + 1..Len(words) : words[i] \in LegalSuffix}
  IN SubSeq(words, 1, Min(bare))

IsGenderMarker(part) ==
  /\ part.within = "round"
  /\ Len(part.words) = 3 /\ ToSet(part.words) \subseteq GenderWord

\* Wrong variant: a qualifier is noise whatever it says.
NothingMeansAnything(part) == FALSE

\* _qualifier_is_meaningful
IsMeaningful(part) == ToSet(part.words) \cap RoleWord # {}

\* normalize_title: of what is within brackets, only what tells roles apart stays.
NormalizedTitle(parts) ==
  LET Kept(part) == IF part.within = "plain" \/ (~IsGenderMarker(part) /\ IsMeaningful(part))
                    THEN part.words ELSE <<>>
  IN FlattenSeq([n \in DOMAIN parts |-> Kept(parts[n])])

\* eligibility_token: countries, or else the location, or else anywhere.
EligibilityToken(o) ==
  [remote |-> o.remote, countries |-> o.countries,
   location |-> IF o.countries # {} THEN <<>>
                ELSE IF o.location # <<>> THEN o.location ELSE <<"any">>]

\* Without a company or a title a listing is like no other.
LikeNoOther(o) == NormalizedCompany(o.company) = <<>> \/ NormalizedTitle(o.title) = <<>>

DedupKey(o) ==
  IF LikeNoOther(o)
  THEN [unique |-> Identity(o)]
  ELSE [company |-> NormalizedCompany(o.company), title |-> NormalizedTitle(o.title),
        eligibility |-> EligibilityToken(o)]

-----------------------------------------------------------------------------
(* Merging two results: merge_results.                                     *)

\* source_richness: pay (0 where none is stated), then the length of the description,
\* then who delivers it.  No two providers have the same precedence.
Richness(o) ==
  <<IF o.high > 0 THEN o.high ELSE o.low, o.length, Precedence[o.provider], o.id>>

\* Tuples in the order of Python.
Exceeds(a, b) ==
  \E n \in DOMAIN a : a[n] > b[n] /\ \A i \in 1..n - 1 : a[i] = b[i]

\* A result is the offer it shows and the other sources of the role.
NewResult(o) == [offer |-> o, alternates |-> {}]

Sources(result) == result.alternates \cup {Identity(result.offer)}

\* Wrong variant: the first one delivered stays.
FirstComes(current, incoming) == current

\* pick_canonical
PickCanonical(current, incoming) ==
  IF Exceeds(Richness(incoming.offer), Richness(current.offer)) THEN incoming ELSE current

\* Wrong variant: only the alternates of the canonical result survive.
MergeOwn(current, incoming) ==
  LET canonical == PickCanonical(current, incoming)
      loser == IF Identity(canonical.offer) = Identity(current.offer)
               THEN incoming ELSE current
  IN [canonical EXCEPT !.alternates =
        @ \cup ({Identity(loser.offer)} \ {Identity(canonical.offer)})]

\* The canonical result with whatever other source either of them has.
MergeResults(current, incoming) ==
  LET canonical == PickCanonical(current, incoming)
      loser == IF Identity(canonical.offer) = Identity(current.offer)
               THEN incoming ELSE current
  IN [canonical EXCEPT !.alternates =
        @ \cup (({Identity(loser.offer)} \cup current.alternates \cup incoming.alternates)
                  \ {Identity(canonical.offer)})]

-----------------------------------------------------------------------------
(* A search: _consume_provider, _consolidate_items, the sort of _populate. *)

Init ==
  /\ sort \in SortOrder
  /\ status = "loading"
  /\ items = <<>>
  /\ dedupIndex = [k \in {} |-> 0]
  /\ accepted = 0
  /\ exhausted = FALSE
  /\ pages = [p \in Provider |-> 0]
  /\ returned = {}
  /\ inHand = <<>>
  /\ consolidated = {}

\* No batch is in hand: the code between two suspension points is done.
Idle == status = "loading" /\ inHand = <<>>

Batch(p) == SeqOf({o \in Offer : o.provider = p}, MaxBatch)

\* A batch arrives: as much of it as the search may still accept is taken in hand.  A
\* consumer that is cut off returns.
TakeBatch(p, batch) ==
  LET remaining == IF accepted < MaxCandidates THEN MaxCandidates - accepted ELSE 0
      budgeted  == SubSeq(batch, 1, Min({Len(batch), remaining}))
      cutOff    == Len(budgeted) < Len(batch)
  IN /\ Idle /\ p \notin returned /\ ~exhausted /\ pages[p] < MaxPages
     /\ accepted' = accepted + Len(budgeted)
     /\ exhausted' = cutOff
     /\ inHand' = budgeted
     /\ pages' = [pages EXCEPT ![p] = @ + 1]
     /\ returned' = returned \cup (IF cutOff THEN {p} ELSE {})
     /\ UNCHANGED <<sort, status, items, dedupIndex, consolidated>>

\* The provider ends or fails, or the budget is gone when its next batch comes.
ProviderReturns(p) ==
  /\ Idle /\ p \notin returned
  /\ returned' = returned \cup {p}
  /\ UNCHANGED <<sort, status, items, dedupIndex, accepted, exhausted, pages, inHand,
                 consolidated>>

\* Wrong variant: the place is taken before the result is there.
IndexBehind(k) == [key \in DOMAIN dedupIndex \cup {k} |->
                     IF key = k THEN Len(items) ELSE dedupIndex[key]]

Index(k) == [key \in DOMAIN dedupIndex \cup {k} |->
               IF key = k THEN Len(items) + 1 ELSE dedupIndex[key]]

\* _filter, which runs first but changes nothing, drops it.
SkipNext ==
  /\ inHand # <<>> /\ Head(inHand) \notin Matches
  /\ inHand' = Tail(inHand)
  /\ UNCHANGED <<sort, status, items, dedupIndex, accepted, exhausted, pages, returned,
                 consolidated>>

\* One round of the loop of _consolidate_items.
ConsolidateNext ==
  /\ inHand # <<>> /\ Head(inHand) \in Matches
  /\ LET o == Head(inHand)
         k == DedupKey(o)
     IN /\ \/ /\ k \in DOMAIN dedupIndex
              /\ items' = [items EXCEPT ![dedupIndex[k]] = MergeResults(@, NewResult(o))]
              /\ UNCHANGED dedupIndex
           \/ /\ k \notin DOMAIN dedupIndex
              /\ items' = Append(items, NewResult(o))
              /\ dedupIndex' = Index(k)
        /\ consolidated' = consolidated \cup {o}
  /\ inHand' = Tail(inHand)
  /\ UNCHANGED <<sort, status, accepted, exhausted, pages, returned>>

\* What a result is sorted by, the greater the sooner.  Results that are alike are in
\* the order of their identities, which only relevance does not turn around.
SortKey(by, o) ==
  LET place == Alphabetical[o.provider]
  IN IF by = "relevance" THEN <<Relevance[o], -place, -o.id>>
     ELSE <<IF by = "newest" THEN o.posted ELSE o.high, place, o.id>>

\* Wrong variant: only the value counts.
AheadByValue(m, n) ==
  LET key(i) == SortKey(sort, items[i].offer)
  IN \/ key(m)[1] > key(n)[1]
     \/ key(m)[1] = key(n)[1] /\ m < n

\* sorted() leaves results with the same key as they were.
Ahead(m, n) ==
  LET key(i) == SortKey(sort, items[i].offer)
  IN \/ Exceeds(key(m), key(n))
     \/ key(m) = key(n) /\ m < n

\* _sort: the places of the results in the order they are shown.
Orders == {order \in Bijection(DOMAIN items, DOMAIN items) :
             \A m, n \in DOMAIN items : m < n => Ahead(order[m], order[n])}

\* Every consumer is back: the final order.  dedup_index stays as it is.
SortResults ==
  /\ Idle
  /\ returned = Provider
  /\ \E order \in Orders : items' = [n \in DOMAIN items |-> items[order[n]]]
  /\ status' = "settled"
  /\ UNCHANGED <<sort, dedupIndex, accepted, exhausted, pages, returned, inHand,
                 consolidated>>

Next ==
  \/ \E p \in Provider : \E batch \in Batch(p) : TakeBatch(p, batch)
  \/ \E p \in Provider : ProviderReturns(p)
  \/ SkipNext
  \/ ConsolidateNext
  \/ SortResults

Spec == Init /\ [][Next]_cvars

-----------------------------------------------------------------------------
(* Resolving a listing by any of its sources: resolve_job.                 *)

\* Wrong variant: by the identity the result shows only.
CarriesCanonical(result, identity) == Identity(result.offer) = identity

\* matches_source_identity
Carries(result, identity) == identity \in Sources(result)

NotFound == 0

\* The place of the first result that carries it.
Resolved(identity) ==
  LET found == {n \in DOMAIN items : Carries(items[n], identity)}
  IN IF found = {} THEN NotFound ELSE Min(found)

-----------------------------------------------------------------------------
(* Correctness. *)

SameRole(o) == {q \in consolidated : DedupKey(q) = DedupKey(o)}

\* A listing that was delivered again under another title or place is two roles.
KeepsRole(identity) ==
  \A o, q \in consolidated :
    Identity(o) = identity /\ Identity(q) = identity => DedupKey(o) = DedupKey(q)

\* JE-008, search-time consolidation, criteria 2 and 4: in whatever order the offers of a
\* role arrived, and however often each did, the result shows the richest of them.
RichestIsShown ==
  \A n \in DOMAIN items : \A o \in SameRole(items[n].offer) :
    ~Exceeds(Richness(o), Richness(items[n].offer))

\* JE-008 criterion 2: no source is silently dropped and none is listed twice; the
\* sources of a result are those of the offers of its role, and the one that is shown
\* is not an alternate of itself.
EverySourceKept ==
  \A n \in DOMAIN items :
    LET result == items[n]
    IN /\ Sources(result) = {Identity(o) : o \in SameRole(result.offer)}
       /\ Identity(result.offer) \notin result.alternates

\* JE-008 criterion 8, before and after the sort: whichever source of a result a client
\* names, it gets that result, unless the provider had a listing change its role.
AnySourceResolves ==
  \A o \in consolidated :
    KeepsRole(Identity(o)) =>
      /\ Resolved(Identity(o)) # NotFound
      /\ DedupKey(items[Resolved(Identity(o))].offer) = DedupKey(o)

\* JE-008 criterion 3: listings of one result ask for the same level, in brackets or
\* not, and the same countries, whoever names the company in full.  A listing that is
\* like no other is only ever one with itself, in whatever versions it came.
RoleWords(o) == (UNION {ToSet(o.title[n].words) : n \in DOMAIN o.title}) \cap RoleWord
DistinctRolesStayApart ==
  \A n \in DOMAIN items : \A o \in consolidated :
    Identity(o) \in Sources(items[n]) /\ KeepsRole(Identity(o)) /\ ~LikeNoOther(o) =>
      /\ RoleWords(o) = RoleWords(items[n].offer)
      /\ o.countries = items[n].offer.countries

\* JE-007 criterion 7: the settled page is a function of what was delivered, not of the
\* order it came in, provided no listing changed its role or came in two versions that
\* are equally rich: it is the one list of the best offers in which each comes strictly
\* before the next.
SettledOrderIsFixed ==
  LET best == {o \in consolidated :
                 \A q \in SameRole(o) : ~Exceeds(Richness(q), Richness(o))}
  IN /\ status = "settled"
     /\ \A o \in consolidated : KeepsRole(Identity(o))
     /\ \A o, q \in best : DedupKey(o) = DedupKey(q) => o = q
     => /\ {items[n].offer : n \in DOMAIN items} = best
        /\ \A m, n \in DOMAIN items :
             m < n => Exceeds(SortKey(sort, items[m].offer), SortKey(sort, items[n].offer))

\* JE-011: recency is a bounded nudge.  In a settled search ranked by relevance no result
\* comes before one that matches the query and the skills better by more than the whole
\* bonus, whatever dates the providers gave them, those in the future included.
RecencyOnlyNudges ==
  status = "settled" /\ sort = "relevance" =>
    \A m, n \in DOMAIN items :
      m < n => Strength(items[n].offer) <= Strength(items[m].offer) + MaxRecencyBonus * Unit

\* A client that pages through a loading search (page() slices the list) finds each
\* role where it was: results are only ever added at the end until the final sort.
PlacesStayUntilSorted ==
  [][status' = "loading" =>
       \A n \in DOMAIN items :
         /\ n \in DOMAIN items'
         /\ DedupKey(items'[n].offer) = DedupKey(items[n].offer)
         /\ Sources(items[n]) \subseteq Sources(items'[n])]_cvars
=============================================================================
