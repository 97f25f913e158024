-------------------------- MODULE FeedAdaptersProofs --------------------------
(***************************************************************************)
(* What the four single-feed adapters promise, for documents of any        *)
(* length, any settings and any number of attempts: the limits that are    *)
(* configured hold, what is delivered is complete and in order up to the   *)
(* cap, a warning stands for something, and only a conversion raises.      *)
(*                                                                         *)
(* The invariant (FeedInv) says of a generator that has delivered that the *)
(* batches its consumer has taken and those it has not are together one    *)
(* list, cut into pieces of one size; the rest is about that list.         *)
(***************************************************************************)
EXTENDS FeedAdapters, Counting

Settled ==
  /\ settings \in Configurations /\ ~Refused(settings)
  /\ adapter \in BuildProviders(settings) \cap AdapterKeys

-----------------------------------------------------------------------------
(* The limits.                                                             *)

\* A bounded option is within its bounds, and the value that was given if that is.
LEMMA OptionBounded ==
  ASSUME NEW value \in {Absent, Junk} \cup Int, NEW maximum \in Nat \ {0},
         NEW default \in 1..maximum
  PROVE  /\ BoundedOption(value, default, maximum) \in 1..maximum
         /\ BoundedOption(value, default, maximum)
              = IF value \in 1..maximum THEN value ELSE default
BY RegistryAssumption DEF BoundedOption, CoerceInt

LEMMA LimitsAre ==
  ASSUME Settled
  PROVE  LET set == Options(settings, adapter)
             own == IF adapter = "remoteok" /\ set.result_cap = Absent
                    THEN set.batch_size ELSE set.result_cap
         IN /\ Cap = (IF own \in 1..MaxCap THEN own ELSE DefaultCap[adapter])
            /\ MaxRetries = (IF set.request_budget \in 1..MaxBudget
                             THEN set.request_budget ELSE DefaultBudget[adapter])
            /\ Cap \in Nat \ {0} /\ BatchSize \in Nat \ {0} /\ MaxRetries \in Nat \ {0}
<1> DEFINE values == {Absent, Junk} \cup Int
           set == Options(settings, adapter)
<1>1. adapter \in KnownKeys
  BY DEF Settled, AdapterKeys, KnownKeys
<1>2. /\ settings \in Settings([OptionNames -> values])
      /\ settings.config[adapter] # Junk
  BY <1>1, FeedAssumption DEF Settled, Refused
<1>3. settings.config[adapter] \in {Absent} \cup Entry([OptionNames -> values])
  BY <1>1, <1>2 DEF Settings
<1>4. set \in [OptionNames -> values]
  <2>1. CASE settings.config[adapter] = Absent
    BY <2>1 DEF Options
  <2>2. CASE settings.config[adapter] # Absent
    BY <1>3, <2>2 DEF Options, Entry
  <2> QED
    BY <2>1, <2>2
<1> HIDE DEF set
<1>5. set.result_cap \in values /\ set.batch_size \in values /\ set.request_budget \in values
  BY <1>4 DEF OptionNames
<1>6. /\ MaxCap \in Nat \ {0} /\ MaxBudget \in Nat \ {0}
      /\ DefaultCap[adapter] \in 1..MaxCap /\ DefaultBudget[adapter] \in 1..MaxBudget
  BY <1>1, RegistryAssumption
<1> DEFINE own == IF adapter = "remoteok" /\ set.result_cap = Absent
                  THEN set.batch_size ELSE set.result_cap
           size == IF set.result_cap = Absent THEN set.batch_size ELSE set.result_cap
<1>7. /\ Cap = BoundedOption(own, DefaultCap[adapter], MaxCap)
      /\ BatchSize = BoundedOption(size, DefaultCap[adapter], MaxCap)
      /\ MaxRetries = BoundedOption(set.request_budget, DefaultBudget[adapter], MaxBudget)
  BY DEF Cap, BatchSize, MaxRetries, ResultCapOf, BatchSizeOf, RequestBudgetOf, set
<1>8. own \in values /\ size \in values
  BY <1>5
<1> HIDE DEF own, size
<1>9. /\ Cap \in 1..MaxCap /\ BatchSize \in 1..MaxCap /\ MaxRetries \in 1..MaxBudget
      /\ Cap = (IF own \in 1..MaxCap THEN own ELSE DefaultCap[adapter])
      /\ MaxRetries = (IF set.request_budget \in 1..MaxBudget
                       THEN set.request_budget ELSE DefaultBudget[adapter])
  <2> DEFINE cap == DefaultCap[adapter]
             budget == DefaultBudget[adapter]
             request == set.request_budget
  <2>1. request \in values /\ cap \in 1..MaxCap /\ budget \in 1..MaxBudget
    BY <1>5, <1>6
  <2>2. /\ Cap = BoundedOption(own, cap, MaxCap) /\ BatchSize = BoundedOption(size, cap, MaxCap)
        /\ MaxRetries = BoundedOption(request, budget, MaxBudget)
    BY <1>7
  <2> HIDE DEF cap, budget, request
  <2>3. Cap \in 1..MaxCap /\ Cap = (IF own \in 1..MaxCap THEN own ELSE cap)
    <3>1. /\ BoundedOption(own, cap, MaxCap) \in 1..MaxCap
          /\ BoundedOption(own, cap, MaxCap) = IF own \in 1..MaxCap THEN own ELSE cap
      BY <1>6, <1>8, <2>1, OptionBounded
    <3> QED
      BY <2>2, <3>1
  <2>4. BatchSize \in 1..MaxCap
    BY <1>6, <1>8, <2>1, <2>2, OptionBounded
  <2>5. /\ MaxRetries \in 1..MaxBudget
        /\ MaxRetries = (IF request \in 1..MaxBudget THEN request ELSE budget)
    <3>1. /\ BoundedOption(request, budget, MaxBudget) \in 1..MaxBudget
          /\ BoundedOption(request, budget, MaxBudget)
               = IF request \in 1..MaxBudget THEN request ELSE budget
      BY <1>6, <2>1, OptionBounded
    <3> QED
      BY <2>2, <3>1
  <2> QED
    BY <2>3, <2>4, <2>5 DEF cap, budget, request
<1>10. Cap \in Nat \ {0} /\ BatchSize \in Nat \ {0} /\ MaxRetries \in Nat \ {0}
  BY <1>6, <1>9
<1> QED
  BY <1>9, <1>10 DEF own, set

-----------------------------------------------------------------------------
(* The rows of a document.                                                 *)

\* The rows that give results.
Kept(rows) == Examined(rows) \cap Jobs(rows)

LEMMA RowsAre ==
  ASSUME NEW rows \in Seq(Row)
  PROVE  /\ Objects(rows) \in SUBSET Nat /\ IsFiniteSet(Objects(rows))
         /\ Cardinality(Objects(rows)) <= Len(rows)
         /\ Jobs(rows) \subseteq Objects(rows)
         /\ Jobs(rows) \in SUBSET Nat /\ IsFiniteSet(Jobs(rows))
         /\ Cardinality(Jobs(rows)) \in Nat
         /\ Cardinality(Jobs(rows)) <= Cardinality(Objects(rows))
         /\ Cardinality(Objects(rows)) \in Nat /\ Len(rows) \in Nat
         /\ Examined(rows) \subseteq Objects(rows)
         /\ Kept(rows) \in SUBSET Nat /\ IsFiniteSet(Kept(rows))
<1>1. Len(rows) \in Nat /\ DOMAIN rows = 1..Len(rows)
  OBVIOUS
<1>2. IsFiniteSet(1..Len(rows)) /\ Cardinality(1..Len(rows)) = Len(rows)
  <2>1. /\ IsFiniteSet(1..Len(rows))
        /\ Cardinality(1..Len(rows)) = IF 1 > Len(rows) THEN 0 ELSE Len(rows) - 1 + 1
    BY <1>1, FS_Interval, SMTT(30)
  <2> QED
    BY <1>1, <2>1
<1>3. Objects(rows) \in SUBSET (1..Len(rows)) /\ Jobs(rows) \in SUBSET Objects(rows)
  BY <1>1 DEF Objects, Jobs
<1>4. IsFiniteSet(Objects(rows)) /\ Cardinality(Objects(rows)) <= Len(rows)
  BY <1>2, <1>3, FS_Subset
<1>5. IsFiniteSet(Jobs(rows)) /\ Cardinality(Jobs(rows)) <= Cardinality(Objects(rows))
  BY <1>3, <1>4, FS_Subset
<1>6. Examined(rows) \subseteq Objects(rows)
  BY DEF Examined, Entries, Reached
<1>7. Kept(rows) \in SUBSET Jobs(rows)
  BY DEF Kept
<1>8. IsFiniteSet(Kept(rows))
  BY <1>5, <1>7, FS_Subset
<1>9. Cardinality(Jobs(rows)) \in Nat /\ Cardinality(Objects(rows)) \in Nat
  BY <1>4, <1>5, FS_CardinalityType
<1>10. Objects(rows) \in SUBSET Nat /\ Jobs(rows) \in SUBSET Nat /\ Kept(rows) \in SUBSET Nat
  BY <1>1, <1>3, <1>7
<1> QED
  BY <1>1, <1>3, <1>4, <1>5, <1>6, <1>8, <1>9, <1>10

\* In a set of rows, each has as many before it as its place says.
LEMMA PlaceOfRow ==
  ASSUME NEW S \in SUBSET Nat, IsFiniteSet(S)
  PROVE  /\ \A i \in S : Cardinality({j \in S : j < i}) \in 0..Cardinality(S) - 1
         /\ \A i, j \in S :
              /\ i < j <=> Cardinality({n \in S : n < i}) < Cardinality({n \in S : n < j})
              /\ Cardinality({n \in S : n < i}) = Cardinality({n \in S : n < j}) => i = j
         /\ \A n \in 0..Cardinality(S) - 1 : \E i \in S : Cardinality({j \in S : j < i}) = n
<1> DEFINE place == [k \in S |-> Cardinality({j \in S : j < k})]
           T == 0..Cardinality(S) - 1
<1>1. place \in Bijection(S, T) /\ \A j, k \in S : j < k <=> place[j] < place[k]
  BY NumbersInOrder
<1>2. \A i \in S : place[i] = Cardinality({j \in S : j < i})
  OBVIOUS
<1> HIDE DEF place, T
<1>3. place \in Injection(S, T) /\ place \in Surjection(S, T)
  BY <1>1, Fun_BijectionProperties
<1>4. place \in [S -> T] /\ \A i, j \in S : place[i] = place[j] => i = j
  BY <1>3, Fun_InjectionProperties
<1>5. \A n \in T : \E i \in S : place[i] = n
  BY <1>3, Fun_SurjectionProperties
<1> QED
  BY <1>1, <1>2, <1>4, <1>5, SMTT(30) DEF T

LEMMA RowsInOrder ==
  ASSUME NEW S \in SUBSET Nat, IsFiniteSet(S)
  PROVE  \A i, j \in S :
           i < j <=> Cardinality({n \in S : n < i}) < Cardinality({n \in S : n < j})
BY PlaceOfRow, SMTT(30)

\* Rows of S, each with less than n rows of S before it, are at most n.
LEMMA FewBefore ==
  ASSUME NEW S \in SUBSET Nat, IsFiniteSet(S), NEW n \in Nat,
         NEW U \in SUBSET {i \in S : Cardinality({j \in S : j < i}) < n}
  PROVE  IsFiniteSet(U) /\ Cardinality(U) <= n
<1> DEFINE f == [i \in U |-> Cardinality({j \in S : j < i})]
           T == 0..n - 1
<1>1. \A i \in S : Cardinality({j \in S : j < i}) \in 0..Cardinality(S) - 1
  BY PlaceOfRow
<1>2. f \in [U -> T]
  <2>1. ASSUME NEW i \in U
        PROVE  f[i] \in T
    <3>1. f[i] \in 0..Cardinality(S) - 1 /\ f[i] < n
      BY <1>1
    <3>2. Cardinality(S) \in Nat
      BY FS_CardinalityType
    <3> HIDE DEF f
    <3> QED
      BY <3>1, <3>2
  <2> QED
    BY <2>1
<1>3. ASSUME NEW i \in U, NEW j \in U, f[i] = f[j]
      PROVE  i = j
  <2>1. i \in S /\ j \in S
    OBVIOUS
  <2>2. Cardinality({m \in S : m < i}) = Cardinality({m \in S : m < j})
    BY <1>3
  <2> QED
    BY <2>1, <2>2, PlaceOfRow
<1>4. IsFiniteSet(T) /\ Cardinality(T) = n
  <2>1. IsFiniteSet(0..n - 1) /\ Cardinality(0..n - 1) = IF 0 > n - 1 THEN 0 ELSE n - 1 - 0 + 1
    BY FS_Interval
  <2> QED
    BY <2>1
<1> HIDE DEF f, T
<1>5. f \in Injection(U, T)
  BY <1>2, <1>3, Fun_IsInj
<1> QED
  BY <1>4, <1>5, FS_Injection

\* If there are more than n in all, those with less than n before them are n.
LEMMA FirstOnes ==
  ASSUME NEW S \in SUBSET Nat, IsFiniteSet(S), NEW n \in Nat, n <= Cardinality(S)
  PROVE  Cardinality({i \in S : Cardinality({j \in S : j < i}) < n}) = n
<1> DEFINE U == {i \in S : Cardinality({j \in S : j < i}) < n}
           f == [i \in U |-> Cardinality({j \in S : j < i})]
           T == 0..n - 1
<1>1. Cardinality(S) \in Nat
  BY FS_CardinalityType
<1>2. \A i \in S : Cardinality({j \in S : j < i}) \in 0..Cardinality(S) - 1
  BY PlaceOfRow
<1>3. f \in [U -> T]
  <2>1. ASSUME NEW i \in U
        PROVE  f[i] \in T
    <3>1. f[i] \in 0..Cardinality(S) - 1 /\ f[i] < n
      BY <1>2
    <3> HIDE DEF f
    <3> QED
      BY <1>1, <3>1
  <2> QED
    BY <2>1
<1>4. \A i, j \in U : f[i] = f[j] => i = j
  BY PlaceOfRow
<1>5. ASSUME NEW m \in T
      PROVE  \E i \in U : f[i] = m
  <2>1. m \in 0..Cardinality(S) - 1 /\ m < n
    BY <1>1
  <2>2. PICK i \in S : Cardinality({j \in S : j < i}) = m
    BY <2>1, PlaceOfRow
  <2> QED
    BY <2>1, <2>2
<1>6. IsFiniteSet(T) /\ Cardinality(T) = n
  <2>1. IsFiniteSet(0..n - 1) /\ Cardinality(0..n - 1) = IF 0 > n - 1 THEN 0 ELSE n - 1 - 0 + 1
    BY FS_Interval
  <2> QED
    BY <2>1
<1> HIDE DEF f, T, U
<1>7. f \in Injection(U, T) /\ f \in Surjection(U, T)
  BY <1>3, <1>4, <1>5, Fun_IsInj, Fun_IsSurj
<1>8. Cardinality(U) = n
  BY <1>6, <1>7, FS_Injection
<1> QED
  BY <1>8 DEF U

\* The results are those rows, each once and in the order of the document.
LEMMA NormalizedIs ==
  ASSUME NEW rows \in Seq(Row)
  PROVE  /\ Normalized(rows) \in Seq(Nat)
         /\ Len(Normalized(rows)) = Cardinality(Kept(rows))
         /\ ToSet(Normalized(rows)) = Kept(rows)
         /\ \A m, n \in 1..Len(Normalized(rows)) :
              m < n => Normalized(rows)[m] < Normalized(rows)[n]
<1> DEFINE S == Kept(rows)
           c == Cardinality(S)
           N == Normalized(rows)
           Earlier(i) == Cardinality({j \in S : j < i})
<1>1. S \in SUBSET Nat /\ IsFiniteSet(S) /\ c \in Nat
  BY RowsAre, FS_CardinalityType
<1>2. N = [n \in 1..c |-> CHOOSE i \in S : Earlier(i) = n - 1]
  BY DEF Normalized, Kept
<1>3. /\ \A i \in S : Earlier(i) \in 0..c - 1
      /\ \A i, j \in S : (i < j <=> Earlier(i) < Earlier(j)) /\ (Earlier(i) = Earlier(j) => i = j)
      /\ \A n \in 0..c - 1 : \E i \in S : Earlier(i) = n
  <2> HIDE DEF S
  <2> QED
    BY <1>1, PlaceOfRow
<1> HIDE DEF S, c, N, Earlier
<1>4. ASSUME NEW n \in 1..c
      PROVE  N[n] \in S /\ Earlier(N[n]) = n - 1
  <2>1. n - 1 \in 0..c - 1
    BY <1>1
  <2>2. \E i \in S : Earlier(i) = n - 1
    BY <1>3, <2>1
  <2> QED
    BY <1>2, <2>2
<1>5. DOMAIN N = 1..c /\ N = [n \in 1..c |-> N[n]]
  BY <1>2
<1>6. N \in Seq(Nat) /\ Len(N) = c
  BY <1>1, <1>4, <1>5
<1>7. ASSUME NEW i \in S
      PROVE  \E n \in 1..c : N[n] = i
  <2>1. Earlier(i) + 1 \in 1..c /\ Earlier(i) + 1 - 1 = Earlier(i)
    BY <1>1, <1>3
  <2>2. N[Earlier(i) + 1] = i
    BY <1>3, <1>4, <2>1
  <2> QED
    BY <2>1, <2>2
<1>8. ToSet(N) = S
  BY <1>4, <1>5, <1>7 DEF ToSet
<1>9. ASSUME NEW m \in 1..c, NEW n \in 1..c, m < n
      PROVE  N[m] < N[n]
  <2>1. Earlier(N[m]) < Earlier(N[n])
    BY <1>1, <1>4, <1>9
  <2> QED
    BY <1>3, <1>4, <2>1
<1> QED
  BY <1>6, <1>8, <1>9 DEF S, c, N

\* The cap holds.
LEMMA KeptAreFew ==
  ASSUME Settled, NEW rows \in Seq(Row)
  PROVE  /\ IsFiniteSet(Kept(rows)) /\ Cardinality(Kept(rows)) \in Nat
         /\ Cardinality(Kept(rows)) <= Cap
<1>1. Cap \in Nat
  BY LimitsAre
<1>2. CASE adapter = "weworkremotely"
  <2>1. Kept(rows) \in SUBSET {i \in Objects(rows) :
                                 Cardinality({j \in Objects(rows) : j < i}) < Cap}
    BY <1>2 DEF Kept, Examined, Entries, ObjectsBefore
  <2>2. Objects(rows) \in SUBSET Nat /\ IsFiniteSet(Objects(rows))
    BY RowsAre
  <2> QED
    BY <1>1, <2>1, <2>2, FewBefore, FS_CardinalityType
<1>3. CASE adapter # "weworkremotely"
  <2>1. Kept(rows) \in SUBSET {i \in Jobs(rows) :
                                 Cardinality({j \in Jobs(rows) : j < i}) < Cap}
    BY <1>3 DEF Kept, Examined, Reached, JobsBefore
  <2>2. Jobs(rows) \in SUBSET Nat /\ IsFiniteSet(Jobs(rows))
    BY RowsAre
  <2> QED
    BY <1>1, <2>1, <2>2, FewBefore, FS_CardinalityType
<1> QED
  BY <1>2, <1>3

\* What is left out comes after all that is kept, and only because the cap is reached.
LEMMA LeftOut ==
  ASSUME Settled, NEW rows \in Seq(Row), NEW i \in Jobs(rows) \ Kept(rows)
  PROVE  /\ \A j \in Kept(rows) : j < i
         /\ IF adapter = "weworkremotely"
            THEN ObjectsBefore(rows, i) >= Cap /\ Cardinality(Objects(rows)) >= Cap
            ELSE Cardinality(Kept(rows)) = Cap /\ HitCap(rows)
         /\ Len(rows) >= Cap
<1>1. Cap \in Nat
  BY LimitsAre
<1>2. /\ Objects(rows) \in SUBSET Nat /\ IsFiniteSet(Objects(rows))
      /\ Jobs(rows) \in SUBSET Nat /\ IsFiniteSet(Jobs(rows))
      /\ i \in Jobs(rows) /\ i \in Objects(rows) /\ i \notin Examined(rows)
      /\ Cardinality(Jobs(rows)) \in Nat /\ Cardinality(Objects(rows)) \in Nat
      /\ Cardinality(Jobs(rows)) <= Cardinality(Objects(rows))
      /\ Cardinality(Objects(rows)) <= Len(rows) /\ Len(rows) \in Nat
  BY RowsAre DEF Kept
<1>3. CASE adapter = "weworkremotely"
  <2> DEFINE Place(n) == ObjectsBefore(rows, n)
  <2>1. \A n \in Objects(rows) : Place(n) \in 0..Cardinality(Objects(rows)) - 1
    BY <1>2, PlaceOfRow DEF ObjectsBefore
  <2>2. \A m, n \in Objects(rows) : m < n <=> Place(m) < Place(n)
    <3>1. \A m, n \in Objects(rows) :
            m < n <=> Cardinality({j \in Objects(rows) : j < m})
                        < Cardinality({j \in Objects(rows) : j < n})
      BY <1>2, RowsInOrder
    <3> QED
      BY <3>1, Zenon DEF ObjectsBefore
  <2>3. \A n \in Objects(rows) : n \in Examined(rows) <=> Place(n) < Cap
    BY <1>3 DEF Examined, Entries
  <2>4. Kept(rows) \subseteq Objects(rows) \cap Examined(rows)
    BY RowsAre DEF Kept
  <2> HIDE DEF Place
  <2>5. Place(i) \in Nat /\ Place(i) >= Cap /\ Cardinality(Objects(rows)) > Place(i)
    BY <1>1, <1>2, <2>1, <2>3
  <2>6. \A j \in Kept(rows) : j < i
    <3>1. ASSUME NEW j \in Kept(rows)
          PROVE  j < i
      <4>1. Place(j) \in Nat /\ Place(j) < Cap
        BY <1>2, <2>1, <2>3, <2>4
      <4> QED
        BY <1>1, <1>2, <2>2, <2>4, <2>5, <4>1
    <3> QED
      BY <3>1
  <2>7. Cardinality(Objects(rows)) >= Cap /\ Len(rows) >= Cap
    BY <1>1, <1>2, <2>5
  <2> QED
    BY <1>3, <2>5, <2>6, <2>7 DEF Place
<1>4. CASE adapter # "weworkremotely"
  <2> DEFINE Place(n) == JobsBefore(rows, n)
  <2>1. \A n \in Jobs(rows) : Place(n) \in 0..Cardinality(Jobs(rows)) - 1
    BY <1>2, PlaceOfRow DEF JobsBefore
  <2>2. \A m, n \in Jobs(rows) : m < n <=> Place(m) < Place(n)
    <3>1. \A m, n \in Jobs(rows) :
            m < n <=> Cardinality({j \in Jobs(rows) : j < m})
                        < Cardinality({j \in Jobs(rows) : j < n})
      BY <1>2, RowsInOrder
    <3> QED
      BY <3>1, Zenon DEF JobsBefore
  <2>3. \A n \in Objects(rows) : n \in Examined(rows) <=> Place(n) < Cap
    BY <1>4 DEF Examined, Reached
  <2>4. Kept(rows) = {n \in Jobs(rows) : Place(n) < Cap}
    BY <2>3, RowsAre DEF Kept
  <2>5. Kept(rows) = {n \in Jobs(rows) : Cardinality({j \in Jobs(rows) : j < n}) < Cap}
    BY <2>4 DEF JobsBefore
  <2> HIDE DEF Place
  <2>6. Place(i) \in Nat /\ Place(i) >= Cap /\ Cardinality(Jobs(rows)) > Place(i)
    BY <1>1, <1>2, <2>1, <2>3
  <2>7. \A j \in Kept(rows) : j < i
    <3>1. ASSUME NEW j \in Kept(rows)
          PROVE  j < i
      <4>1. j \in Jobs(rows) /\ Place(j) \in Nat /\ Place(j) < Cap
        BY <1>2, <2>1, <2>4
      <4> QED
        BY <1>1, <1>2, <2>2, <2>6, <4>1
    <3> QED
      BY <3>1
  <2>8. Cardinality(Kept(rows)) = Cap
    <3>1. Cap <= Cardinality(Jobs(rows))
      BY <1>1, <1>2, <2>6
    <3> QED
      BY <1>1, <1>2, <2>5, <3>1, FirstOnes
  <2>9. HitCap(rows)
    BY <1>2, <1>4 DEF HitCap, Examined
  <2>10. Len(rows) >= Cap
    BY <1>1, <1>2, <2>6
  <2> QED
    BY <1>4, <2>7, <2>8, <2>9, <2>10
<1> QED
  BY <1>3, <1>4

\* A document that hit the cap has that many rows.
LEMMA HitIsLong ==
  ASSUME Settled, NEW rows \in Seq(Row), HitCap(rows)
  PROVE  Len(rows) >= Cap
<1>1. Cap \in Nat
  BY LimitsAre
<1>2. /\ Cardinality(Jobs(rows)) \in Nat /\ Cardinality(Objects(rows)) \in Nat
      /\ Cardinality(Jobs(rows)) <= Cardinality(Objects(rows))
      /\ Cardinality(Objects(rows)) <= Len(rows) /\ Len(rows) \in Nat
      /\ IsFiniteSet(Jobs(rows))
  BY RowsAre
<1>3. PICK i \in Objects(rows) : ~(JobsBefore(rows, i) < Cap)
  BY DEF HitCap, Reached
<1> DEFINE U == {j \in Jobs(rows) : j < i}
<1>4. IsFiniteSet(U) /\ Cardinality(U) <= Cardinality(Jobs(rows))
  BY <1>2, FS_Subset
<1>5. Cardinality(U) \in Nat /\ JobsBefore(rows, i) = Cardinality(U)
  BY <1>4, FS_CardinalityType DEF JobsBefore
<1> HIDE DEF U
<1> QED
  BY <1>1, <1>2, <1>3, <1>4, <1>5

-----------------------------------------------------------------------------
(* The batches.                                                            *)

ItemsOf(batches) == [k \in DOMAIN batches |-> batches[k].items]

LEMMA QuotientUp ==
  ASSUME NEW total \in Nat \ {0}, NEW size \in Nat \ {0}
  PROVE  LET pages == (total + size - 1) \div size
         IN /\ pages \in Nat \ {0}
            /\ total <= pages * size
            /\ (pages - 1) * size < total
<1> DEFINE pages == (total + size - 1) \div size
<1>1. /\ pages \in Nat
      /\ pages * size <= total + size - 1 /\ total + size - 1 < pages * size + size
  <2>1. total + size - 1 \in Nat
    OBVIOUS
  <2> QED
    BY <2>1
<1> HIDE DEF pages
<1>2. pages * size \in Nat /\ (pages - 1) * size = pages * size - size
  BY <1>1
<1>3. total <= pages * size /\ (pages - 1) * size < total
  BY <1>1, <1>2
<1>4. pages # 0
  BY <1>3
<1> QED
  BY <1>1, <1>3, <1>4 DEF pages

\* Splitting numbers the pages, keeps them within the size, and loses nothing.
LEMMA SplitIs ==
  ASSUME NEW items \in Seq(Nat), NEW size \in Nat \ {0}, NEW warned \in BOOLEAN
  PROVE  LET batches == Split(items, size, warned)
         IN /\ batches \in Seq(BatchOf) /\ batches # <<>>
            /\ \A k \in DOMAIN batches :
                 /\ batches[k].page = k /\ batches[k].pages = Len(batches)
                 /\ Len(batches[k].items) <= size
                 /\ batches[k].warned = (items = <<>> \/ (warned /\ k = 1))
            /\ FlattenSeq(ItemsOf(batches)) = items
<1> DEFINE B == Split(items, size, warned)
           len == Len(items)
<1>1. CASE items = <<>>
  <2>1. B = <<[items |-> <<>>, page |-> 1, pages |-> 1, warned |-> TRUE]>>
    BY <1>1 DEF Split, Apology
  <2>2. Len(B) = 1 /\ DOMAIN B = {1} /\ B # <<>>
    BY <2>1
  <2>3. B[1] = [items |-> <<>>, page |-> 1, pages |-> 1, warned |-> TRUE]
    BY <2>1
  <2>4. B[1] \in BatchOf /\ Len(B[1].items) = 0
    BY <2>3 DEF BatchOf
  <2>5. B \in Seq(BatchOf)
    BY <2>1, <2>3, <2>4
  <2>6. FlattenSeq(ItemsOf(B)) = items
    <3> DEFINE pieces == ItemsOf(B)
    <3>1. pieces = <<items>>
      BY <1>1, <2>2, <2>3 DEF ItemsOf
    <3>2. pieces \in Seq(Seq(Nat)) /\ Len(pieces) = 1 /\ pieces[1] = items /\ Len(items) = 0
      <4>1. Len(items) = 0
        BY <1>1
      <4> HIDE DEF pieces
      <4> QED
        BY <3>1, <4>1
    <3>3. \A k \in 1..Len(pieces) :
            pieces[k] = SubSeq(items, (k - 1) * size + 1,
                               IF k * size <= Len(items) THEN k * size ELSE Len(items))
      <4>1. SubSeq(items, 1, 0) = <<>>
        BY SubSeqEmpty
      <4>2. (1 - 1) * size + 1 = 1 /\ ~(1 * size <= 0)
        OBVIOUS
      <4> QED
        BY <1>1, <3>2, <4>1, <4>2
    <3> HIDE DEF pieces
    <3>4. /\ Len(pieces) # 0 /\ Len(items) <= Len(pieces) * size
          /\ (Len(pieces) - 1) * size <= Len(items)
      BY <3>2
    <3>5. FlattenSeq(pieces) = items
      BY <3>2, <3>3, <3>4, PiecesJoin
    <3> QED
      BY <3>5 DEF pieces
  <2>7. /\ B[1].page = 1 /\ B[1].pages = 1 /\ Len(B[1].items) <= size
        /\ B[1].warned = TRUE
    BY <2>3, <2>4
  <2>8. \A k \in DOMAIN B :
          /\ B[k].page = k /\ B[k].pages = Len(B) /\ Len(B[k].items) <= size
          /\ B[k].warned = (items = <<>> \/ (warned /\ k = 1))
    <3> HIDE DEF B
    <3> QED
      BY <1>1, <2>2, <2>7
  <2> QED
    BY <2>2, <2>5, <2>6, <2>8
<1>2. CASE items # <<>>
  <2> DEFINE pages == (len + size - 1) \div size
             Piece(k) == SubSeq(items, (k - 1) * size + 1, AtMost(k * size, len))
  <2>1. len \in Nat \ {0}
    BY <1>2
  <2>2. pages \in Nat \ {0} /\ len <= pages * size /\ (pages - 1) * size < len
    BY <2>1, QuotientUp
  <2>3. B = [k \in 1..pages |-> [items |-> Piece(k), page |-> k, pages |-> pages,
                                 warned |-> warned /\ k = 1]]
    BY <1>2 DEF Split
  <2> HIDE DEF B, pages, len
  <2>4. ASSUME NEW k \in 1..pages
        PROVE  Piece(k) \in Seq(Nat) /\ Len(Piece(k)) <= size
    <3> DEFINE first == (k - 1) * size + 1
               last == AtMost(k * size, len)
    <3>1. first \in Nat /\ first >= 1 /\ last \in Int /\ last <= len /\ last - first + 1 <= size
      <4>1. k * size = (k - 1) * size + size /\ (k - 1) * size \in Nat
        BY <2>2
      <4> QED
        BY <2>1, <4>1 DEF AtMost
    <3> HIDE DEF first, last
    <3>2. \A i \in first..last : items[i] \in Nat
      BY <2>1, <3>1 DEF len
    <3>3. /\ SubSeq(items, first, last) \in Seq(Nat)
          /\ Len(SubSeq(items, first, last)) = IF first <= last THEN last - first + 1 ELSE 0
      BY <3>1, <3>2, SubSeqProperties
    <3> QED
      BY <3>1, <3>3 DEF first, last
  <2>5. \A k \in 1..pages : /\ B[k] \in BatchOf
                            /\ B[k].page = k /\ B[k].pages = pages
                            /\ B[k].items = Piece(k)
                            /\ B[k].warned = (warned /\ k = 1)
    <3> HIDE DEF Piece
    <3> QED
      BY <2>2, <2>3, <2>4 DEF BatchOf
  <2>6. B \in Seq(BatchOf) /\ Len(B) = pages /\ DOMAIN B = 1..pages /\ B # <<>>
    <3> HIDE DEF Piece
    <3>1. B \in [1..pages -> BatchOf]
      BY <2>3, <2>5
    <3>2. B \in Seq(BatchOf)
      BY <2>2, <3>1
    <3>3. Len(B) = pages
      BY <2>2, <3>1
    <3> QED
      BY <2>2, <3>1, <3>2, <3>3
  <2>7. FlattenSeq(ItemsOf(B)) = items
    <3> DEFINE pieces == ItemsOf(B)
    <3>1. pieces = [k \in 1..pages |-> Piece(k)]
      BY <2>5, <2>6 DEF ItemsOf
    <3> HIDE DEF Piece
    <3>2. pieces \in Seq(Seq(Nat)) /\ Len(pieces) = pages
      BY <2>2, <2>4, <3>1
    <3>3. \A k \in 1..pages :
            pieces[k] = SubSeq(items, (k - 1) * size + 1,
                               IF k * size <= len THEN k * size ELSE len)
      BY <3>1 DEF Piece, AtMost
    <3>4. len <= pages * size /\ (pages - 1) * size <= len
      <4>1. (pages - 1) * size \in Int
        BY <2>2
      <4> QED
        BY <2>1, <2>2, <4>1
    <3> HIDE DEF pieces
    <3>5. FlattenSeq(pieces) = items
      BY <2>2, <3>2, <3>3, <3>4, PiecesJoin DEF len
    <3> QED
      BY <3>5 DEF pieces
  <2> QED
    BY <1>2, <2>4, <2>5, <2>6, <2>7 DEF B
<1> QED
  BY <1>1, <1>2

\* Most results of a batch.
Limit == IF adapter = "weworkremotely" THEN BatchSize ELSE Cap

\* A warning that is owed is given, and none is given for nothing.
Justified(rows, warned) ==
  LET owed == adapter \in {"remotive", "jobicy"} => broad
      noticed == /\ Cap <= SourceLimit[adapter]
                 /\ adapter = "weworkremotely" => Objects(rows) = DOMAIN rows
  IN /\ owed /\ Jobs(rows) \ Kept(rows) # {} => warned
     /\ owed /\ noticed /\ MayHaveMore(rows) => warned
     /\ warned /\ adapter # "remotive" => Len(rows) >= Cap

\* The batches are the results of a document, split up.
Cuts(batches, rows) ==
  \E size \in 1..Limit, warned \in BOOLEAN :
    /\ batches = Split(Normalized(rows), size, warned)
    /\ Justified(rows, warned)

\* One batch is a split into pieces as long as the list.
LEMMA OneBatchIsSplit ==
  ASSUME Settled, NEW rows \in Seq(Row), NEW warned \in BOOLEAN
  PROVE  \E size \in 1..Cap : OneBatch(Normalized(rows), warned)
                                = Split(Normalized(rows), size, warned)
<1> DEFINE N == Normalized(rows)
           len == Len(N)
<1>1. Cap \in Nat \ {0}
  BY LimitsAre
<1>2. N \in Seq(Nat) /\ len \in Nat /\ len <= Cap
  BY NormalizedIs, KeptAreFew
<1> HIDE DEF N
<1>3. CASE N = <<>>
  <2>1. 1 \in 1..Cap
    BY <1>1
  <2>2. OneBatch(N, warned) = Split(N, 1, warned)
    BY <1>3 DEF OneBatch, Split
  <2> QED
    BY <2>1, <2>2 DEF N
<1>4. CASE N # <<>>
  <2>1. len \in 1..Cap
    BY <1>1, <1>2, <1>4
  <2>2. (len + len - 1) \div len = 1
    <3> DEFINE q == (len + len - 1) \div len
    <3>1. /\ len + len - 1 \in Nat /\ q \in Nat
          /\ q * len <= len + len - 1 /\ len + len - 1 < q * len + len
      BY <1>2, <2>1, SMTT(30)
    <3> HIDE DEF q
    <3>2. q # 0
      BY <1>2, <2>1, <3>1
    <3>3. q < 2
      <4>1. q >= 2 => q * len >= 2 * len
        BY <1>2, <3>1, SMTT(30)
      <4>2. q * len \in Nat
        BY <1>2, <3>1
      <4> QED
        BY <1>2, <2>1, <3>1, <4>1, <4>2
    <3> QED
      BY <3>1, <3>2, <3>3 DEF q
  <2>3. /\ (1 - 1) * len + 1 = 1 /\ AtMost(1 * len, len) = len
        /\ SubSeq(N, 1, len) = N
    BY <1>2, SubSeqFull DEF AtMost
  <2>4. Split(N, len, warned)
          = [k \in 1..1 |-> [items |-> SubSeq(N, (k - 1) * len + 1, AtMost(k * len, len)),
                             page |-> k, pages |-> 1, warned |-> warned /\ k = 1]]
    BY <1>4, <2>2 DEF Split
  <2>5. OneBatch(N, warned) = <<[items |-> N, page |-> 1, pages |-> 1, warned |-> warned]>>
    BY <1>4 DEF OneBatch
  <2> DEFINE batch == [items |-> N, page |-> 1, pages |-> 1, warned |-> warned]
  <2>6. \A k \in 1..1 :
          [items |-> SubSeq(N, (k - 1) * len + 1, AtMost(k * len, len)),
           page |-> k, pages |-> 1, warned |-> warned /\ k = 1] = batch
    <3>1. (warned /\ 1 = 1) = warned
      OBVIOUS
    <3>2. \A k \in 1..1 : k = 1
      OBVIOUS
    <3> HIDE DEF len
    <3> QED
      BY <2>3, <3>1, <3>2
  <2>7. Split(N, len, warned) = [k \in 1..1 |-> batch]
    BY <2>4, <2>6
  <2>8. <<batch>> = [k \in 1..1 |-> batch]
    OBVIOUS
  <2> QED
    BY <2>1, <2>5, <2>7, <2>8 DEF N
<1> QED
  BY <1>3, <1>4

\* Where the cap is within the limit of the source, a document that is not all the source
\* has is as long as the cap.
LEMMA MoreIsLong ==
  ASSUME Settled, NEW rows \in Seq(Row), MayHaveMore(rows), Cap <= SourceLimit[adapter]
  PROVE  Len(rows) >= Cap
<1>1. Cap \in Nat /\ Len(rows) \in Nat
  BY LimitsAre
<1>2. SourceLimit[adapter] \in Nat
  BY FeedAssumption DEF MayHaveMore, Settled
<1> QED
  BY <1>1, <1>2 DEF MayHaveMore, AtMost

LEMMA BatchesAre ==
  ASSUME Settled, broad \in BOOLEAN, NEW rows \in Seq(Row), NEW counted \in BOOLEAN
  PROVE  Cuts(BatchesOf(rows, counted), rows)
<1>1. Cap \in Nat \ {0} /\ BatchSize \in Nat \ {0}
  BY LimitsAre
<1>2. \A i \in Jobs(rows) \ Kept(rows) :
        /\ Len(rows) >= Cap
        /\ IF adapter = "weworkremotely" THEN Cardinality(Objects(rows)) >= Cap
           ELSE HitCap(rows)
  BY LeftOut
<1>3. /\ HitCap(rows) => Len(rows) >= Cap
      /\ Cardinality(Objects(rows)) \in Nat /\ Len(rows) \in Nat
      /\ Cardinality(Objects(rows)) <= Len(rows)
  BY HitIsLong, RowsAre
<1>4. Objects(rows) = DOMAIN rows => Cardinality(Objects(rows)) = Len(rows)
  <2>1. DOMAIN rows = 1..Len(rows) /\ Len(rows) \in Nat
    OBVIOUS
  <2>2. /\ IsFiniteSet(1..Len(rows))
        /\ Cardinality(1..Len(rows)) = IF 1 > Len(rows) THEN 0 ELSE Len(rows) - 1 + 1
    BY <2>1, FS_Interval, SMTT(30)
  <2> QED
    BY <2>1, <2>2
<1>5. HitCap(rows) \in BOOLEAN
  BY DEF HitCap
<1>6. CASE adapter = "remotive"
  <2> DEFINE warned == broad /\ (HitCap(rows) \/ Len(rows) >= Cap \/ counted)
  <2>1. PICK size \in 1..Cap : BatchesOf(rows, counted) = Split(Normalized(rows), size, warned)
    BY <1>6, OneBatchIsSplit DEF BatchesOf, RemotiveBatches
  <2>2. Justified(rows, warned)
    BY <1>2, <1>6, MoreIsLong DEF Justified
  <2>3. size \in 1..Limit
    BY <1>6 DEF Limit
  <2> QED
    BY <2>1, <2>2, <2>3 DEF Cuts
<1>7. CASE adapter = "jobicy"
  <2> DEFINE warned == broad /\ (HitCap(rows) \/ Len(rows) >= Cap)
  <2>1. PICK size \in 1..Cap : BatchesOf(rows, counted) = Split(Normalized(rows), size, warned)
    BY <1>7, OneBatchIsSplit DEF BatchesOf, JobicyBatches
  <2>2. Justified(rows, warned)
    BY <1>2, <1>3, <1>7, MoreIsLong DEF Justified
  <2>3. size \in 1..Limit
    BY <1>7 DEF Limit
  <2> QED
    BY <2>1, <2>2, <2>3 DEF Cuts
<1>8. CASE adapter = "remoteok"
  <2>1. BatchesOf(rows, counted) = Split(Normalized(rows), Cap, HitCap(rows))
    BY <1>8 DEF BatchesOf, RemoteOKBatches
  <2>2. Justified(rows, HitCap(rows))
    BY <1>2, <1>3, <1>8 DEF Justified, MayHaveMore
  <2>3. Cap \in 1..Limit
    BY <1>1, <1>8 DEF Limit
  <2> QED
    BY <1>5, <2>1, <2>2, <2>3 DEF Cuts
<1>9. CASE adapter = "weworkremotely"
  <2> DEFINE warned == Cardinality(Objects(rows)) >= Cap
  <2>1. BatchesOf(rows, counted) = Split(Normalized(rows), BatchSize, warned)
    BY <1>9 DEF BatchesOf, WeWorkRemotelyBatches
  <2>2. Justified(rows, warned)
    BY <1>1, <1>2, <1>3, <1>4, <1>9, MoreIsLong DEF Justified
  <2>3. BatchSize \in 1..Limit
    BY <1>1, <1>9 DEF Limit
  <2> QED
    <3>1. warned \in BOOLEAN
      OBVIOUS
    <3> HIDE DEF warned
    <3> QED
      BY <2>1, <2>2, <2>3, <3>1 DEF Cuts
<1> QED
  BY <1>6, <1>7, <1>8, <1>9 DEF Settled, AdapterKeys

\* What is sent when there is no document is what an empty one would give.
LEMMA ApologyIs == Settled => Cuts(Apology, <<>>)
<1> SUFFICES ASSUME Settled
             PROVE  Cuts(Apology, <<>>)
  OBVIOUS
<1>1. <<>> \in Seq(Row) /\ Len(<<>>) = 0 /\ Cap \in Nat \ {0} /\ BatchSize \in Nat \ {0}
  BY LimitsAre
<1>2. Jobs(<<>>) = {} /\ Kept(<<>>) = {}
  BY DEF Jobs, Objects, Kept
<1>3. Normalized(<<>>) = <<>>
  <2>1. Normalized(<<>>) \in Seq(Nat) /\ Len(Normalized(<<>>)) = Cardinality(Kept(<<>>))
    BY <1>1, NormalizedIs
  <2>2. Cardinality({}) = 0
    BY FS_EmptySet
  <2>3. Len(Normalized(<<>>)) = 0
    BY <1>2, <2>1, <2>2
  <2> HIDE DEF Normalized
  <2> QED
    BY <2>1, <2>3, EmptySeq
<1>4. Apology = Split(Normalized(<<>>), 1, FALSE)
  BY <1>3 DEF Split
<1>5. Justified(<<>>, FALSE)
  <2>1. ~(Cap <= SourceLimit[adapter] /\ MayHaveMore(<<>>))
    <3>1. Cap <= SourceLimit[adapter] /\ MayHaveMore(<<>>) => Len(<<>>) >= Cap
      BY <1>1, MoreIsLong
    <3> QED
      BY <1>1, <3>1
  <2> QED
    BY <1>1, <1>2, <2>1 DEF Justified
<1>6. 1 \in 1..Limit
  BY <1>1 DEF Limit
<1> QED
  BY <1>4, <1>5, <1>6 DEF Cuts

-----------------------------------------------------------------------------
(* The generator.                                                          *)

FeedInv ==
  /\ Settled
  /\ broad \in BOOLEAN /\ more \in BOOLEAN /\ gen \in GenStates
  /\ feed \in Seq(Row)
  /\ yielded \in Seq(BatchOf) /\ todo \in Seq(BatchOf)
  /\ attempt \in 1..MaxRetries /\ (gen = "pausing" => attempt < MaxRetries)
  /\ more => MayHaveMore(feed)
  /\ gen \in {"waiting", "pausing", "cancelled", "raised"} => yielded = <<>>
  /\ gen \in {"waiting", "pausing"} => todo = <<>> /\ feed = <<>> /\ ~more
  /\ gen = "raised" => \/ feed = <<>> /\ adapter # "weworkremotely"
                       \/ NormalizingRaises(feed)
  /\ gen \in {"suspended", "ended", "abandoned"} =>
       yielded # <<>> /\ Cuts(yielded \o todo, feed)
  /\ gen = "ended" => todo = <<>>

LEMMA InitHolds == Init => FeedInv
<1> SUFFICES ASSUME Init
             PROVE  FeedInv
  OBVIOUS
<1>1. Settled
  BY DEF Init, Settled
<1>2. 1 \in 1..MaxRetries
  <2>1. MaxRetries \in Nat \ {0}
    BY <1>1, LimitsAre
  <2> QED
    BY <2>1
<1>3. <<>> \in Seq(Row) /\ <<>> \in Seq(BatchOf)
  BY EmptySeq
<1> QED
  BY <1>1, <1>2, <1>3 DEF Init, FeedInv, GenStates

\* What a document means depends on what never changes.
LEMMA SameDocument ==
  ASSUME UNCHANGED <<settings, adapter, broad>>, NEW rows, rows = feed'
  PROVE  /\ Settled <=> Settled'
         /\ MaxRetries' = MaxRetries
         /\ MayHaveMore(rows) => MayHaveMore(feed)'
         /\ NormalizingRaises(rows) => NormalizingRaises(feed)'
         /\ \A batches : Cuts(batches, rows) =>
              (batches = (yielded \o todo)' => Cuts(yielded \o todo, feed)')
<1>1. /\ Cap' = Cap /\ BatchSize' = BatchSize /\ MaxRetries' = MaxRetries
      /\ Settled <=> Settled'
  BY DEF Cap, BatchSize, MaxRetries, Settled
<1>2. Limit' = Limit
  BY <1>1 DEF Limit
<1>3. \A i : FateOf(feed[i])' = FateOf(rows[i])
  BY DEF FateOf
<1>4. Objects(feed)' = Objects(rows)
  BY DEF Objects
<1>5. Jobs(feed)' = Jobs(rows)
  BY <1>3, <1>4 DEF Jobs
<1>6. \A i : JobsBefore(feed, i)' = JobsBefore(rows, i)
  BY <1>5 DEF JobsBefore
<1>7. Reached(feed)' = Reached(rows)
  BY <1>1, <1>4, <1>6 DEF Reached
<1>8. Entries(feed)' = Entries(rows)
  BY <1>1, <1>4 DEF Entries, ObjectsBefore
<1>9. Examined(feed)' = Examined(rows)
  BY <1>7, <1>8 DEF Examined
<1>10. Kept(feed)' = Kept(rows) /\ Normalized(feed)' = Normalized(rows)
  BY <1>5, <1>9 DEF Kept, Normalized
<1>11. NormalizingRaises(rows) => NormalizingRaises(feed)'
  BY <1>3, <1>9 DEF NormalizingRaises
<1>12. MayHaveMore(feed)' = MayHaveMore(rows)
  BY <1>1 DEF MayHaveMore
<1>13. \A warned \in BOOLEAN : Justified(rows, warned) => Justified(feed, warned)'
  BY <1>1, <1>4, <1>5, <1>10, <1>12 DEF Justified
<1>14. ASSUME NEW batches, Cuts(batches, rows), batches = (yielded \o todo)'
       PROVE  Cuts(yielded \o todo, feed)'
  <2>1. PICK size \in 1..Limit, warned \in BOOLEAN :
           batches = Split(Normalized(rows), size, warned) /\ Justified(rows, warned)
    BY <1>14 DEF Cuts
  <2>2. Split(Normalized(feed), size, warned)' = Split(Normalized(rows), size, warned)
    BY <1>10 DEF Split
  <2>3. Justified(feed, warned)'
    BY <1>13, <2>1
  <2> QED
    BY <1>2, <1>14, <2>1, <2>2, <2>3 DEF Cuts
<1> QED
  BY <1>1, <1>11, <1>12, <1>14

\* Handing over the first of some batches changes neither them nor those before.
LEMMA HandOver ==
  ASSUME NEW taken \in Seq(BatchOf), NEW batches \in Seq(BatchOf), batches # <<>>
  PROVE  /\ Append(taken, Head(batches)) \in Seq(BatchOf) /\ Tail(batches) \in Seq(BatchOf)
         /\ Append(taken, Head(batches)) # <<>>
         /\ Append(taken, Head(batches)) \o Tail(batches) = taken \o batches
<1> DEFINE a == Append(taken, Head(batches))
           t == Tail(batches)
<1>1. Head(batches) \in BatchOf /\ t \in Seq(BatchOf) /\ Len(batches) \in Nat \ {0}
      /\ Len(t) = Len(batches) - 1 /\ \A i \in 1..Len(t) : t[i] = batches[i+1]
  BY HeadTailProperties, EmptySeq
<1>2. Head(batches) = batches[1]
  OBVIOUS
<1>3. /\ a \in Seq(BatchOf) /\ Len(a) = Len(taken) + 1 /\ Len(taken) \in Nat
      /\ \A i \in 1..Len(taken) + 1 : a[i] = IF i = Len(taken) + 1 THEN batches[1] ELSE taken[i]
  BY <1>1, <1>2
<1> HIDE DEF a, t
<1>4. /\ a \o t \in Seq(BatchOf) /\ Len(a \o t) = Len(a) + Len(t)
      /\ \A i \in 1..Len(a) + Len(t) :
           (a \o t)[i] = IF i <= Len(a) THEN a[i] ELSE t[i - Len(a)]
  BY <1>1, <1>3, ConcatProperties, ZenonT(60)
<1>5. /\ taken \o batches \in Seq(BatchOf)
      /\ Len(taken \o batches) = Len(taken) + Len(batches)
      /\ \A i \in 1..Len(taken) + Len(batches) :
           (taken \o batches)[i] = IF i <= Len(taken) THEN taken[i] ELSE batches[i - Len(taken)]
  BY ConcatProperties
<1>6. Len(a \o t) = Len(taken \o batches)
  BY <1>1, <1>3, <1>4, <1>5
<1>7. ASSUME NEW i \in 1..Len(taken) + Len(batches)
      PROVE  (a \o t)[i] = (taken \o batches)[i]
  <2>0. i \in 1..Len(a) + Len(t)
    BY <1>1, <1>3
  <2>1. CASE i <= Len(taken)
    BY <1>1, <1>3, <1>4, <1>5, <2>0, <2>1
  <2>2. CASE i = Len(taken) + 1
    BY <1>1, <1>3, <1>4, <1>5, <2>0, <2>2
  <2>3. CASE i > Len(taken) + 1
    <3>1. /\ i - Len(a) \in 1..Len(t) /\ i - Len(a) + 1 = i - Len(taken)
          /\ ~(i <= Len(a)) /\ ~(i <= Len(taken))
      BY <1>1, <1>3, <2>3
    <3>2. (a \o t)[i] = t[i - Len(a)] /\ (taken \o batches)[i] = batches[i - Len(taken)]
      BY <1>4, <1>5, <2>0, <3>1
    <3> QED
      BY <1>1, <3>1, <3>2
  <2>4. i \in Nat /\ Len(taken) \in Nat
    BY <1>1, <1>3
  <2>5. i <= Len(taken) \/ i = Len(taken) + 1 \/ i > Len(taken) + 1
    BY <2>4
  <2> QED
    BY <2>1, <2>2, <2>3, <2>5
<1>8. a \o t = taken \o batches
  BY <1>4, <1>5, <1>6, <1>7, SeqEqual
<1> QED
  BY <1>1, <1>3, <1>8 DEF a, t

\* Batches of a document, when they are made, are a list that is not empty.
LEMMA CutsAreBatches ==
  ASSUME Settled, NEW rows \in Seq(Row), NEW batches, Cuts(batches, rows)
  PROVE  batches \in Seq(BatchOf) /\ batches # <<>>
<1>1. PICK size \in 1..Limit, warned \in BOOLEAN : batches = Split(Normalized(rows), size, warned)
  BY DEF Cuts
<1>2. Normalized(rows) \in Seq(Nat) /\ size \in Nat \ {0}
  BY NormalizedIs
<1> QED
  BY <1>1, <1>2, SplitIs

\* Delivering the first of the batches a document gives.
LEMMA DeliverKeepsInv ==
  ASSUME FeedInv, UNCHANGED <<settings, adapter, broad, attempt>>,
         NEW rows \in Seq(Row), rows = feed', more' \in BOOLEAN,
         more' => MayHaveMore(rows),
         NEW batches \in Seq(BatchOf), batches # <<>>,
         Cuts(yielded \o batches, rows), Deliver(batches)
  PROVE  FeedInv'
<1>1. /\ gen' = "suspended" /\ yielded' = Append(yielded, Head(batches))
      /\ todo' = Tail(batches)
  BY DEF Deliver
<1>2. yielded \in Seq(BatchOf) /\ Settled /\ attempt \in 1..MaxRetries /\ broad \in BOOLEAN
  BY DEF FeedInv
<1>3. /\ yielded' \in Seq(BatchOf) /\ todo' \in Seq(BatchOf) /\ yielded' # <<>>
      /\ (yielded \o todo)' = yielded \o batches
  BY <1>1, <1>2, HandOver
<1>4. Settled' /\ MaxRetries' = MaxRetries /\ (more' => MayHaveMore(feed)')
  BY <1>2, SameDocument
<1>5. Cuts(yielded \o todo, feed)'
  BY <1>3, SameDocument
<1>6. feed' \in Seq(Row)
  OBVIOUS
<1>7. attempt' \in 1..MaxRetries' /\ broad' \in BOOLEAN
  BY <1>2, <1>4
<1> QED
  BY <1>1, <1>3, <1>4, <1>5, <1>6, <1>7 DEF FeedInv, GenStates

\* Where only the place of the generator changes, what is left is to show that it may be
\* there.
LEMMA MoveKeepsInv ==
  ASSUME FeedInv, UNCHANGED <<settings, adapter, broad, feed, more, todo, yielded>>,
         gen' \in GenStates,
         attempt' \in 1..MaxRetries, gen' = "pausing" => attempt' < MaxRetries,
         gen' \in {"waiting", "pausing", "cancelled", "raised"} => yielded = <<>>,
         gen' \in {"waiting", "pausing"} => todo = <<>> /\ feed = <<>> /\ ~more,
         gen' = "raised" => feed = <<>> /\ adapter # "weworkremotely",
         gen' \in {"suspended", "ended", "abandoned"} =>
           gen \in {"suspended", "ended", "abandoned"},
         gen' = "ended" => todo = <<>>
  PROVE  FeedInv'
<1>1. Settled' /\ MaxRetries' = MaxRetries
  BY SameDocument DEF FeedInv
<1>2. more' => MayHaveMore(feed)'
  BY SameDocument DEF FeedInv
<1>3. gen' \in {"suspended", "ended", "abandoned"} =>
        yielded' # <<>> /\ Cuts(yielded \o todo, feed)'
  <2> SUFFICES ASSUME gen' \in {"suspended", "ended", "abandoned"}
               PROVE  yielded' # <<>> /\ Cuts(yielded \o todo, feed)'
    OBVIOUS
  <2>1. yielded # <<>> /\ Cuts(yielded \o todo, feed)
    BY DEF FeedInv
  <2> QED
    BY <2>1, SameDocument
<1> QED
  BY <1>1, <1>2, <1>3 DEF FeedInv

LEMMA NextKeepsInv == FeedInv /\ [Next]_fvars => FeedInv'
<1> SUFFICES ASSUME FeedInv, [Next]_fvars
             PROVE  FeedInv'
  OBVIOUS
<1>1. /\ Settled /\ feed \in Seq(Row) /\ yielded \in Seq(BatchOf) /\ todo \in Seq(BatchOf)
      /\ attempt \in 1..MaxRetries /\ MaxRetries \in Nat \ {0}
      /\ broad \in BOOLEAN /\ more \in BOOLEAN
      /\ gen = "pausing" => attempt < MaxRetries
      /\ gen \in {"waiting", "pausing"} =>
           yielded = <<>> /\ todo = <<>> /\ feed = <<>> /\ ~more
  BY LimitsAre DEF FeedInv
<1>2. CASE Retry
  <2>1. attempt' \in 1..MaxRetries /\ attempt' < MaxRetries
    BY <1>1, <1>2 DEF Retry
  <2> QED
    BY <1>1, <1>2, <2>1, MoveKeepsInv DEF Retry, GenStates
<1>3. CASE Wake
  <2>1. attempt' \in 1..MaxRetries
    BY <1>1, <1>3 DEF Wake
  <2> QED
    BY <1>1, <1>3, <2>1, MoveKeepsInv DEF Wake, GenStates
<1>4. ASSUME gen = "waiting", Deliver(Apology), UNCHANGED <<settings, adapter, broad, attempt, feed, more>>
      PROVE  FeedInv'
  <2>1. Cuts(Apology, <<>>)
    BY <1>1, ApologyIs
  <2>2. <<>> \in Seq(Row) /\ <<>> = feed' /\ ~more' /\ more' \in BOOLEAN
    BY <1>1, <1>4
  <2>3. Apology \in Seq(BatchOf) /\ Apology # <<>>
    BY <1>1, <2>1, <2>2, CutsAreBatches
  <2>4. yielded \o Apology = Apology
    BY <1>1, <1>4, <2>3
  <2> QED
    BY <1>4, <2>1, <2>2, <2>3, <2>4, DeliverKeepsInv
<1>5. CASE GiveUp
  BY <1>4, <1>5 DEF GiveUp
<1>6. CASE Garbled
  <2>1. CASE adapter = "weworkremotely"
    BY <1>4, <1>6, <2>1 DEF Garbled
  <2>2. CASE adapter # "weworkremotely"
    BY <1>1, <1>6, <2>2, MoveKeepsInv DEF Garbled, GenStates
  <2> QED
    BY <2>1, <2>2
<1>7. CASE Misshapen
  BY <1>4, <1>7 DEF Misshapen
<1>8. CASE Document
  <2>1. PICK rows \in Feeds, rest \in BOOLEAN, counted \in BOOLEAN :
          /\ rest => MayHaveMore(rows)
          /\ feed' = rows /\ more' = rest
          /\ IF NormalizingRaises(rows)
             THEN gen' = "raised" /\ UNCHANGED <<todo, yielded>>
             ELSE Deliver(BatchesOf(rows, counted))
    BY <1>8 DEF Document
  <2>2. gen = "waiting" /\ UNCHANGED <<settings, adapter, broad, attempt>>
    BY <1>8 DEF Document
  <2>3. rows \in Seq(Row)
    BY FeedAssumption
  <2>4. CASE NormalizingRaises(rows)
    <3>1. gen' = "raised" /\ UNCHANGED <<todo, yielded>> /\ feed' = rows /\ more' = rest
      BY <2>1, <2>4
    <3>2. /\ Settled' /\ MaxRetries' = MaxRetries /\ NormalizingRaises(feed)'
          /\ more' => MayHaveMore(feed)'
      BY <1>1, <2>1, <2>2, <2>4, SameDocument
    <3>3. attempt' \in 1..MaxRetries'
      BY <1>1, <2>2, <3>2
    <3>4. feed' \in Seq(Row) /\ yielded' = <<>> /\ todo' = <<>>
      BY <1>1, <2>2, <2>3, <3>1
    <3>5. yielded' \in Seq(BatchOf) /\ todo' \in Seq(BatchOf)
      BY <1>1, <3>1
    <3> QED
      BY <1>1, <2>2, <3>1, <3>2, <3>3, <3>4, <3>5 DEF FeedInv, GenStates
  <2>5. CASE ~NormalizingRaises(rows)
    <3> DEFINE batches == BatchesOf(rows, counted)
    <3>1. Cuts(batches, rows)
      BY <1>1, <2>3, BatchesAre
    <3>2. batches \in Seq(BatchOf) /\ batches # <<>>
      BY <1>1, <2>3, <3>1, CutsAreBatches
    <3>3. Deliver(batches)
      BY <2>1, <2>5
    <3> HIDE DEF batches
    <3>4. yielded \o batches = batches
      BY <1>1, <2>2, <3>2
    <3> QED
      BY <2>1, <2>2, <2>3, <3>1, <3>2, <3>3, <3>4, DeliverKeepsInv
  <2> QED
    BY <2>4, <2>5
<1>9. CASE Resume
  <2>1. Cuts(yielded \o todo, feed) /\ gen = "suspended" /\ yielded # <<>>
    BY <1>9 DEF Resume, FeedInv
  <2>2. CASE todo = <<>>
    <3>1. gen' = "ended" /\ UNCHANGED <<settings, adapter, broad, attempt, feed, more, todo, yielded>>
      BY <1>9, <2>2 DEF Resume
    <3> QED
      BY <1>1, <2>1, <2>2, <3>1, MoveKeepsInv DEF GenStates
  <2>3. CASE todo # <<>>
    <3>1. Deliver(todo) /\ UNCHANGED <<settings, adapter, broad, attempt, feed, more>>
      BY <1>9, <2>3 DEF Resume
    <3>2. feed = feed' /\ more' \in BOOLEAN /\ (more' => MayHaveMore(feed))
      BY <1>1, <3>1 DEF FeedInv
    <3> QED
      BY <1>1, <2>1, <2>3, <3>1, <3>2, DeliverKeepsInv
  <2> QED
    BY <2>2, <2>3
<1>10. CASE Abandon
  BY <1>1, <1>10, MoveKeepsInv DEF Abandon, GenStates
<1>11. CASE Cancel
  BY <1>1, <1>11, MoveKeepsInv DEF Cancel, GenStates
<1>12. CASE UNCHANGED fvars
  <2>1. /\ UNCHANGED <<settings, adapter, broad, attempt, feed, more, todo, yielded>>
        /\ gen' = gen
    BY <1>12 DEF fvars
  <2>2. CASE gen # "raised"
    BY <1>1, <2>1, <2>2, MoveKeepsInv DEF FeedInv
  <2>3. CASE gen = "raised"
    <3>1. Settled' /\ MaxRetries' = MaxRetries /\ (more' => MayHaveMore(feed)')
      BY <2>1, SameDocument DEF FeedInv
    <3>2. NormalizingRaises(feed) => NormalizingRaises(feed)'
      BY <2>1, SameDocument
    <3> QED
      BY <2>1, <2>3, <3>1, <3>2 DEF FeedInv
  <2> QED
    BY <2>2, <2>3
<1> QED
  BY <1>2, <1>3, <1>5, <1>6, <1>7, <1>8, <1>9, <1>10, <1>11, <1>12 DEF Next

\* What the consumer has and has not taken is one list of batches of one document.
THEOREM FeedsAreCutUp == Spec => []FeedInv
<1> QED
  BY InitHolds, NextKeepsInv, PTL DEF Spec

-----------------------------------------------------------------------------
(* What the consumer sees.                                                 *)

LEMMA ItemsAreNumbers ==
  ASSUME NEW batches \in Seq(BatchOf), NEW n \in DOMAIN batches
  PROVE  batches[n].items \in Seq(Nat)
<1>1. batches[n] \in BatchOf
  OBVIOUS
<1> DEFINE batch == batches[n]
<1> HIDE DEF batch
<1>2. batch \in BatchOf => batch.items \in Seq(Nat)
  BY DEF BatchOf
<1> QED
  BY <1>1, <1>2 DEF batch

LEMMA ItemsInBatches ==
  ASSUME NEW batches \in Seq(BatchOf)
  PROVE  \A x : x \in ToSet(FlattenSeq(ItemsOf(batches)))
                 <=> \E n \in DOMAIN batches : x \in ToSet(batches[n].items)
<1>1. \A n \in DOMAIN batches : batches[n].items \in Seq(Nat)
  BY ItemsAreNumbers
<1>2. ItemsOf(batches) \in Seq(Seq(Nat)) /\ DOMAIN ItemsOf(batches) = DOMAIN batches
  <2>1. Len(batches) \in Nat /\ DOMAIN batches = 1..Len(batches)
    OBVIOUS
  <2>2. ItemsOf(batches) \in [1..Len(batches) -> Seq(Nat)]
    BY <1>1, <2>1 DEF ItemsOf
  <2> QED
    BY <2>1, <2>2
<1>3. \A n \in DOMAIN batches : ItemsOf(batches)[n] = batches[n].items
  BY DEF ItemsOf
<1>4. ToSet(FlattenSeq(ItemsOf(batches)))
        = UNION {ToSet(ItemsOf(batches)[n]) : n \in DOMAIN ItemsOf(batches)}
  BY <1>2, FlattenKeepsWords
<1> QED
  BY <1>2, <1>3, <1>4

LEMMA ItemsOfBoth ==
  ASSUME NEW a \in Seq(BatchOf), NEW b \in Seq(BatchOf)
  PROVE  ToSet(FlattenSeq(ItemsOf(a \o b)))
           = ToSet(FlattenSeq(ItemsOf(a))) \cup ToSet(FlattenSeq(ItemsOf(b)))
<1> DEFINE c == a \o b
<1>1. /\ c \in Seq(BatchOf) /\ Len(c) = Len(a) + Len(b)
      /\ \A i \in 1..Len(a) + Len(b) : c[i] = IF i <= Len(a) THEN a[i] ELSE b[i - Len(a)]
  BY ConcatProperties
<1>2. /\ Len(a) \in Nat /\ Len(b) \in Nat /\ DOMAIN a = 1..Len(a) /\ DOMAIN b = 1..Len(b)
      /\ DOMAIN c = 1..Len(a) + Len(b)
  BY <1>1
<1> HIDE DEF c
<1>3. \A i \in DOMAIN a : i \in DOMAIN c /\ c[i] = a[i]
  BY <1>1, <1>2
<1>4. \A i \in DOMAIN b : i + Len(a) \in DOMAIN c /\ c[i + Len(a)] = b[i]
  <2>1. ASSUME NEW i \in DOMAIN b
        PROVE  i + Len(a) \in DOMAIN c /\ c[i + Len(a)] = b[i]
    <3>1. i + Len(a) \in 1..Len(a) + Len(b) /\ ~(i + Len(a) <= Len(a)) /\ i + Len(a) - Len(a) = i
      BY <1>2
    <3> QED
      BY <1>1, <1>2, <3>1
  <2> QED
    BY <2>1
<1>5. \A i \in DOMAIN c : \/ i \in DOMAIN a /\ c[i] = a[i]
                          \/ i - Len(a) \in DOMAIN b /\ c[i] = b[i - Len(a)]
  BY <1>1, <1>2
<1>6. \A x : (\E n \in DOMAIN c : x \in ToSet(c[n].items))
              <=> \/ \E n \in DOMAIN a : x \in ToSet(a[n].items)
                  \/ \E n \in DOMAIN b : x \in ToSet(b[n].items)
  BY <1>3, <1>4, <1>5
<1>7. \A x : x \in ToSet(FlattenSeq(ItemsOf(c)))
              <=> \E n \in DOMAIN c : x \in ToSet(c[n].items)
  BY <1>1, ItemsInBatches
<1>8. \A x : x \in ToSet(FlattenSeq(ItemsOf(a)))
              <=> \E n \in DOMAIN a : x \in ToSet(a[n].items)
  BY ItemsInBatches
<1>9. \A x : x \in ToSet(FlattenSeq(ItemsOf(b)))
              <=> \E n \in DOMAIN b : x \in ToSet(b[n].items)
  BY ItemsInBatches
<1> DEFINE all == ToSet(FlattenSeq(ItemsOf(c)))
           first == ToSet(FlattenSeq(ItemsOf(a)))
           second == ToSet(FlattenSeq(ItemsOf(b)))
<1>10. \A x : x \in all <=> x \in first \/ x \in second
  BY <1>6, <1>7, <1>8, <1>9
<1> HIDE DEF all, first, second
<1>11. all = first \cup second
  BY <1>10
<1> QED
  BY <1>11 DEF all, first, second, c

Cut == FlattenSeq([k \in DOMAIN todo |-> todo[k].items])

\* Nothing is shown before the first batch; then what is shown and what is still to be
\* are together the rows that are kept.
LEMMA ShownIs ==
  ASSUME FeedInv
  PROVE  /\ Shown = ToSet(Delivered)
         /\ yielded = <<>> => Shown = {}
         /\ yielded # <<>> =>
              /\ gen \in {"suspended", "ended", "abandoned"}
              /\ Cuts(yielded \o todo, feed)
              /\ Shown \cup ToSet(Cut) = Kept(feed)
<1>1. Shown = ToSet(Delivered)
  BY DEF Shown, ToSet
<1>2. Delivered = FlattenSeq(ItemsOf(yielded)) /\ Cut = FlattenSeq(ItemsOf(todo))
  BY DEF Delivered, Cut, ItemsOf
<1>3. yielded \in Seq(BatchOf) /\ todo \in Seq(BatchOf) /\ Settled /\ feed \in Seq(Row)
  BY DEF FeedInv
<1>4. ASSUME yielded = <<>>
      PROVE  Shown = {}
  <2>1. DOMAIN yielded = {}
    BY <1>4
  <2>2. \A x : x \notin ToSet(FlattenSeq(ItemsOf(yielded)))
    BY <1>3, <2>1, ItemsInBatches
  <2> QED
    BY <1>1, <1>2, <2>1, <2>2
<1>5. ASSUME yielded # <<>>
      PROVE  /\ gen \in {"suspended", "ended", "abandoned"}
             /\ Cuts(yielded \o todo, feed)
             /\ Shown \cup ToSet(Cut) = Kept(feed)
  <2>1. gen \in {"suspended", "ended", "abandoned"} /\ Cuts(yielded \o todo, feed)
    BY <1>5 DEF FeedInv, GenStates
  <2>2. PICK size \in 1..Limit, warned \in BOOLEAN :
           yielded \o todo = Split(Normalized(feed), size, warned)
    BY <2>1 DEF Cuts
  <2>3. Normalized(feed) \in Seq(Nat) /\ size \in Nat \ {0} /\ ToSet(Normalized(feed)) = Kept(feed)
    BY <1>3, NormalizedIs
  <2>4. FlattenSeq(ItemsOf(yielded \o todo)) = Normalized(feed)
    BY <2>2, <2>3, SplitIs
  <2> QED
    BY <1>1, <1>2, <1>3, <2>1, <2>3, <2>4, ItemsOfBoth
<1> QED
  BY <1>1, <1>4, <1>5

\* What the first batch says, and any other.
LEMMA WarnedIs ==
  ASSUME FeedInv, yielded # <<>>
  PROVE  /\ 1 \in DOMAIN yielded /\ Told \in BOOLEAN
         /\ \E warned \in BOOLEAN :
              /\ Justified(feed, warned)
              /\ yielded[1].warned = (Kept(feed) = {} \/ warned)
              /\ Told => Kept(feed) = {} \/ warned
<1>1. yielded \in Seq(BatchOf) /\ todo \in Seq(BatchOf) /\ feed \in Seq(Row) /\ Settled
  BY DEF FeedInv
<1>2. Cuts(yielded \o todo, feed)
  BY ShownIs
<1>3. PICK size \in 1..Limit, warned \in BOOLEAN :
         yielded \o todo = Split(Normalized(feed), size, warned) /\ Justified(feed, warned)
  BY <1>2 DEF Cuts
<1> DEFINE all == yielded \o todo
           N == Normalized(feed)
<1>4. N \in Seq(Nat) /\ size \in Nat \ {0} /\ ToSet(N) = Kept(feed)
  BY <1>1, NormalizedIs
<1>5. N = <<>> <=> Kept(feed) = {}
  <2> HIDE DEF N
  <2>1. N = <<>> => ToSet(N) = {}
    BY DEF ToSet
  <2>2. N # <<>> => 1 \in DOMAIN N
    BY <1>4, EmptySeq
  <2>3. 1 \in DOMAIN N => N[1] \in ToSet(N)
    BY DEF ToSet
  <2> QED
    BY <1>4, <2>1, <2>2, <2>3
<1>6. \A k \in DOMAIN all : all[k].warned = (N = <<>> \/ (warned /\ k = 1))
  <2>1. all = Split(N, size, warned)
    BY <1>3
  <2> HIDE DEF N, all
  <2> QED
    BY <1>4, <2>1, SplitIs
<1>7. /\ Len(yielded) \in Nat \ {0} /\ DOMAIN yielded = 1..Len(yielded)
      /\ \A k \in DOMAIN yielded : k \in DOMAIN all /\ all[k] = yielded[k]
  <2>1. /\ all \in Seq(BatchOf) /\ Len(all) = Len(yielded) + Len(todo)
        /\ \A i \in 1..Len(yielded) + Len(todo) :
             all[i] = IF i <= Len(yielded) THEN yielded[i] ELSE todo[i - Len(yielded)]
    BY <1>1, ConcatProperties
  <2>2. Len(yielded) \in Nat \ {0} /\ DOMAIN yielded = 1..Len(yielded) /\ Len(todo) \in Nat
    BY <1>1, EmptySeq
  <2> HIDE DEF all
  <2> QED
    BY <2>1, <2>2
<1> HIDE DEF all, N
<1>8. 1 \in DOMAIN yielded
  BY <1>7
<1>9. yielded[1].warned = (Kept(feed) = {} \/ warned)
  BY <1>5, <1>6, <1>7, <1>8
<1>10. Told => Kept(feed) = {} \/ warned
  BY <1>5, <1>6, <1>7 DEF Told
<1> QED
  BY <1>3, <1>8, <1>9, <1>10 DEF Told

LEMMA LimitsFollow == FeedInv => ConfiguredLimitsHold
<1> SUFFICES ASSUME FeedInv
             PROVE  ConfiguredLimitsHold
  OBVIOUS
<1> DEFINE entry == settings.config[adapter]
           set == Options(settings, adapter)
           own == IF adapter = "remoteok" /\ set.result_cap = Absent
                  THEN set.batch_size ELSE set.result_cap
<1>1. Settled /\ feed \in Seq(Row) /\ attempt \in 1..MaxRetries
  BY DEF FeedInv
<1>2. /\ Cap = (IF own \in 1..MaxCap THEN own ELSE DefaultCap[adapter])
      /\ MaxRetries = (IF set.request_budget \in 1..MaxBudget
                       THEN set.request_budget ELSE DefaultBudget[adapter])
      /\ Cap \in Nat \ {0} /\ MaxRetries \in Nat \ {0}
  BY <1>1, LimitsAre
<1>3. Cardinality(Shown) <= Cap
  <2>1. CASE yielded = <<>>
    BY <1>2, <2>1, ShownIs, FS_EmptySet
  <2>2. CASE yielded # <<>>
    <3>1. Shown \subseteq Kept(feed)
      BY <2>2, ShownIs
    <3>2. /\ IsFiniteSet(Kept(feed)) /\ Cardinality(Kept(feed)) \in Nat
          /\ Cardinality(Kept(feed)) <= Cap
      BY <1>1, KeptAreFew
    <3>3. IsFiniteSet(Shown) /\ Cardinality(Shown) <= Cardinality(Kept(feed))
      BY <3>1, <3>2, FS_Subset
    <3>4. Cardinality(Shown) \in Nat
      BY <3>3, FS_CardinalityType
    <3> QED
      BY <1>2, <3>2, <3>3, <3>4
  <2> QED
    BY <2>1, <2>2
<1>4. attempt <= MaxRetries
  BY <1>1, <1>2
<1>5. entry = Absent \/ entry.enabled
  <2>1. adapter \in KnownKeys /\ ProviderState(settings, adapter) = "enabled"
    BY <1>1 DEF Settled, BuildProviders
  <2>2. ConfigEnabled(settings, adapter)
    BY <2>1 DEF ProviderState
  <2> QED
    BY <2>2 DEF ConfigEnabled
<1> HIDE DEF entry, set, own
<1>6. /\ Cardinality(Shown) <= (IF own \in 1..MaxCap THEN own ELSE DefaultCap[adapter])
      /\ attempt <= (IF set.request_budget \in 1..MaxBudget
                     THEN set.request_budget ELSE DefaultBudget[adapter])
  BY <1>2, <1>3, <1>4
<1> QED
  BY <1>5, <1>6 DEF ConfiguredLimitsHold, entry, set, own

LEMMA DeliveryFollows == FeedInv => WholeFeedDelivered
<1> SUFFICES ASSUME FeedInv, gen = "ended"
             PROVE  /\ \A k \in DOMAIN yielded :
                         /\ yielded[k].page = k /\ yielded[k].pages = Len(yielded)
                         /\ Len(yielded[k].items) <= Limit
                    /\ \A k, l \in DOMAIN Delivered : k < l => Delivered[k] < Delivered[l]
                    /\ Shown \subseteq Jobs(feed)
                    /\ \A i \in Jobs(feed) \ Shown :
                         /\ \A j \in Shown : j < i
                         /\ IF adapter = "weworkremotely"
                            THEN ObjectsBefore(feed, i) >= Cap
                            ELSE Cardinality(Shown) = Cap
  BY DEF WholeFeedDelivered, Limit
<1>1. /\ yielded \in Seq(BatchOf) /\ feed \in Seq(Row) /\ Settled /\ yielded # <<>>
      /\ todo = <<>> /\ Cuts(yielded \o todo, feed)
  BY DEF FeedInv
<1>2. yielded \o todo = yielded
  BY <1>1
<1>3. PICK size \in 1..Limit, warned \in BOOLEAN :
         yielded = Split(Normalized(feed), size, warned)
  BY <1>1, <1>2 DEF Cuts
<1> DEFINE N == Normalized(feed)
<1>4. /\ N \in Seq(Nat) /\ ToSet(N) = Kept(feed) /\ size \in Nat \ {0}
      /\ \A m, n \in 1..Len(N) : m < n => N[m] < N[n]
  BY <1>1, NormalizedIs
<1>5. /\ \A k \in DOMAIN yielded :
           /\ yielded[k].page = k /\ yielded[k].pages = Len(yielded)
           /\ Len(yielded[k].items) <= size
      /\ FlattenSeq(ItemsOf(yielded)) = N
  <2> HIDE DEF N
  <2> QED
    BY <1>3, <1>4, SplitIs DEF N
<1>6. Delivered = N
  BY <1>5 DEF Delivered, ItemsOf
<1> HIDE DEF N
<1>7. Shown = Kept(feed)
  BY <1>4, <1>6, ShownIs
<1>8. \A k \in DOMAIN yielded : Len(yielded[k].items) <= Limit
  <2>1. ASSUME NEW k \in DOMAIN yielded
        PROVE  Len(yielded[k].items) <= Limit
    <3>1. Limit \in Nat
      BY <1>1, LimitsAre DEF Limit
    <3>2. yielded[k].items \in Seq(Nat)
      BY <1>1, ItemsAreNumbers
    <3>3. Len(yielded[k].items) \in Nat
      BY <3>2
    <3> QED
      BY <1>4, <1>5, <3>1, <3>3
  <2> QED
    BY <2>1
<1>9. \A k, l \in DOMAIN Delivered : k < l => Delivered[k] < Delivered[l]
  BY <1>4, <1>6
<1>10. Shown \subseteq Jobs(feed)
  BY <1>7 DEF Kept
<1>11. ASSUME NEW i \in Jobs(feed) \ Shown
       PROVE  /\ \A j \in Shown : j < i
              /\ IF adapter = "weworkremotely" THEN ObjectsBefore(feed, i) >= Cap
                 ELSE Cardinality(Shown) = Cap
  BY <1>1, <1>7, LeftOut
<1> QED
  BY <1>5, <1>8, <1>9, <1>10, <1>11

LEMMA WarningsFollow == FeedInv => WarningsTellTheTruth
<1> SUFFICES ASSUME FeedInv
             PROVE  CutsAreTold /\ WarningsAreEarned
  BY DEF WarningsTellTheTruth
<1>1. CASE yielded = <<>>
  <2>1. Shown = {} /\ gen # "ended"
    BY <1>1, ShownIs DEF FeedInv
  <2> QED
    BY <1>1, <2>1 DEF CutsAreTold, WarningsAreEarned
<1>2. CASE yielded # <<>>
  <2>1. Shown \cup ToSet(Cut) = Kept(feed) /\ (gen = "ended" => ToSet(Cut) = {})
    <3>1. gen = "ended" => ToSet(Cut) = {}
      <4> SUFFICES ASSUME gen = "ended"
                   PROVE  ToSet(Cut) = {}
        OBVIOUS
      <4>1. todo = <<>> /\ <<>> \in Seq(BatchOf)
        BY DEF FeedInv
      <4>2. Cut = FlattenSeq(ItemsOf(todo)) /\ DOMAIN todo = {}
        BY <4>1 DEF Cut, ItemsOf
      <4> QED
        BY <4>1, <4>2, ItemsInBatches
    <3> QED
      BY <1>2, <3>1, ShownIs
  <2>2. PICK warned \in BOOLEAN : /\ Justified(feed, warned)
                                  /\ yielded[1].warned = (Kept(feed) = {} \/ warned)
                                  /\ Told => Kept(feed) = {} \/ warned
    BY <1>2, WarnedIs
  <2>3. 1 \in DOMAIN yielded
    BY <1>2, WarnedIs
  <2>4. more => MayHaveMore(feed)
    BY DEF FeedInv
  <2>5. CutsAreTold
    <3> DEFINE owed == adapter \in {"remotive", "jobicy"} => broad
               left == (Jobs(feed) \ Shown) \ {Cut[k] : k \in DOMAIN Cut}
               noticed == /\ Cap <= SourceLimit[adapter]
                          /\ adapter = "weworkremotely" => Objects(feed) = DOMAIN feed
    <3>1. left = Jobs(feed) \ Kept(feed)
      BY <2>1 DEF ToSet
    <3>2. owed /\ (left # {} \/ (more /\ noticed)) => yielded[1].warned
      BY <2>2, <2>4, <3>1 DEF Justified
    <3> QED
      BY <3>2 DEF CutsAreTold, Cut
  <2>6. WarningsAreEarned
    <3>1. Shown # {} /\ Told /\ adapter # "remotive" => Len(feed) >= Cap
      BY <2>1, <2>2 DEF Justified
    <3>2. gen = "ended" /\ Shown = {} => Told
      BY <2>1, <2>2, <2>3 DEF Told
    <3> QED
      BY <3>1, <3>2 DEF WarningsAreEarned
  <2> QED
    BY <2>5, <2>6
<1> QED
  BY <1>1, <1>2

LEMMA RaisingFollows == FeedInv => OnlyConversionRaises
<1> SUFFICES ASSUME FeedInv, gen = "raised"
             PROVE  /\ yielded = <<>>
                    /\ \/ feed = <<>> /\ adapter # "weworkremotely"
                       \/ \E i \in Objects(feed) :
                            /\ feed[i].named
                            /\ ~feed[i].stamped \/ (adapter = "jobicy" /\ ~feed[i].paid)
                            /\ JobsBefore(feed, i) < Cap
  BY DEF OnlyConversionRaises
<1>1. yielded = <<>> /\ feed \in Seq(Row) /\ Settled
  BY DEF FeedInv
<1>2. CASE feed = <<>> /\ adapter # "weworkremotely"
  BY <1>1, <1>2
<1>3. CASE NormalizingRaises(feed)
  <2>1. PICK i \in Examined(feed) : FateOf(feed[i]) = "raise"
    BY <1>3 DEF NormalizingRaises
  <2>2. i \in Objects(feed)
    BY <1>1, <2>1, RowsAre
  <2>3. feed[i].named /\ (~feed[i].stamped \/ (adapter = "jobicy" /\ ~feed[i].paid))
    <3>1. adapter \in AdapterKeys
      BY <1>1 DEF Settled
    <3> QED
      BY <2>1, <3>1 DEF FateOf, RemotiveFate, JobicyFate, RemoteOKFate, WeWorkRemotelyFate,
                        AdapterKeys
  <2>4. JobsBefore(feed, i) < Cap
    <3>1. CASE adapter # "weworkremotely"
      BY <2>1, <3>1 DEF Examined, Reached
    <3>2. CASE adapter = "weworkremotely"
      <4> DEFINE O == {j \in Objects(feed) : j < i}
                 J == {j \in Jobs(feed) : j < i}
      <4>1. J \subseteq O /\ IsFiniteSet(Objects(feed))
        BY <1>1, RowsAre
      <4>2. IsFiniteSet(O)
        BY <4>1, FS_Subset
      <4>3. IsFiniteSet(J) /\ Cardinality(J) <= Cardinality(O)
        BY <4>1, <4>2, FS_Subset
      <4>4. Cardinality(O) < Cap
        BY <2>1, <3>2 DEF Examined, Entries, ObjectsBefore
      <4>5. Cardinality(J) \in Nat /\ Cardinality(O) \in Nat /\ Cap \in Nat
        BY <1>1, <4>2, <4>3, FS_CardinalityType, LimitsAre
      <4>6. JobsBefore(feed, i) = Cardinality(J)
        BY DEF JobsBefore
      <4> HIDE DEF O, J
      <4> QED
        BY <4>3, <4>4, <4>5, <4>6
    <3> QED
      BY <3>1, <3>2
  <2> QED
    BY <1>1, <2>2, <2>3, <2>4
<1> QED
  BY <1>1, <1>2, <1>3 DEF FeedInv

\* A legal cap and budget of the provider's own entry limit what one search shows and asks
\* for, any other value leaves the defaults in force, and no disabled adapter runs - for
\* every PROVIDER_CONFIG_JSON and every document.
THEOREM ConfiguredLimitsAlwaysHold == Spec => []ConfiguredLimitsHold
<1> QED
  BY FeedsAreCutUp, LimitsFollow, PTL

\* A generator that ends has yielded as many bounded batches as it announced, and in them,
\* once and in order, every usable row up to the cap.
THEOREM WholeFeedAlwaysDelivered == Spec => []WholeFeedDelivered
<1> QED
  BY FeedsAreCutUp, DeliveryFollows, PTL

\* A truncation that is owed a warning has one in the first batch already, and no warning
\* is there for nothing.
THEOREM WarningsAlwaysTellTheTruth == Spec => []WarningsTellTheTruth
<1> QED
  BY FeedsAreCutUp, WarningsFollow, PTL

\* One bad row costs the others only where its time or salary cannot be converted.
THEOREM OnlyConversionEverRaises == Spec => []OnlyConversionRaises
<1> QED
  BY FeedsAreCutUp, RaisingFollows, PTL
=============================================================================
