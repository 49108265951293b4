-------------------------- MODULE ModelCallsProofs --------------------------
(***************************************************************************)
(* Theorems about the provider table, the token quota and the text of a    *)
(* daily summary, for every number of providers, callers, subjects and     *)
(* events, and whatever a model answers.                                   *)
(***************************************************************************)
EXTENDS ModelCalls, FiniteSetTheorems, FunctionTheorems, SequenceTheorems,
        WellFoundedInduction, TLAPS

-----------------------------------------------------------------------------
(***************************************************************************)
(* The provider table                                                      *)
(***************************************************************************)

\* The complete rows, and the table of them.
FlagSets == [Flags -> BOOLEAN]
Table == [Providers -> FlagSets]

\* A row whose defaults are enabled.
Sound(flags) == DefaultRoles(flags) # {} => flags["enabled"]
TableInv ==
  /\ provider \in Table
  /\ \A p \in Providers: Sound(provider[p])

LEMMA Fields ==
  /\ Roles = {"vision", "qa"}
  /\ DefaultField["vision"] = "is_default_vision"
  /\ DefaultField["qa"] = "is_default_qa"
  /\ CapabilityField["vision"] = "supports_vision"
  /\ CapabilityField["qa"] = "supports_qa"
  BY DEF Roles, DefaultField, CapabilityField

LEMMA DefaultFlags ==
  ASSUME NEW flags \in FlagSets
  PROVE  Sound(flags) <=>
           (flags["is_default_vision"] \/ flags["is_default_qa"] =>
              flags["enabled"])
<1>1. DefaultRoles(flags) # {} <=>
        flags["is_default_vision"] \/ flags["is_default_qa"]
  BY Fields DEF DefaultRoles
<1> QED
  BY <1>1 DEF Sound

LEMMA AdjustedIsSound ==
  ASSUME NEW asked \in FlagSets
  PROVE  Adjusted(asked) \in FlagSets /\ Sound(Adjusted(asked))
<1> DEFINE capable == {r \in Roles: asked[CapabilityField[r]]}
           roles == DefaultRoles(asked) \cap capable
           result == Adjusted(asked)
<1>1. result \in FlagSets
  BY DEF Adjusted, FlagSets
<1>2. result["enabled"] <=> asked["enabled"] \/ roles # {}
  BY DEF Adjusted, Flags
<1>3. ASSUME NEW r \in DefaultRoles(result)
      PROVE  r \in roles
  BY <1>3, Fields DEF Adjusted, DefaultRoles, Flags
<1> QED
  BY <1>1, <1>2, <1>3 DEF Sound

LEMMA AdjustedInUpdateIsSound ==
  ASSUME NEW asked \in FlagSets
  PROVE  AdjustedInUpdate(asked) \in FlagSets /\ Sound(AdjustedInUpdate(asked))
<1> DEFINE roles == DefaultRoles(asked)
           result == AdjustedInUpdate(asked)
<1>1. result \in FlagSets
  BY DEF AdjustedInUpdate, FlagSets
<1>2. result["enabled"] <=> asked["enabled"] \/ roles # {}
  BY DEF AdjustedInUpdate, Flags
<1>3. ASSUME NEW r \in DefaultRoles(result)
      PROVE  r \in roles
  BY <1>3, Fields DEF AdjustedInUpdate, DefaultRoles, Flags
<1> QED
  BY <1>1, <1>2, <1>3 DEF Sound

\* To take the default away from the siblings leaves them sound.
LEMMA ResetKeeps ==
  ASSUME NEW table \in Table, NEW p, NEW roles \in SUBSET Roles,
         \A q \in Providers: Sound(table[q])
  PROVE  /\ ResetOthers(table, p, roles) \in Table
         /\ \A q \in Providers: Sound(ResetOthers(table, p, roles)[q])
<1> DEFINE result == ResetOthers(table, p, roles)
<1>1. result \in Table
  BY DEF ResetOthers, Table, FlagSets
<1>2. ASSUME NEW q \in Providers
      PROVE  Sound(result[q])
  <2>1. result[q]["enabled"] <=> table[q]["enabled"]
    BY Fields DEF ResetOthers, Flags
  <2>2. DefaultRoles(result[q]) \subseteq DefaultRoles(table[q])
    BY Fields DEF ResetOthers, DefaultRoles, Flags
  <2> QED
    BY <2>1, <2>2 DEF Sound
<1> QED
  BY <1>1, <1>2

LEMMA ChangedIsComplete ==
  ASSUME NEW flags \in FlagSets, NEW change,
         \A f \in DOMAIN change: change[f] \in BOOLEAN
  PROVE  Changed(flags, change) \in FlagSets
  BY DEF Changed, FlagSets

\* To write a sound row leaves a sound table.
LEMMA Written ==
  ASSUME TableInv, NEW p \in Providers, NEW flags \in FlagSets, Sound(flags)
  PROVE  LET table == [provider EXCEPT ![p] = flags]
         IN  table \in Table /\ \A q \in Providers: Sound(table[q])
  BY DEF TableInv, Table

LEMMA CreateKeeps ==
  ASSUME TableInv, NEW p \in Providers, CreateProvider(p)
  PROVE  TableInv'
<1>1. PICK asked \in NewProviders:
        provider' = ResetOthers([provider EXCEPT ![p] = Adjusted(asked)], p,
                                DefaultRoles(Adjusted(asked)))
  BY DEF CreateProvider
<1>2. asked \in FlagSets
  BY RowsAssumption DEF FlagSets, Flags
<1> QED
  BY <1>1, <1>2, AdjustedIsSound, Written, ResetKeeps
  DEF TableInv, DefaultRoles

LEMMA UpdateKeeps ==
  ASSUME TableInv, NEW p \in Providers, UpdateProvider(p)
  PROVE  TableInv'
<1>1. PICK change \in ProviderChanges:
        LET next == AdjustedInUpdate(Changed(provider[p], change))
        IN  provider' = ResetOthers([provider EXCEPT ![p] = next], p,
                                    DefaultRoles(next))
  BY DEF UpdateProvider
<1>2. Changed(provider[p], change) \in FlagSets
  BY RowsAssumption, ChangedIsComplete DEF TableInv, Table
<1> QED
  BY <1>1, <1>2, AdjustedInUpdateIsSound, Written, ResetKeeps
  DEF TableInv, DefaultRoles

LEMMA DeleteKeeps ==
  ASSUME TableInv, NEW p \in Providers, DeleteProvider(p)
  PROVE  TableInv'
<1>1. NoFlags \in FlagSets /\ Sound(NoFlags)
  BY Fields DEF NoFlags, FlagSets, Sound, DefaultRoles, Flags
<1> QED
  BY <1>1, Written DEF DeleteProvider, TableInv

LEMMA SetDefaultKeeps ==
  ASSUME TableInv, NEW p \in Providers, NEW role \in Roles,
         SetDefaultProvider(p, role)
  PROVE  TableInv'
<1> DEFINE flags == [provider[p] EXCEPT ![DefaultField[role]] = TRUE,
                                        !["enabled"] = TRUE]
<1>1. flags \in FlagSets /\ Sound(flags)
  BY Fields DEF TableInv, Table, FlagSets, Sound, Flags
<1>2. provider' = ResetOthers([provider EXCEPT ![p] = flags], p, {role})
  BY DEF SetDefaultProvider, TableInv, Table
<1> QED
  BY <1>1, <1>2, Written, ResetKeeps DEF TableInv

LEMMA TestKeeps ==
  ASSUME TableInv, NEW p \in Providers, TestProvider(p)
  PROVE  TableInv'
<1>1. PICK found \in ProbeResults:
        provider' = [provider EXCEPT ![p] = Changed(provider[p], found)]
  BY DEF TestProvider
<1>2. /\ DOMAIN found = {"supports_vision", "supports_tool_calling"}
      /\ \A f \in DOMAIN found: found[f] \in BOOLEAN
  BY DEF ProbeResults
<1> DEFINE flags == Changed(provider[p], found)
<1>3. flags \in FlagSets
  BY <1>2, ChangedIsComplete DEF TableInv, Table
<1>4. \A f \in {"is_default_vision", "is_default_qa", "enabled"}:
        flags[f] = provider[p][f]
  BY <1>2 DEF Changed, TableInv, Table, FlagSets, Flags
<1>5. Sound(flags)
  BY <1>3, <1>4, DefaultFlags DEF TableInv, Table
<1> QED
  BY <1>1, <1>3, <1>5, Written DEF TableInv

LEMMA InitSound == Init => TableInv
<1> SUFFICES ASSUME Init
             PROVE  TableInv
  OBVIOUS
<1>1. ASSUME NEW p \in Providers
      PROVE  provider[p] \in FlagSets /\ Sound(provider[p])
  <2>1. CASE p \in DOMAIN Installed
    <3>1. provider[p] = Installed[p]
      BY <2>1 DEF Init, Changed
    <3> QED
      BY <2>1, <3>1, RowsAssumption, DefaultFlags DEF FlagSets, Flags
  <2>2. CASE p \notin DOMAIN Installed
    <3>1. provider[p] = NoFlags
      BY <2>2 DEF Init, Changed
    <3> QED
      BY <3>1, Fields DEF NoFlags, FlagSets, Sound, DefaultRoles, Flags
  <2> QED
    BY <2>1, <2>2
<1>2. provider \in Table
  BY <1>1 DEF Init, Changed, Table
<1> QED
  BY <1>1, <1>2 DEF TableInv

LEMMA StepSound == TableInv /\ [Next]_vars => TableInv'
<1> SUFFICES ASSUME TableInv, [Next]_vars
             PROVE  TableInv'
  OBVIOUS
<1>1. ASSUME NEW p \in Providers, Administer(p)
      PROVE  TableInv'
  BY <1>1, CreateKeeps, UpdateKeeps, DeleteKeeps, SetDefaultKeeps, TestKeeps
  DEF Administer
<1>2. CASE UNCHANGED provider
  BY <1>2 DEF TableInv
<1>3. CASE AdministerHome
  BY <1>2, <1>3
  DEF AdministerHome, CreateMember, CreatePet, AddEntity, UpdateEntity,
      DisableEntity, EditHome
<1>4. CASE Midnight
  BY <1>2, <1>4 DEF Midnight, tableVars
<1>5. CASE SetQuotas
  BY <1>2, <1>5 DEF SetQuotas
<1>6. ASSUME NEW w \in Workers, Work(w)
      PROVE  TableInv'
  BY <1>2, <1>6
  DEF Work, AskThroughPage, AskThroughMCP, AskQuestion, StartRecognition,
      StartSummary, CheckQuota, Refused, CallTools, AnswerQuestion,
      FinishQuestion, FailQuestion, RecognizeChunk, RecordChunk,
      WriteSinglePass, WriteSubject, WriteRollup, AskAgain, FailSummary,
      PublishSummary, DescribeEntity, Described, RollBack, Begin, Release,
      Answered, CallForSummary, tableVars
<1> QED
  BY <1>1, <1>2, <1>3, <1>4, <1>5, <1>6 DEF Next, vars, tableVars

\* A default provider is enabled, whatever is asked for in whatever order
\* (application/llm_providers/use_cases.py).
THEOREM DefaultsEnabled == Spec => []DefaultsAreEnabled
<1>1. TableInv => DefaultsAreEnabled
  BY DEF TableInv, Sound, DefaultsAreEnabled
<1> QED
  BY <1>1, InitSound, StepSound, PTL DEF Spec

-----------------------------------------------------------------------------
(***************************************************************************)
(* Finite sets and sums                                                    *)
(* What holds of a set when it holds of its proper subsets holds of every  *)
(* subset of a finite set; sums are taken by leaving an element out.       *)
(***************************************************************************)

\* What passes from the proper subsets of a set to the set holds of every
\* finite set.
LEMMA SubsetInduction ==
  ASSUME NEW S, IsFiniteSet(S), NEW Good,
         ASSUME NEW T \in SUBSET S, \A U \in SUBSET T : U # T => U \in Good
         PROVE  T \in Good
  PROVE  \A T \in SUBSET S : T \in Good
<1> DEFINE Bad == (SUBSET S) \ Good
           R == StrictSubsetOrdering(S)
<1>1. SUFFICES ASSUME Bad # {}
               PROVE  FALSE
  OBVIOUS
<1>2. IsWellFoundedOn(R, SUBSET S)
  BY FS_StrictSubsetOrderingWellFounded, FS_FiniteSubsetsOfFinite
<1>3. PICK T \in Bad : \A U \in Bad : ~(<<U, T>> \in R)
  <2>1. Bad \subseteq SUBSET S
    BY DEF Bad
  <2> HIDE DEF Bad, R
  <2> QED
    BY <1>1, <1>2, <2>1, WFMin
<1>4. ASSUME NEW U \in SUBSET T, U # T
      PROVE  U \in Good
  <2>1. <<U, T>> \in R
    BY <1>3, <1>4 DEF StrictSubsetOrdering
  <2> QED
    BY <1>3, <1>4, <2>1
<1> QED
  BY <1>3, <1>4

\* What passes from a number to the next one holds of every number.
LEMMA NaturalInduction ==
  ASSUME NEW Good, 0 \in Good, \A n \in Nat : n \in Good => n + 1 \in Good
  PROVE  \A n \in Nat : n \in Good
<1> SUFFICES ASSUME NEW b \in Nat, b \notin Good
             PROVE  FALSE
  OBVIOUS
<1> DEFINE Bad == {0..n : n \in {m \in 0..b : m \notin Good}}
           R == StrictSubsetOrdering(0..b)
<1>1. IsFiniteSet(0..b)
  BY FS_Interval
<1>2. IsWellFoundedOn(R, SUBSET (0..b))
  BY <1>1, FS_StrictSubsetOrderingWellFounded, FS_FiniteSubsetsOfFinite
<1>3. PICK T \in Bad : \A U \in Bad : ~(<<U, T>> \in R)
  <2>1. Bad \subseteq SUBSET (0..b)
    OBVIOUS
  <2>2. Bad # {}
    OBVIOUS
  <2> HIDE DEF Bad, R
  <2> QED
    BY <1>2, <2>1, <2>2, WFMin
<1>4. PICK n \in 0..b : n \notin Good /\ T = 0..n
  BY <1>3
<1>5. n # 0 /\ n - 1 \in 0..b /\ n - 1 \notin Good
  BY <1>4
<1>6. <<0..(n - 1), T>> \in R
  BY <1>4, <1>5 DEF StrictSubsetOrdering
<1> QED
  BY <1>3, <1>5, <1>6

\* A sum leaves one chosen element out at a time; Sums has the sums over
\* all subsets of S.
Pick(s) == CHOOSE x \in s : TRUE
Summed(g, f, D) ==
  g = [s \in D |-> IF s = {} THEN 0 ELSE f[Pick(s)] + g[s \ {Pick(s)}]]
Sums(f, S) == CHOOSE g : Summed(g, f, SUBSET S)

\* There is a function that satisfies the equation of the sums.
LEMMA SumsExist ==
  ASSUME NEW S, IsFiniteSet(S), NEW f
  PROVE  \E g : Summed(g, f, SUBSET S)
<1> DEFINE upTo(n) == {s \in SUBSET S : Cardinality(s) <= n}
           Good == {n \in Nat : \E g : Summed(g, f, upTo(n))}
<1>1. \A s \in SUBSET S : IsFiniteSet(s) /\ Cardinality(s) \in Nat
  BY FS_Subset, FS_CardinalityType
<1>2. 0 \in Good
  <2>1. \A s \in upTo(0) : s = {}
    BY <1>1, FS_EmptySet
  <2>2. Summed([s \in upTo(0) |-> 0], f, upTo(0))
    BY <2>1 DEF Summed
  <2> QED
    BY <2>2
<1>3. ASSUME NEW n \in Good
      PROVE  n + 1 \in Good
  <2>1. PICK g : Summed(g, f, upTo(n))
    BY <1>3
  <2> DEFINE h == [s \in upTo(n + 1) |->
                     IF s = {} THEN 0 ELSE f[Pick(s)] + g[s \ {Pick(s)}]]
  <2>2. ASSUME NEW s \in upTo(n + 1), s # {}
        PROVE  Pick(s) \in s /\ s \ {Pick(s)} \in upTo(n)
    <3>1. Pick(s) \in s
      BY <2>2 DEF Pick
    <3> QED
      BY <1>1, <2>2, <3>1, FS_RemoveElement
  <2>3. ASSUME NEW s \in upTo(n)
        PROVE  s \in upTo(n + 1) /\ h[s] = g[s]
    <3>1. s \in upTo(n + 1)
      BY <1>1
    <3>2. g[s] = IF s = {} THEN 0 ELSE f[Pick(s)] + g[s \ {Pick(s)}]
      BY <2>1 DEF Summed
    <3>3. h[s] = IF s = {} THEN 0 ELSE f[Pick(s)] + g[s \ {Pick(s)}]
      BY <3>1
    <3> QED
      BY <3>1, <3>2, <3>3
  <2>4. h = [s \in upTo(n + 1) |->
               IF s = {} THEN 0 ELSE f[Pick(s)] + h[s \ {Pick(s)}]]
    <3>1. \A s \in upTo(n + 1) : s # {} => h[s \ {Pick(s)}] = g[s \ {Pick(s)}]
      BY <2>2, <2>3
    <3>2. h = [s \in upTo(n + 1) |->
                 IF s = {} THEN 0 ELSE f[Pick(s)] + g[s \ {Pick(s)}]]
      OBVIOUS
    <3> HIDE DEF h, upTo
    <3> QED
      BY <3>1, <3>2
  <2>5. Summed(h, f, upTo(n + 1))
    <3> HIDE DEF h, upTo
    <3> QED
      BY <2>4 DEF Summed
  <2>6. n + 1 \in Nat
    OBVIOUS
  <2> HIDE DEF h, upTo
  <2> QED
    BY <2>5, <2>6
<1>4. Cardinality(S) \in Good
  <2> HIDE DEF Good
  <2>1. Cardinality(S) \in Nat
    BY FS_CardinalityType
  <2>2. \A n \in Nat : n \in Good => n + 1 \in Good
    BY <1>3
  <2> QED
    BY <1>2, <2>1, <2>2, NaturalInduction
<1>5. upTo(Cardinality(S)) = SUBSET S
  BY FS_Subset
<1> HIDE DEF upTo
<1> QED
  BY <1>4, <1>5

\* So Sums satisfies it.
LEMMA SumsStep ==
  ASSUME NEW S, IsFiniteSet(S), NEW f
  PROVE  /\ Sums(f, S)[{}] = 0
         /\ \A s \in SUBSET S : s # {} =>
              /\ Pick(s) \in s
              /\ Sums(f, S)[s] = f[Pick(s)] + Sums(f, S)[s \ {Pick(s)}]
<1> DEFINE g == Sums(f, S)
<1>1. Summed(g, f, SUBSET S)
  BY SumsExist DEF Sums
<1> HIDE DEF g
<1>2. \A s \in SUBSET S :
        g[s] = IF s = {} THEN 0 ELSE f[Pick(s)] + g[s \ {Pick(s)}]
  BY <1>1 DEF Summed
<1>3. \A s : s # {} => Pick(s) \in s
  BY DEF Pick
<1>4. g[{}] = 0
  BY <1>2
<1>5. \A s \in SUBSET S : s # {} =>
        Pick(s) \in s /\ g[s] = f[Pick(s)] + g[s \ {Pick(s)}]
  BY <1>2, <1>3
<1> QED
  BY <1>4, <1>5 DEF g

\* A sum of numbers is a number.
LEMMA SumsType ==
  ASSUME NEW S, IsFiniteSet(S), NEW f \in [S -> Nat]
  PROVE  \A s \in SUBSET S : Sums(f, S)[s] \in Nat
<1> DEFINE Good == {s \in SUBSET S : Sums(f, S)[s] \in Nat}
<1>1. ASSUME NEW T \in SUBSET S, \A U \in SUBSET T : U # T => U \in Good
      PROVE  T \in Good
  <2>1. CASE T = {}
    BY <2>1, SumsStep
  <2>2. CASE T # {}
    <3>1. /\ Pick(T) \in T
          /\ Sums(f, S)[T] = f[Pick(T)] + Sums(f, S)[T \ {Pick(T)}]
      BY <2>2, SumsStep
    <3>2. T \ {Pick(T)} \in Good
      BY <1>1, <3>1
    <3>3. f[Pick(T)] \in Nat
      BY <3>1
    <3> QED
      BY <3>1, <3>2, <3>3
  <2> QED
    BY <2>1, <2>2
<1> HIDE DEF Good
<1>2. \A T \in SUBSET S : T \in Good
  BY <1>1, SubsetInduction
<1> QED
  BY <1>2 DEF Good

\* Functions that differ at one element have sums that differ as much.
LEMMA SumsDiffer ==
  ASSUME NEW S, IsFiniteSet(S), NEW f \in [S -> Nat], NEW g \in [S -> Nat],
         NEW p \in S, \A x \in S : x # p => g[x] = f[x]
  PROVE  Sums(g, S)[S] = Sums(f, S)[S] - f[p] + g[p]
<1> DEFINE Good == {s \in SUBSET S :
                      Sums(g, S)[s] =
                        IF p \in s THEN Sums(f, S)[s] - f[p] + g[p]
                                   ELSE Sums(f, S)[s]}
<1>1. ASSUME NEW T \in SUBSET S, \A U \in SUBSET T : U # T => U \in Good
      PROVE  T \in Good
  <2>1. CASE T = {}
    BY <2>1, SumsStep
  <2>2. CASE T # {}
    <3> DEFINE x == Pick(T)
               U == T \ {x}
    <3>1. x \in T
      BY <2>2, SumsStep
    <3>2. /\ Sums(f, S)[T] = f[x] + Sums(f, S)[U]
          /\ Sums(g, S)[T] = g[x] + Sums(g, S)[U]
      BY <2>2, SumsStep
    <3> HIDE DEF x
    <3>3. U \in Good
      BY <1>1, <3>1
    <3>4. Sums(f, S)[U] \in Nat /\ Sums(g, S)[U] \in Nat
      BY <3>1, SumsType
    <3>5. f[x] \in Nat /\ g[x] \in Nat /\ f[p] \in Nat
      BY <3>1
    <3>6. CASE x = p
      BY <3>1, <3>2, <3>3, <3>4, <3>5, <3>6
    <3>7. CASE x # p
      BY <3>1, <3>2, <3>3, <3>4, <3>5, <3>7
    <3> QED
      BY <3>6, <3>7
  <2> QED
    BY <2>1, <2>2
<1> HIDE DEF Good
<1>2. S \in Good
  BY <1>1, SubsetInduction
<1> QED
  BY <1>2 DEF Good

\* A sum of zeros is zero.
LEMMA SumsZero ==
  ASSUME NEW S, IsFiniteSet(S), NEW f, \A x \in S : f[x] = 0
  PROVE  Sums(f, S)[S] = 0
<1> DEFINE Good == {s \in SUBSET S : Sums(f, S)[s] = 0}
<1>1. ASSUME NEW T \in SUBSET S, \A U \in SUBSET T : U # T => U \in Good
      PROVE  T \in Good
  <2>1. CASE T = {}
    BY <2>1, SumsStep
  <2>2. CASE T # {}
    <3>1. /\ Pick(T) \in T
          /\ Sums(f, S)[T] = f[Pick(T)] + Sums(f, S)[T \ {Pick(T)}]
      BY <2>2, SumsStep
    <3>2. T \ {Pick(T)} \in Good
      BY <1>1, <3>1
    <3>3. f[Pick(T)] = 0
      BY <3>1
    <3> QED
      BY <3>1, <3>2, <3>3
  <2> QED
    BY <2>1, <2>2
<1> HIDE DEF Good
<1>2. S \in Good
  BY <1>1, SubsetInduction
<1> QED
  BY <1>2 DEF Good

\* A finite set of numbers that is not empty has a greatest one.
LEMMA MaxIsGreatest ==
  ASSUME NEW S \in SUBSET Int, IsFiniteSet(S), S # {}
  PROVE  Max(S) \in S /\ \A x \in S : x <= Max(S)
<1> DEFINE Good == {T \in SUBSET S : T = {} \/ \E x \in T : \A y \in T : x >= y}
<1>1. ASSUME NEW T \in SUBSET S, \A U \in SUBSET T : U # T => U \in Good
      PROVE  T \in Good
  <2>1. CASE T # {}
    <3>1. PICK x \in T : TRUE
      BY <2>1
    <3>2. T \ {x} \in Good
      BY <1>1, <3>1
    <3> QED
      BY <3>1, <3>2
  <2> QED
    BY <2>1
<1>2. S \in Good
  <2> HIDE DEF Good
  <2> QED
    BY <1>1, SubsetInduction
<1> QED
  BY <1>2 DEF Max

-----------------------------------------------------------------------------
(***************************************************************************)
(* Subjects and sections                                                   *)
(***************************************************************************)

\* R is a strict linear order of S.
Orders(R, S) ==
  /\ \A i \in S : <<i, i>> \notin R
  /\ \A i, j, k \in S : <<i, j>> \in R /\ <<j, k>> \in R => <<i, k>> \in R
  /\ \A i, j \in S : i = j \/ <<i, j>> \in R \/ <<j, i>> \in R

\* Ranked lists the elements of a set in the order, each of them once.
LEMMA RankedEnumerates ==
  ASSUME NEW S, IsFiniteSet(S), NEW R, Orders(R, S)
  PROVE  LET at == Ranked(S, R)
         IN  /\ at \in [1..Cardinality(S) -> S]
             /\ \A i \in S : \E k \in 1..Cardinality(S) : at[k] = i
             /\ \A k, l \in 1..Cardinality(S) : k < l => <<at[k], at[l]>> \in R
<1> DEFINE n == Cardinality(S)
           before(i) == {j \in S : <<j, i>> \in R}
           rank == [i \in S |-> Cardinality(before(i)) + 1]
           at == Ranked(S, R)
<1>1. n \in Nat
  BY FS_CardinalityType
<1>2. ASSUME NEW i \in S
      PROVE  /\ IsFiniteSet(before(i))
             /\ Cardinality(before(i)) \in Nat
             /\ Cardinality(before(i)) < n
  <2>1. before(i) \in SUBSET S /\ before(i) # S
    BY DEF Orders
  <2>2. /\ IsFiniteSet(before(i))
        /\ Cardinality(before(i)) <= n /\ Cardinality(before(i)) # n
    <3> HIDE DEF before
    <3> QED
      BY <2>1, FS_Subset
  <2> QED
    BY <1>1, <2>2, FS_CardinalityType
<1>3. ASSUME NEW i \in S, NEW j \in S, <<i, j>> \in R
      PROVE  rank[i] < rank[j]
  <2>1. before(i) \cup {i} \in SUBSET before(j) /\ i \notin before(i)
    BY <1>3 DEF Orders
  <2> HIDE DEF before
  <2>2. Cardinality(before(i) \cup {i}) = Cardinality(before(i)) + 1
    BY <1>2, <2>1, FS_AddElement
  <2>3. Cardinality(before(i) \cup {i}) <= Cardinality(before(j))
    BY <1>2, <2>1, FS_Subset
  <2> QED
    BY <1>2, <2>2, <2>3
<1>4. rank \in [S -> 1..n]
  <2> HIDE DEF before
  <2> QED
    BY <1>1, <1>2
<1> HIDE DEF before
<1>5. rank \in Injection(S, 1..n)
  <2>1. ASSUME NEW i \in S, NEW j \in S, i # j
        PROVE  rank[i] # rank[j]
    <3>1. rank[i] \in Nat /\ rank[j] \in Nat
      BY <1>4
    <3>2. <<i, j>> \in R \/ <<j, i>> \in R
      BY <2>1 DEF Orders
    <3>3. rank[i] < rank[j] \/ rank[j] < rank[i]
      BY <1>3, <3>2
    <3> HIDE DEF rank
    <3> QED
      BY <3>1, <3>3
  <2> HIDE DEF rank
  <2> QED
    BY <1>4, <2>1 DEF Injection, IsInjective
<1>6. rank \in Surjection(S, 1..n)
  <2> HIDE DEF rank
  <2>1. IsFiniteSet(1..n) /\ Cardinality(1..n) = n
    BY <1>1, FS_Interval
  <2> QED
    BY <1>5, <2>1, FS_Injection
<1>7. ASSUME NEW k \in 1..n
      PROVE  at[k] \in S /\ rank[at[k]] = k
  <2>1. PICK i \in S : rank[i] = k
    <3> HIDE DEF rank
    <3> QED
      BY <1>6 DEF Surjection
  <2>2. Cardinality(before(i)) = k - 1
    BY <1>2, <2>1
  <2>3. at[k] = CHOOSE j \in S : Cardinality(before(j)) = k - 1
    BY DEF Ranked, before
  <2>4. at[k] \in S /\ Cardinality(before(at[k])) = k - 1
    BY <2>2, <2>3
  <2> QED
    BY <2>4
<1>8. at = [k \in 1..n |-> at[k]]
  <2> DEFINE pick(k) == CHOOSE j \in S : Cardinality(before(j)) = k - 1
  <2>1. at = [k \in 1..n |-> pick(k)]
    BY DEF Ranked, before
  <2> HIDE DEF pick, at
  <2> QED
    BY <2>1
<1> HIDE DEF at
<1>9. ASSUME NEW i \in S
      PROVE  \E k \in 1..n : at[k] = i
  <2>1. rank[i] \in 1..n /\ at[rank[i]] \in S /\ rank[at[rank[i]]] = rank[i]
    <3> HIDE DEF rank
    <3> QED
      BY <1>4, <1>7
  <2>2. at[rank[i]] = i
    <3> HIDE DEF rank
    <3> QED
      BY <1>5, <2>1 DEF Injection, IsInjective
  <2> QED
    BY <2>1, <2>2
<1>10. ASSUME NEW k \in 1..n, NEW l \in 1..n, k < l
       PROVE  <<at[k], at[l]>> \in R
  <2>1. at[k] # at[l] /\ ~(<<at[l], at[k]>> \in R)
    <3> HIDE DEF rank
    <3> QED
     BY <1>3, <1>7, <1>10
  <2> QED
    BY <1>7, <2>1 DEF Orders
<1> QED
  BY <1>7, <1>8, <1>9, <1>10 DEF at

\* t consists of the elements of s at the positions S, in some order.
Places(at, t, s, S) ==
  /\ at \in [DOMAIN t -> S]
  /\ \A k \in DOMAIN t : t[k] = s[at[k]]
  /\ \A i \in S : \E k \in DOMAIN t : at[k] = i
  /\ \A k, l \in DOMAIN t : k # l => at[k] # at[l]

\* The positions of a sequence are as many as it is long.
LEMMA Positions ==
  ASSUME NEW X, NEW s \in Seq(X)
  PROVE  /\ DOMAIN s = 1..Len(s) /\ Len(s) \in Nat
         /\ IsFiniteSet(DOMAIN s) /\ Cardinality(DOMAIN s) = Len(s)
<1>1. DOMAIN s = 1..Len(s) /\ Len(s) \in Nat
  OBVIOUS
<1>2. IsFiniteSet(1..Len(s)) /\ Cardinality(1..Len(s)) = Len(s)
  BY <1>1, FS_Interval
<1> QED
  BY <1>1, <1>2

\* Arranged has the elements of the positions, each position once.
LEMMA ArrangedElements ==
  ASSUME NEW X, NEW s \in Seq(X), NEW S \in SUBSET DOMAIN s, NEW R,
         Orders(R, S)
  PROVE  /\ IsFiniteSet(S) /\ Cardinality(S) \in Nat
         /\ Arranged(s, S, R) \in Seq(X)
         /\ Len(Arranged(s, S, R)) = Cardinality(S)
         /\ \E at : /\ Places(at, Arranged(s, S, R), s, S)
                    /\ \A k, l \in DOMAIN Arranged(s, S, R) :
                         k < l => <<at[k], at[l]>> \in R
<1> DEFINE n == Cardinality(S)
           at == Ranked(S, R)
           t == Arranged(s, S, R)
<1>2. IsFiniteSet(S) /\ n \in Nat
  BY Positions, FS_Subset, FS_CardinalityType
<1>3. /\ at \in [1..n -> S]
      /\ \A i \in S : \E k \in 1..n : at[k] = i
      /\ \A k, l \in 1..n : k < l => <<at[k], at[l]>> \in R
  BY <1>2, RankedEnumerates
<1>4. t = [k \in 1..n |-> s[at[k]]]
  BY DEF Arranged
<1> HIDE DEF at, t, n
<1>5. \A i \in DOMAIN s : s[i] \in X
  OBVIOUS
<1>6. t \in [1..n -> X]
  BY <1>3, <1>4, <1>5
<1>7. t \in Seq(X) /\ Len(t) = n /\ DOMAIN t = 1..n
  BY <1>2, <1>6
<1>8. ASSUME NEW k \in 1..n, NEW l \in 1..n, k # l
      PROVE  at[k] # at[l]
  <2>1. k < l \/ l < k
    BY <1>8, <1>2
  <2>2. <<at[k], at[l]>> \in R \/ <<at[l], at[k]>> \in R
    BY <1>3, <2>1
  <2>3. at[k] \in S
    BY <1>3
  <2> QED
    BY <2>2, <2>3 DEF Orders
<1>9. Places(at, t, s, S)
  BY <1>3, <1>4, <1>7, <1>8 DEF Places
<1>10. \A k, l \in DOMAIN t : k < l => <<at[k], at[l]>> \in R
  BY <1>3, <1>7
<1>11. \E a : Places(a, t, s, S)
              /\ \A k, l \in DOMAIN t : k < l => <<a[k], a[l]>> \in R
  BY <1>9, <1>10
<1> QED
  BY <1>2, <1>7, <1>11 DEF n, t

\* [x for x in s if ...] has the elements of the positions.
LEMMA KeptElements ==
  ASSUME NEW X, NEW s \in Seq(X), NEW S \in SUBSET DOMAIN s
  PROVE  /\ IsFiniteSet(S) /\ Cardinality(S) \in Nat
         /\ Kept(s, S) \in Seq(X) /\ Len(Kept(s, S)) = Cardinality(S)
         /\ \E at : Places(at, Kept(s, S), s, S)
<1> DEFINE R == {p \in S \X S : p[1] < p[2]}
<1>1. \A i \in S : i \in Nat
  BY Positions
<1>2. Orders(R, S)
  BY <1>1 DEF Orders
<1>3. Kept(s, S) = Arranged(s, S, R)
  BY DEF Kept
<1> HIDE DEF R
<1> QED
  BY <1>2, <1>3, ArrangedElements

\* The most active sections come first.
Sorted(sections) ==
  \A k, l \in DOMAIN sections :
    k < l => sections[k].activity >= sections[l].activity

\* ByActivity sorts and keeps the sections.
LEMMA ByActivitySorts ==
  ASSUME NEW s \in Seq(Sections)
  PROVE  /\ ByActivity(s) \in Seq(Sections) /\ Len(ByActivity(s)) = Len(s)
         /\ \E at : Places(at, ByActivity(s), s, DOMAIN s)
         /\ Sorted(ByActivity(s))
<1> DEFINE R == ActivityOrder(s)
           S == DOMAIN s
           t == ByActivity(s)
<1>1. ASSUME NEW i \in S
      PROVE  i \in Nat /\ s[i].activity \in Nat
  <2>1. s[i] \in Sections
    OBVIOUS
  <2> QED
    BY <2>1, Positions DEF Sections
<1>2. \A i, j \in S : <<i, j>> \in R <=>
         \/ s[i].activity > s[j].activity
         \/ s[i].activity = s[j].activity /\ i < j
  BY DEF ActivityOrder
<1>3. Orders(R, S)
  <2> HIDE DEF R, S
  <2>1. \A i \in S : <<i, i>> \notin R
    BY <1>1, <1>2
  <2>2. ASSUME NEW i \in S, NEW j \in S, i # j
        PROVE  <<i, j>> \in R \/ <<j, i>> \in R
    <3>1. /\ i \in Nat /\ j \in Nat
          /\ s[i].activity \in Nat /\ s[j].activity \in Nat
      BY <1>1
    <3>2. i < j \/ j < i
      BY <2>2, <3>1
    <3> QED
      BY <1>2, <3>1, <3>2
  <2>3. ASSUME NEW i \in S, NEW j \in S, NEW k \in S,
               <<i, j>> \in R, <<j, k>> \in R
        PROVE  <<i, k>> \in R
    BY <1>1, <1>2, <2>3
  <2> QED
    BY <2>1, <2>2, <2>3 DEF Orders
<1>4. Cardinality(S) = Len(s)
  BY Positions
<1>5. t = Arranged(s, S, R)
  BY DEF ByActivity
<1> HIDE DEF R, t
<1>6. /\ t \in Seq(Sections) /\ Len(t) = Cardinality(S)
      /\ \E at : /\ Places(at, t, s, S)
                 /\ \A k, l \in DOMAIN t : k < l => <<at[k], at[l]>> \in R
  BY <1>3, <1>5, ArrangedElements
<1>7. PICK at : /\ Places(at, t, s, S)
                /\ \A k, l \in DOMAIN t : k < l => <<at[k], at[l]>> \in R
  BY <1>6
<1>8. ASSUME NEW k \in DOMAIN t, NEW l \in DOMAIN t, k < l
      PROVE  t[k].activity >= t[l].activity
  <2>1. /\ at[k] \in S /\ at[l] \in S /\ <<at[k], at[l]>> \in R
        /\ t[k] = s[at[k]] /\ t[l] = s[at[l]]
    BY <1>7, <1>8 DEF Places
  <2>2. s[at[k]].activity \in Nat /\ s[at[l]].activity \in Nat
    BY <1>1, <2>1
  <2> QED
    BY <1>2, <2>1, <2>2
<1> QED
  BY <1>4, <1>6, <1>7, <1>8 DEF t, Sorted

\* Distinct elements of s have distinct images, all of them in T.
LEMMA FitsInto ==
  ASSUME NEW S, NEW T, IsFiniteSet(T), NEW image \in [S -> T],
         \A i, j \in S : i # j => image[i] # image[j]
  PROVE  IsFiniteSet(S) /\ Cardinality(S) <= Cardinality(T)
<1>1. image \in Injection(S, T)
  BY DEF Injection, IsInjective
<1> QED
  BY <1>1, FS_Injection

\* The known subjects are names of entities, at most as many.
LEMMA KnownSubjectsFit ==
  ASSUME NEW entities \in Seq(Entities)
  PROVE  /\ KnownSubjects(entities) \in Seq(STRING)
         /\ Len(KnownSubjects(entities)) <= Len(entities)
<1> DEFINE D == DOMAIN entities
           M == Listed(entities, "member")
           P == Listed(entities, "pet")
           members == Kept(entities, M)
           pets == Kept(entities, P)
           listed == members \o pets
<1>1. M \in SUBSET D /\ P \in SUBSET D /\ M \cap P = {}
  BY DEF Listed
<1>2. /\ members \in Seq(Entities) /\ Len(members) = Cardinality(M)
      /\ pets \in Seq(Entities) /\ Len(pets) = Cardinality(P)
      /\ IsFiniteSet(M) /\ IsFiniteSet(P)
  BY <1>1, KeptElements
<1>3. Cardinality(M) + Cardinality(P) <= Len(entities)
  <2> HIDE DEF M, P
  <2>1. Cardinality(M \cup P) = Cardinality(M) + Cardinality(P)
    <3>1. Cardinality(M \cap P) = 0
      BY <1>1, FS_EmptySet
    <3>2. Cardinality(M) \in Nat /\ Cardinality(P) \in Nat
      BY <1>2, FS_CardinalityType
    <3>3. Cardinality(M \cup P)
            = Cardinality(M) + Cardinality(P) - Cardinality(M \cap P)
      BY <1>2, FS_Union
    <3> QED
      BY <3>1, <3>2, <3>3
  <2>2. Cardinality(M \cup P) <= Cardinality(D)
    BY <1>1, Positions, FS_Subset
  <2> QED
    BY <2>1, <2>2, Positions
<1> HIDE DEF members, pets, M, P
<1>4. listed \in Seq(Entities) /\ Len(listed) = Len(members) + Len(pets)
  BY <1>2, ConcatProperties
<1>5. KnownSubjects(entities) = [i \in DOMAIN listed |-> listed[i].name]
  BY DEF KnownSubjects, members, pets, M, P
<1> HIDE DEF listed
<1>6. ASSUME NEW i \in DOMAIN listed
      PROVE  listed[i].name \in STRING
  <2>1. listed[i] \in Entities
    BY <1>4
  <2> QED
    BY <2>1 DEF Entities
<1>7. DOMAIN listed = 1..Len(listed) /\ Len(listed) \in Nat
  BY <1>4
<1>8. /\ KnownSubjects(entities) \in Seq(STRING)
      /\ Len(KnownSubjects(entities)) = Len(listed)
  BY <1>5, <1>6, <1>7
<1> QED
  BY <1>2, <1>3, <1>4, <1>8

\* The first mentions of the home's subjects, and the subjects that no
\* event mentions.
Known(subjects, events) ==
  {i \in Firsts(events) : events[i] \in ToSet(subjects)}
Missing(subjects, events) ==
  {i \in DOMAIN subjects : subjects[i] \notin ToSet(events)}

\* s[i] for some i.
LEMMA Elements ==
  ASSUME NEW X, NEW s \in Seq(X)
  PROVE  \A x : x \in ToSet(s) <=> \E i \in DOMAIN s : s[i] = x
  BY DEF ToSet

\* A finite set of numbers that is not empty has a least one.
LEMMA Least ==
  ASSUME NEW S \in SUBSET Nat, IsFiniteSet(S), S # {}
  PROVE  \E i \in S : \A j \in S : i <= j
<1> DEFINE R == {p \in S \X S : p[1] < p[2]}
           n == Cardinality(S)
           at == Ranked(S, R)
<1>1. \A i, j \in S : <<i, j>> \in R <=> i < j
  OBVIOUS
<1>2. Orders(R, S)
  BY <1>1 DEF Orders
<1>3. n \in Nat /\ n # 0
  BY FS_CardinalityType, FS_EmptySet
<1> HIDE DEF R, n
<1>4. /\ at \in [1..n -> S]
      /\ \A i \in S : \E k \in 1..n : at[k] = i
      /\ \A k, l \in 1..n : k < l => <<at[k], at[l]>> \in R
  BY <1>2, RankedEnumerates DEF n
<1> HIDE DEF at
<1>5. 1 \in 1..n /\ at[1] \in S
  BY <1>3, <1>4
<1>6. ASSUME NEW j \in S
      PROVE  at[1] <= j
  <2>1. PICK k \in 1..n : at[k] = j
    BY <1>4
  <2>2. k = 1 \/ <<at[1], at[k]>> \in R
    BY <1>3, <1>4, <1>5
  <2>3. k # 1 => at[1] < at[k]
    BY <1>1, <1>4, <1>5, <2>2
  <2>4. at[1] \in Nat /\ at[k] \in Nat
    BY <1>5, <2>1
  <2>5. at[1] <= at[k]
    BY <2>3, <2>4
  <2> QED
    BY <2>1, <2>5
<1> QED
  BY <1>5, <1>6

\* What is mentioned has a first mention.
LEMMA FirstMention ==
  ASSUME NEW X, NEW s \in Seq(X), NEW x \in ToSet(s)
  PROVE  \E i \in Firsts(s) : s[i] = x
<1> DEFINE at == {i \in DOMAIN s : s[i] = x}
<1>1. at \in SUBSET Nat /\ IsFiniteSet(at) /\ at # {}
  BY Positions, FS_Subset, Elements
<1>2. PICK i \in at : \A j \in at : i <= j
  BY <1>1, Least
<1>3. \A j \in DOMAIN s : j < i => s[j] # s[i]
  BY <1>1, <1>2, Positions
<1> QED
  BY <1>2, <1>3 DEF Firsts

\* Mentions is a number; it is positive for what is mentioned.
LEMMA MentionsType ==
  ASSUME NEW s \in Seq(STRING), NEW x
  PROVE  /\ Mentions(s, x) \in Nat
         /\ Mentions(s, x) = 0 <=> x \notin ToSet(s)
<1> DEFINE at == {i \in DOMAIN s : s[i] = x}
<1>1. IsFiniteSet(at)
  BY Positions, FS_Subset
<1>2. at = {} <=> x \notin ToSet(s)
  BY Elements
<1> HIDE DEF at
<1>3. Cardinality(at) \in Nat /\ (Cardinality(at) = 0 <=> at = {})
  BY <1>1, FS_CardinalityType, FS_EmptySet
<1> QED
  BY <1>2, <1>3 DEF Mentions, at

\* A section for each first mention of a subject of the home.
LEMMA ObservedAreKnown ==
  ASSUME NEW subjects \in Seq(STRING), NEW events \in Seq(STRING)
  PROVE  LET observed == ObservedSections(subjects, events)
         IN  /\ IsFiniteSet(Known(subjects, events))
             /\ observed \in Seq(Sections)
             /\ Len(observed) = Cardinality(Known(subjects, events))
             /\ \A k \in DOMAIN observed :
                  /\ observed[k].name \in ToSet(subjects) \cap ToSet(events)
                  /\ observed[k].activity = Mentions(events, observed[k].name)
             /\ \A x \in ToSet(subjects) \cap ToSet(events) :
                  \E k \in DOMAIN observed : observed[k].name = x
             /\ \A k, l \in DOMAIN observed :
                  k # l => observed[k].name # observed[l].name
<1> DEFINE K == Known(subjects, events)
           known == Kept(events, K)
           raw == [i \in DOMAIN known |->
                     Section(known[i], Mentions(events, known[i]))]
           observed == ObservedSections(subjects, events)
<1>1. K \in SUBSET DOMAIN events
  BY DEF Known, Firsts
<1> HIDE DEF K
<1>2. /\ IsFiniteSet(K)
      /\ known \in Seq(STRING) /\ Len(known) = Cardinality(K)
      /\ \E at : Places(at, known, events, K)
  BY <1>1, KeptElements
<1>3. PICK at : Places(at, known, events, K)
  BY <1>2
<1>4. /\ \A i \in K : events[i] \in ToSet(subjects) \cap ToSet(events)
      /\ \A i, j \in K : i # j => events[i] # events[j]
  <2>1. \A i \in K : i \in Firsts(events) /\ events[i] \in ToSet(subjects)
    BY DEF K, Known
  <2>2. ASSUME NEW i \in K, NEW j \in K, i # j
        PROVE  events[i] # events[j]
    <3>1. i < j \/ j < i
      BY <1>1, <2>2, Positions
    <3> QED
      BY <1>1, <2>1, <3>1 DEF Firsts
  <2> QED
    BY <1>1, <2>1, <2>2, Elements
<1> HIDE DEF known
<1>5. raw \in Seq(Sections) /\ Len(raw) = Len(known)
      /\ DOMAIN raw = DOMAIN known
  <2>1. DOMAIN known = 1..Len(known) /\ Len(known) \in Nat
    BY <1>2
  <2>2. ASSUME NEW i \in DOMAIN known
        PROVE  Section(known[i], Mentions(events, known[i])) \in Sections
    <3>1. known[i] \in STRING
      BY <1>2
    <3> QED
      BY <3>1, MentionsType DEF Section, Sections
  <2> QED
    BY <2>1, <2>2
<1>6. \A i \in DOMAIN raw :
        /\ raw[i].name = events[at[i]]
        /\ raw[i].activity = Mentions(events, raw[i].name)
  BY <1>3, <1>5 DEF Places, Section
<1>7. observed = ByActivity(raw)
  BY DEF ObservedSections, known, K, Known
<1> HIDE DEF raw, observed
<1>8. /\ observed \in Seq(Sections) /\ Len(observed) = Len(raw)
      /\ \E to : Places(to, observed, raw, DOMAIN raw)
  BY <1>5, <1>7, ByActivitySorts
<1>9. PICK to : Places(to, observed, raw, DOMAIN raw)
  BY <1>8
<1>10. ASSUME NEW k \in DOMAIN observed
       PROVE  /\ observed[k].name = events[at[to[k]]]
              /\ to[k] \in DOMAIN known /\ at[to[k]] \in K
              /\ observed[k].activity = Mentions(events, observed[k].name)
  <2>1. observed[k] = raw[to[k]] /\ to[k] \in DOMAIN raw
    BY <1>9 DEF Places
  <2> QED
    BY <1>3, <1>5, <1>6, <2>1 DEF Places
<1>11. ASSUME NEW x \in ToSet(subjects) \cap ToSet(events)
       PROVE  \E k \in DOMAIN observed : observed[k].name = x
  <2>1. PICK i \in Firsts(events) : events[i] = x
    BY FirstMention
  <2>2. i \in K
    BY <2>1 DEF K, Known
  <2>3. PICK j \in DOMAIN known : at[j] = i
    BY <1>3, <2>2 DEF Places
  <2>4. PICK k \in DOMAIN observed : to[k] = j
    BY <1>5, <1>9, <2>3 DEF Places
  <2> QED
    BY <1>10, <2>1, <2>3, <2>4
<1>12. ASSUME NEW k \in DOMAIN observed, NEW l \in DOMAIN observed, k # l
       PROVE  observed[k].name # observed[l].name
  <2>1. to[k] # to[l]
    BY <1>9, <1>12 DEF Places
  <2>2. at[to[k]] # at[to[l]]
    BY <1>3, <1>10, <2>1 DEF Places
  <2> QED
    BY <1>4, <1>10, <2>2
<1>13. \A k \in DOMAIN observed :
         /\ observed[k].name \in ToSet(subjects) \cap ToSet(events)
         /\ observed[k].activity = Mentions(events, observed[k].name)
  BY <1>4, <1>10
<1> QED
  BY <1>2, <1>5, <1>8, <1>11, <1>12, <1>13 DEF observed, K

\* u is s followed by t, position by position.
IsJoined(u, s, t) ==
  /\ \A k \in DOMAIN u :
       \/ k \in DOMAIN s /\ u[k] = s[k]
       \/ /\ k \in Nat /\ k - Len(s) \in DOMAIN t
          /\ u[k] = t[k - Len(s)]
  /\ \A k \in DOMAIN s : k \in DOMAIN u /\ u[k] = s[k]
  /\ \A k \in DOMAIN t : k + Len(s) \in DOMAIN u /\ u[k + Len(s)] = t[k]

LEMMA Joined ==
  ASSUME NEW X, NEW s \in Seq(X), NEW t \in Seq(X)
  PROVE  /\ s \o t \in Seq(X) /\ Len(s \o t) = Len(s) + Len(t)
         /\ IsJoined(s \o t, s, t)
<1>1. /\ DOMAIN s = 1..Len(s) /\ Len(s) \in Nat
      /\ DOMAIN t = 1..Len(t) /\ Len(t) \in Nat
  OBVIOUS
<1>2. /\ s \o t \in Seq(X) /\ Len(s \o t) = Len(s) + Len(t)
      /\ DOMAIN (s \o t) = 1..(Len(s) + Len(t))
      /\ \A k \in 1..(Len(s) + Len(t)) :
           (s \o t)[k] = IF k <= Len(s) THEN s[k] ELSE t[k - Len(s)]
  BY <1>1
<1>3. ASSUME NEW k \in DOMAIN (s \o t)
      PROVE  \/ k \in DOMAIN s /\ (s \o t)[k] = s[k]
             \/ /\ k \in Nat /\ k - Len(s) \in DOMAIN t
                /\ (s \o t)[k] = t[k - Len(s)]
  BY <1>1, <1>2
<1>4. ASSUME NEW k \in DOMAIN s
      PROVE  k \in DOMAIN (s \o t) /\ (s \o t)[k] = s[k]
  BY <1>1, <1>2
<1>5. ASSUME NEW k \in DOMAIN t
      PROVE  k + Len(s) \in DOMAIN (s \o t) /\ (s \o t)[k + Len(s)] = t[k]
  <2>1. k + Len(s) \in DOMAIN (s \o t) /\ ~(k + Len(s) <= Len(s))
    BY <1>1, <1>2
  <2>2. (k + Len(s)) - Len(s) = k
    BY <1>1
  <2> QED
    BY <1>2, <2>1, <2>2
<1> QED
  BY <1>2, <1>3, <1>4, <1>5 DEF IsJoined

\* The subjects that no event mentions, each at its position.
LEMMA MissingAreUnmentioned ==
  ASSUME NEW subjects \in Seq(STRING), NEW events \in Seq(STRING)
  PROVE  LET missing == MissingSubjects(subjects, events)
         IN  /\ IsFiniteSet(Missing(subjects, events))
             /\ missing \in Seq(STRING)
             /\ Len(missing) = Cardinality(Missing(subjects, events))
             /\ \E at : Places(at, missing, subjects, Missing(subjects, events))
<1> DEFINE observed == ObservedSections(subjects, events)
           M == Missing(subjects, events)
<1>1. ASSUME NEW i \in DOMAIN subjects
      PROVE  subjects[i] \in Names(observed) <=> subjects[i] \in ToSet(events)
  <2>1. subjects[i] \in ToSet(subjects)
    BY Elements
  <2>2. /\ \A k \in DOMAIN observed :
             observed[k].name \in ToSet(subjects) \cap ToSet(events)
        /\ \A x \in ToSet(subjects) \cap ToSet(events) :
             \E k \in DOMAIN observed : observed[k].name = x
    BY ObservedAreKnown
  <2> HIDE DEF observed
  <2> QED
    BY <2>1, <2>2 DEF Names
<1>2. MissingSubjects(subjects, events) = Kept(subjects, M)
  <2> HIDE DEF observed
  <2>1. {i \in DOMAIN subjects : subjects[i] \notin Names(observed)} = M
    BY <1>1 DEF Missing
  <2> QED
    BY <2>1 DEF MissingSubjects, observed
<1>3. M \in SUBSET DOMAIN subjects
  BY DEF Missing
<1> HIDE DEF M, observed
<1>4. /\ IsFiniteSet(M)
      /\ Kept(subjects, M) \in Seq(STRING)
      /\ Len(Kept(subjects, M)) = Cardinality(M)
      /\ \E at : Places(at, Kept(subjects, M), subjects, M)
  BY <1>3, KeptElements
<1> QED
  BY <1>2, <1>4 DEF M

\* Together they are no more than the subjects of the home.
LEMMA SubjectsFit ==
  ASSUME NEW subjects \in Seq(STRING), NEW events \in Seq(STRING)
  PROVE  Cardinality(Known(subjects, events))
           + Cardinality(Missing(subjects, events)) <= Len(subjects)
<1> DEFINE K == Known(subjects, events)
           M == Missing(subjects, events)
           D == DOMAIN subjects
           bearer == [i \in K |-> CHOOSE j \in D : subjects[j] = events[i]]
<1>1. ASSUME NEW i \in K
      PROVE  /\ i \in DOMAIN events
             /\ bearer[i] \in D /\ subjects[bearer[i]] = events[i]
  <2>1. i \in Firsts(events) /\ events[i] \in ToSet(subjects)
    BY DEF Known
  <2>2. \E j \in D : subjects[j] = events[i]
    BY <2>1, Elements
  <2> QED
    BY <2>1, <2>2 DEF Firsts
<1>2. ASSUME NEW i \in K
      PROVE  bearer[i] \in D \ M
  BY <1>1, Elements DEF Missing
<1>3. ASSUME NEW i \in K, NEW j \in K, i # j
      PROVE  bearer[i] # bearer[j]
  <2>1. i < j \/ j < i
    <3>1. i \in DOMAIN events /\ j \in DOMAIN events
      BY <1>1
    <3>2. i \in Nat /\ j \in Nat
      BY <3>1
    <3> QED
      BY <1>3, <3>2
  <2>2. events[i] # events[j]
    BY <1>1, <2>1 DEF Known, Firsts
  <2> HIDE DEF bearer
  <2> QED
    BY <1>1, <2>2
<1>4. bearer \in [K -> D \ M]
  BY <1>2
<1>5. /\ IsFiniteSet(D) /\ Cardinality(D) = Len(subjects)
      /\ M \in SUBSET D
  BY Positions DEF Missing
<1> HIDE DEF bearer, D, K, M
<1>6. IsFiniteSet(M) /\ IsFiniteSet(D \ M)
  BY <1>5, FS_Subset
<1>7. IsFiniteSet(K) /\ Cardinality(K) <= Cardinality(D \ M)
  BY <1>3, <1>4, <1>6, FitsInto
<1>8. Cardinality(D \ M) = Cardinality(D) - Cardinality(M)
  <2>1. D \cap M = M
    BY <1>5
  <2> QED
    BY <1>5, <1>6, <2>1, FS_Difference
<1>9. /\ Cardinality(K) \in Nat /\ Cardinality(M) \in Nat
      /\ Cardinality(D) \in Nat
  BY <1>5, <1>6, <1>7, FS_CardinalityType
<1> QED
  BY <1>5, <1>7, <1>8, <1>9 DEF K, M

\* A section for each subject with its activity, and, if the text is serial,
\* at most one unless the subject has no event and shares its name.
Covers(sections, subjects, events, serial) ==
  /\ sections \in Seq(Sections)
  /\ \A x \in ToSet(subjects) : \E i \in DOMAIN sections : sections[i].name = x
  /\ \A i \in DOMAIN sections :
       sections[i].name \in ToSet(subjects) =>
         sections[i].activity = Mentions(events, sections[i].name)
  /\ serial =>
       \A i, j \in DOMAIN sections :
         i # j /\ sections[i].name = sections[j].name =>
           /\ Mentions(events, sections[i].name) = 0
           /\ Mentions(subjects, sections[i].name) > 1

\* To sort the sections leaves the subjects covered.
LEMMA SortedCovers ==
  ASSUME NEW subjects, NEW events, NEW serial, NEW sections,
         Covers(sections, subjects, events, serial)
  PROVE  /\ Covers(ByActivity(sections), subjects, events, serial)
         /\ Sorted(ByActivity(sections))
<1> DEFINE t == ByActivity(sections)
<1>1. /\ t \in Seq(Sections) /\ Sorted(t)
      /\ \E at : Places(at, t, sections, DOMAIN sections)
  BY ByActivitySorts DEF Covers
<1> HIDE DEF t
<1>2. PICK at : Places(at, t, sections, DOMAIN sections)
  BY <1>1
<1>3. ASSUME NEW k \in DOMAIN t
      PROVE  at[k] \in DOMAIN sections /\ t[k] = sections[at[k]]
  BY <1>2 DEF Places
<1>4. ASSUME NEW x \in ToSet(subjects)
      PROVE  \E k \in DOMAIN t : t[k].name = x
  <2>1. PICK i \in DOMAIN sections : sections[i].name = x
    BY DEF Covers
  <2>2. PICK k \in DOMAIN t : at[k] = i
    BY <1>2, <2>1 DEF Places
  <2> QED
    BY <1>3, <2>1, <2>2
<1>5. ASSUME NEW k \in DOMAIN t, t[k].name \in ToSet(subjects)
      PROVE  t[k].activity = Mentions(events, t[k].name)
  BY <1>3, <1>5 DEF Covers
<1>6. ASSUME serial, NEW k \in DOMAIN t, NEW l \in DOMAIN t,
             k # l, t[k].name = t[l].name
      PROVE  /\ Mentions(events, t[k].name) = 0
             /\ Mentions(subjects, t[k].name) > 1
  <2>1. at[k] # at[l]
    BY <1>2, <1>6 DEF Places
  <2> QED
    BY <1>3, <1>6, <2>1 DEF Covers
<1> QED
  BY <1>1, <1>4, <1>5, <1>6 DEF Covers, t

\* Who is named at two positions is mentioned more than once.
LEMMA MentionedTwice ==
  ASSUME NEW s \in Seq(STRING), NEW i \in DOMAIN s, NEW j \in DOMAIN s,
         i # j, s[i] = s[j]
  PROVE  Mentions(s, s[i]) > 1
<1> DEFINE at == {k \in DOMAIN s : s[k] = s[i]}
           single == {i}
           pair == single \cup {j}
<1>1. IsFiniteSet(at)
  BY Positions, FS_Subset
<1>2. pair \in SUBSET at
  OBVIOUS
<1>3. Cardinality(pair) = 2
  <2>1. IsFiniteSet(single) /\ Cardinality(single) = 1 /\ j \notin single
    BY FS_Singleton
  <2> HIDE DEF single
  <2>2. Cardinality(pair) = Cardinality(single) + 1
    BY <2>1, FS_AddElement
  <2> HIDE DEF pair
  <2> QED
    BY <2>1, <2>2
<1>5. Mentions(s, s[i]) = Cardinality(at)
  BY DEF Mentions
<1> HIDE DEF at, single, pair
<1>4. Cardinality(pair) <= Cardinality(at) /\ Cardinality(at) \in Nat
  BY <1>1, <1>2, FS_Subset, FS_CardinalityType
<1> QED
  BY <1>3, <1>4, <1>5

\* The serial path writes one section for each subject, and no more than the
\* home has subjects.
LEMMA SerialCovers ==
  ASSUME NEW subjects \in Seq(STRING), NEW events \in Seq(STRING)
  PROVE  LET sections == SerialSections(subjects, events)
         IN  /\ Covers(sections, subjects, events, TRUE)
             /\ Len(sections) <= Len(subjects)
<1> DEFINE observed == ObservedSections(subjects, events)
           missing == MissingSubjects(subjects, events)
           M == Missing(subjects, events)
           stubs == [i \in DOMAIN missing |-> Section(missing[i], 0)]
           all == observed \o stubs
           a == Len(observed)
<1>1. /\ observed \in Seq(Sections)
      /\ Len(observed) = Cardinality(Known(subjects, events))
      /\ \A k \in DOMAIN observed :
           /\ observed[k].name \in ToSet(subjects) \cap ToSet(events)
           /\ observed[k].activity = Mentions(events, observed[k].name)
      /\ \A x \in ToSet(subjects) \cap ToSet(events) :
           \E k \in DOMAIN observed : observed[k].name = x
      /\ \A k, l \in DOMAIN observed :
           k # l => observed[k].name # observed[l].name
  BY ObservedAreKnown
<1>2. /\ missing \in Seq(STRING) /\ Len(missing) = Cardinality(M)
      /\ \E at : Places(at, missing, subjects, M)
  BY MissingAreUnmentioned
<1>3. PICK at : Places(at, missing, subjects, M)
  BY <1>2
<1> HIDE DEF observed, missing
<1>4. /\ stubs \in Seq(Sections) /\ Len(stubs) = Len(missing)
      /\ DOMAIN stubs = DOMAIN missing
      /\ \A i \in DOMAIN missing : stubs[i].name = missing[i]
                                   /\ stubs[i].activity = 0
      /\ DOMAIN missing = 1..Len(missing) /\ Len(missing) \in Nat
  <2>1. DOMAIN missing = 1..Len(missing) /\ Len(missing) \in Nat
    BY <1>2
  <2>2. \A i \in DOMAIN missing : Section(missing[i], 0) \in Sections
    BY <1>2 DEF Section, Sections
  <2> QED
    BY <2>1, <2>2 DEF Section
<1>5. ASSUME NEW j \in DOMAIN missing
      PROVE  /\ at[j] \in DOMAIN subjects /\ missing[j] = subjects[at[j]]
             /\ missing[j] \in ToSet(subjects) \ ToSet(events)
             /\ Mentions(events, missing[j]) = 0
  <2>1. at[j] \in M /\ missing[j] = subjects[at[j]]
    BY <1>3 DEF Places
  <2> QED
    BY <2>1, Elements, MentionsType DEF Missing
<1> HIDE DEF stubs
<1>6. /\ all \in Seq(Sections) /\ Len(all) = a + Len(missing) /\ a \in Nat
      /\ \A k \in DOMAIN all :
           \/ k \in DOMAIN observed /\ all[k] = observed[k]
           \/ /\ k \in Nat /\ k - a \in DOMAIN stubs
              /\ all[k] = stubs[k - a]
      /\ \A k \in DOMAIN observed : k \in DOMAIN all /\ all[k] = observed[k]
      /\ \A k \in DOMAIN stubs : k + a \in DOMAIN all /\ all[k + a] = stubs[k]
  <2>1. a \in Nat
    BY <1>1
  <2> HIDE DEF a
  <2>2. /\ all \in Seq(Sections) /\ Len(all) = Len(observed) + Len(stubs)
        /\ IsJoined(all, observed, stubs)
    BY <1>1, <1>4, Joined
  <2> HIDE DEF all
  <2> QED
    BY <1>4, <2>1, <2>2 DEF a, IsJoined
<1> HIDE DEF all, a
<1>7. ASSUME NEW k \in DOMAIN all
      PROVE  \/ k \in DOMAIN observed /\ all[k] = observed[k]
             \/ /\ k - a \in DOMAIN missing /\ all[k].name = missing[k - a]
                /\ all[k].activity = 0
                /\ k \in Nat
  BY <1>4, <1>6
<1>8. ASSUME NEW x \in ToSet(subjects)
      PROVE  \E k \in DOMAIN all : all[k].name = x
  <2>1. CASE x \in ToSet(events)
    <3>1. PICK k \in DOMAIN observed : observed[k].name = x
      BY <1>1, <2>1
    <3> QED
      BY <1>4, <1>6, <3>1
  <2>2. CASE x \notin ToSet(events)
    <3>1. PICK i \in DOMAIN subjects : subjects[i] = x
      BY Elements
    <3>2. i \in M
      BY <2>2, <3>1 DEF Missing
    <3>3. PICK j \in DOMAIN missing : at[j] = i
      BY <1>3, <3>2 DEF Places
    <3>4. j + a \in DOMAIN all /\ all[j + a] = stubs[j]
      BY <1>4, <1>6, <3>3
    <3> QED
      BY <1>4, <1>5, <3>1, <3>3, <3>4
  <2> QED
    BY <2>1, <2>2
<1>9. ASSUME NEW k \in DOMAIN all
      PROVE  all[k].activity = Mentions(events, all[k].name)
  BY <1>1, <1>5, <1>7
<1>10. ASSUME NEW k \in DOMAIN all, NEW l \in DOMAIN all,
              k # l, all[k].name = all[l].name
       PROVE  /\ Mentions(events, all[k].name) = 0
              /\ Mentions(subjects, all[k].name) > 1
  <2>1. /\ k - a \in DOMAIN missing /\ all[k].name = missing[k - a]
        /\ l - a \in DOMAIN missing /\ all[l].name = missing[l - a]
        /\ k \in Nat /\ l \in Nat
    BY <1>1, <1>5, <1>7, <1>10
  <2>2. k - a # l - a
    BY <1>6, <1>10, <2>1
  <2>3. at[k - a] # at[l - a]
    BY <1>3, <2>1, <2>2 DEF Places
  <2> QED
    BY <1>5, <1>10, <2>1, <2>3, MentionedTwice
<1>11. Covers(all, subjects, events, TRUE)
  BY <1>6, <1>8, <1>9, <1>10 DEF Covers
<1>12. SerialSections(subjects, events) = ByActivity(all)
  BY DEF SerialSections, all, observed, stubs, missing
<1>13. Len(ByActivity(all)) = a + Len(missing)
  BY <1>6, ByActivitySorts
<1>14. Covers(ByActivity(all), subjects, events, TRUE)
  BY <1>11, SortedCovers
<1>15. a + Len(missing) <= Len(subjects)
  BY <1>1, <1>2, SubjectsFit DEF a
<1> QED
  BY <1>12, <1>13, <1>14, <1>15

\* Whatever the model writes about, each subject has a section.
LEMMA SinglePassCovers ==
  ASSUME NEW subjects \in Seq(STRING), NEW events \in Seq(STRING),
         NEW answer \in Seq(STRING)
  PROVE  LET sections == CompleteSections(answer, subjects, events)
         IN  Covers(sections, subjects, events, FALSE) /\ Sorted(sections)
<1> DEFINE L == {i \in Firsts(subjects) : subjects[i] \notin ToSet(answer)}
           left == Kept(subjects, L)
           named == answer \o left
           activity(x) ==
             IF x \in ToSet(subjects) THEN Mentions(events, x) ELSE 0
           raw == [i \in DOMAIN named |-> Section(named[i], activity(named[i]))]
<1>1. L \in SUBSET DOMAIN subjects
  BY DEF Firsts
<1>2. left \in Seq(STRING) /\ \E at : Places(at, left, subjects, L)
  <2> HIDE DEF L
  <2> QED
    BY <1>1, KeptElements
<1>3. PICK at : Places(at, left, subjects, L)
  BY <1>2
<1>4. \A x \in ToSet(subjects) \ ToSet(answer) : \E i \in L : subjects[i] = x
  BY FirstMention
<1> HIDE DEF left, L
<1>5. named \in Seq(STRING) /\ IsJoined(named, answer, left)
  BY <1>2, Joined
<1> HIDE DEF named
<1>6. ASSUME NEW x \in ToSet(subjects)
      PROVE  \E k \in DOMAIN named : named[k] = x
  <2>1. CASE x \in ToSet(answer)
    <3>1. PICK i \in DOMAIN answer : answer[i] = x
      BY <2>1, Elements
    <3> QED
      BY <1>5, <3>1 DEF IsJoined
  <2>2. CASE x \notin ToSet(answer)
    <3>1. PICK i \in L : subjects[i] = x
      BY <1>4, <2>2
    <3>2. PICK j \in DOMAIN left : left[j] = x
      BY <1>3, <3>1 DEF Places
    <3> QED
      BY <1>5, <3>2 DEF IsJoined
  <2> QED
    BY <2>1, <2>2
<1>7. \A x : activity(x) \in Nat
  BY MentionsType
<1> HIDE DEF activity
<1>8. raw \in Seq(Sections) /\ DOMAIN raw = DOMAIN named
  <2>1. DOMAIN named = 1..Len(named) /\ Len(named) \in Nat
    BY <1>5
  <2>2. ASSUME NEW i \in DOMAIN named
        PROVE  Section(named[i], activity(named[i])) \in Sections
    <3>1. named[i] \in STRING
      BY <1>5
    <3> QED
      BY <1>7, <3>1 DEF Section, Sections
  <2> QED
    BY <2>1, <2>2
<1>9. \A i \in DOMAIN raw :
        raw[i].name = named[i] /\ raw[i].activity = activity(named[i])
  BY <1>8 DEF Section
<1>10. CompleteSections(answer, subjects, events) = ByActivity(raw)
  BY DEF CompleteSections, raw, activity, named, left, L
<1> HIDE DEF raw
<1>11. \A x \in ToSet(subjects) : activity(x) = Mentions(events, x)
  BY DEF activity
<1>12. Covers(raw, subjects, events, FALSE)
  BY <1>6, <1>8, <1>9, <1>11 DEF Covers
<1> QED
  BY <1>10, <1>12, SortedCovers

-----------------------------------------------------------------------------
(***************************************************************************)
(* The callers                                                             *)
(* What a worker has spent and not saved is within the price of the calls  *)
(* it has made, which its question's rounds or its summary's sections count.*)
(***************************************************************************)

\* What n calls may cost.
Price(n) == Max(Costs) * n

LEMMA ProductGrows ==
  ASSUME NEW c \in Nat, NEW m \in Nat, NEW n \in Nat, m <= n
  PROVE  c * m <= c * n
<1>1. n - m \in Nat /\ c * n = c * m + c * (n - m)
  OBVIOUS
<1>2. c * (n - m) \in Nat /\ c * m \in Nat
  BY <1>1
<1> QED
  BY <1>1, <1>2

\* More calls cost more, and an allowance pays for one call, for a whole
\* question and for a whole summary.
LEMMA Prices ==
  /\ Max(Costs) \in Nat /\ \A c \in Costs : c \in Nat /\ c <= Max(Costs)
  /\ Price(0) = 0
  /\ \A n \in Nat : Price(n) \in Nat /\ Price(n + 1) = Price(n) + Max(Costs)
  /\ \A m, n \in Nat : m <= n => Price(m) <= Price(n)
  /\ Allowance \in Nat
  /\ Price(1) <= Allowance
  /\ Price(MAX_TOOL_ROUNDS + 1) <= Allowance
  /\ Price(2 * (MaxSubjects + 1)) <= Allowance
<1>1. Max(Costs) \in Costs /\ \A c \in Costs : c <= Max(Costs)
  BY BoundsAssumption, MaxIsGreatest
<1>2. Max(Costs) \in Nat /\ \A c \in Costs : c \in Nat
  BY <1>1, BoundsAssumption
<1> DEFINE C == Max(Costs)
           calls == {MAX_TOOL_ROUNDS + 1, 2 * (MaxSubjects + 1)}
<1>3. calls \in SUBSET Nat /\ calls # {} /\ IsFiniteSet(calls)
  <2>1. calls \in SUBSET Nat /\ calls # {}
    BY BoundsAssumption
  <2>2. calls = {MAX_TOOL_ROUNDS + 1} \cup {2 * (MaxSubjects + 1)}
    OBVIOUS
  <2> HIDE DEF calls
  <2> QED
    BY <2>1, <2>2, FS_Singleton, FS_Union
<1>4. Max(calls) \in Nat /\ \A n \in calls : n <= Max(calls)
  <2> HIDE DEF calls
  <2>1. calls \in SUBSET Int
    BY <1>3
  <2> QED
    BY <1>3, <2>1, MaxIsGreatest
<1>5. Allowance = C * Max(calls)
  BY DEF Allowance
<1> HIDE DEF C
<1>6. /\ MAX_TOOL_ROUNDS + 1 \in Nat /\ 2 * (MaxSubjects + 1) \in Nat
      /\ MAX_TOOL_ROUNDS + 1 <= Max(calls)
      /\ 2 * (MaxSubjects + 1) <= Max(calls)
      /\ 1 <= MAX_TOOL_ROUNDS + 1
  BY <1>4, BoundsAssumption
<1> HIDE DEF calls
<1>7. C \in Nat
  BY <1>2 DEF C
<1>8. \A m, n \in Nat : m <= n => C * m <= C * n
  BY <1>7, ProductGrows
<1>9. /\ C * 1 <= C * Max(calls) /\ C * (MAX_TOOL_ROUNDS + 1) <= C * Max(calls)
      /\ C * (2 * (MaxSubjects + 1)) <= C * Max(calls) /\ C * Max(calls) \in Nat
  BY <1>4, <1>6, <1>7, <1>8
<1>10. C * 0 = 0 /\ \A n \in Nat : C * n \in Nat /\ C * (n + 1) = C * n + C
  BY <1>7
<1> QED
  BY <1>1, <1>2, <1>5, <1>8, <1>9, <1>10 DEF Price, C

\* A summary in the making: the serial path has the sections of some
\* subjects written and those of the others to do.
InWork(draft) ==
  /\ Len(draft.home) <= MaxSubjects
  /\ draft.serial =>
       draft.sections \o draft.todo = SerialSections(draft.home, draft.events)
  /\ ~draft.serial => draft.sections = <<>>

\* A summary whose text is complete.
Finished(draft) ==
  /\ Covers(draft.sections, draft.home, draft.events, draft.serial)
  /\ Sorted(draft.sections)

\* An upper bound of the calls the drafted sections took: two for each, and
\* one more when the present one was asked for again.
Asked(draft) == 2 * Len(draft.sections) + (IF draft.retried THEN 1 ELSE 0)

\* Where a worker may be with what it does, with the usage it has not saved.
Accounted(stage, task, with, spent, rounds, draft) ==
  \/ /\ stage = "idle" /\ task = "none" /\ with = {}
     /\ spent = 0 /\ rounds = 0 /\ draft = NoText
  \/ /\ \E p \in Providers : with = {p}
     /\ \/ /\ task \in Questions /\ draft = NoText
           /\ stage \in {"check", "call"} /\ spent <= Price(rounds)
        \/ /\ task \in Questions /\ draft = NoText
           /\ stage = "done" /\ spent <= Price(rounds + 1)
        \/ /\ task = "recognition" /\ draft = NoText
           /\ stage \in {"check", "call"} /\ spent = 0
        \/ /\ task = "recognition" /\ draft = NoText
           /\ stage = "done" /\ spent <= Price(1)
        \/ /\ task = "summary" /\ InWork(draft)
           /\ stage = "call" /\ spent <= Price(Asked(draft))
        \/ /\ task = "summary" /\ Finished(draft)
           /\ stage = "done" /\ spent <= Price(2 * (MaxSubjects + 1))
        \/ /\ task = "appearance" /\ draft = NoText
           /\ stage = "call" /\ spent = 0

WorkersTyped ==
  /\ pc \in [Workers -> Stages]
  /\ job \in [Workers -> Jobs]
  /\ chosen \in [Workers -> SUBSET Providers]
  /\ unsaved \in [Workers -> Nat]
  /\ round \in [Workers -> 0..MAX_TOOL_ROUNDS]
  /\ text \in [Workers -> Texts]

AccountOf(w) ==
  Accounted(pc[w], job[w], chosen[w], unsaved[w], round[w], text[w])

\* The inductive invariant of the callers.
WorkersInv == WorkersTyped /\ \A w \in Workers : AccountOf(w)

\* No other worker moves.
OthersWait(w) ==
  \A v \in Workers : v # w =>
    /\ pc'[v] = pc[v] /\ job'[v] = job[v] /\ chosen'[v] = chosen[v]
    /\ unsaved'[v] = unsaved[v] /\ round'[v] = round[v] /\ text'[v] = text[v]

\* A step of one worker is judged by that worker alone.
LEMMA OneMoves ==
  ASSUME WorkersInv, NEW w \in Workers, WorkersTyped', OthersWait(w),
         AccountOf(w)'
  PROVE  WorkersInv'
<1>1. ASSUME NEW v \in Workers, v # w
      PROVE  AccountOf(v)'
  <2>1. AccountOf(v)
    BY DEF WorkersInv
  <2> QED
    BY <1>1, <2>1 DEF OthersWait, AccountOf
<1> QED
  BY <1>1 DEF WorkersInv

LEMMA NoTextTyped == NoText \in Texts
  BY DEF NoText, Texts

LEMMA AskedType ==
  ASSUME NEW draft \in Texts
  PROVE  Asked(draft) \in Nat
<1>1. draft.sections \in Seq(Sections) /\ draft.retried \in BOOLEAN
  BY DEF Texts
<1> DEFINE n == Len(draft.sections)
<1>2. n \in Nat
  BY <1>1
<1>3. Asked(draft) = 2 * n + 1 \/ Asked(draft) = 2 * n + 0
  BY DEF Asked
<1> HIDE DEF n
<1> QED
  BY <1>2, <1>3

LEMMA AllWait ==
  ASSUME WorkersInv, UNCHANGED workerVars
  PROVE  WorkersInv'
  BY DEF WorkersInv, WorkersTyped, AccountOf, workerVars, callVars

LEMMA ReleaseKeeps ==
  ASSUME WorkersInv, NEW w \in Workers, Release(w)
  PROVE  WorkersInv'
<1>1. WorkersTyped' /\ OthersWait(w)
  BY NoTextTyped, BoundsAssumption
  DEF WorkersInv, WorkersTyped, Release, OthersWait, Stages, Jobs
<1>2. AccountOf(w)'
  BY DEF WorkersInv, WorkersTyped, Release, AccountOf, Accounted
<1> QED
  BY <1>1, <1>2, OneMoves

LEMMA MidnightKeeps ==
  ASSUME WorkersInv, Midnight
  PROVE  WorkersInv'
<1>1. WorkersTyped'
  BY DEF WorkersInv, WorkersTyped, Midnight
<1>2. ASSUME NEW w \in Workers
      PROVE  AccountOf(w)'
  <2>1. /\ AccountOf(w) /\ unsaved'[w] = 0
        /\ UNCHANGED <<pc, job, chosen, round, text>>
    BY DEF WorkersInv, Midnight
  <2>2. /\ Price(round[w]) \in Nat /\ Price(round[w] + 1) \in Nat
        /\ Price(1) \in Nat
        /\ Price(2 * (MaxSubjects + 1)) \in Nat /\ Price(Asked(text[w])) \in Nat
    <3>1. round[w] \in Nat /\ text[w] \in Texts
      BY DEF WorkersInv, WorkersTyped
    <3>2. Asked(text[w]) \in Nat
      BY <3>1, AskedType
    <3>3. /\ round[w] + 1 \in Nat /\ 1 \in Nat
          /\ 2 * (MaxSubjects + 1) \in Nat
      BY <3>1, BoundsAssumption
    <3> QED
      BY <3>1, <3>2, <3>3, Prices
  <2> QED
    BY <2>1, <2>2 DEF AccountOf, Accounted
<1> QED
  BY <1>1, <1>2 DEF WorkersInv

\* A summary begins with nothing written and no call made.
LEMMA EvidenceInWork ==
  ASSUME home \in Seq(Entities), Len(home) <= MaxSubjects,
         NEW draft \in Evidence
  PROVE  draft \in Texts /\ InWork(draft) /\ Asked(draft) = 0
<1> DEFINE subjects == KnownSubjects(home)
<1>1. subjects \in Seq(STRING) /\ Len(subjects) <= MaxSubjects
  <2>1. subjects \in Seq(STRING) /\ Len(subjects) <= Len(home)
    BY KnownSubjectsFit
  <2>2. Len(subjects) \in Nat /\ Len(home) \in Nat /\ MaxSubjects \in Nat
    BY <2>1, BoundsAssumption
  <2> HIDE DEF subjects
  <2> QED
    BY <2>1, <2>2
<1>2. PICK events \in Days, serial \in BOOLEAN :
        draft = Draft(subjects, events, serial)
  BY DEF Evidence
<1> HIDE DEF subjects
<1>3. events \in Seq(STRING)
  BY HomeAssumption
<1>4. SerialSections(subjects, events) \in Seq(Sections)
  BY <1>1, <1>3, SerialCovers DEF Covers
<1>5. /\ draft = [home |-> subjects, events |-> events, serial |-> serial,
                  todo |-> IF serial THEN SerialSections(subjects, events)
                                     ELSE <<>>,
                  retried |-> FALSE, sections |-> <<>>]
  BY <1>2 DEF Draft, NoText
<1>6. draft \in Texts
  BY <1>1, <1>3, <1>4, <1>5 DEF Texts
<1>7. <<>> \o SerialSections(subjects, events)
        = SerialSections(subjects, events)
  BY <1>4, ConcatEmptySeq
<1>8. InWork(draft)
  BY <1>1, <1>5, <1>7 DEF InWork
<1>9. Asked(draft) = 0
  BY <1>5 DEF Asked
<1> QED
  BY <1>6, <1>8, <1>9

Idle(w) ==
  /\ pc[w] = "idle" /\ unsaved[w] = 0 /\ round[w] = 0 /\ text[w] = NoText

LEMMA IdleIs ==
  ASSUME WorkersInv, NEW w \in Workers, pc[w] = "idle"
  PROVE  Idle(w)
<1>1. AccountOf(w)
  BY DEF WorkersInv
<1> QED
  BY <1>1 DEF AccountOf, Accounted, Idle

LEMMA BeginKeeps ==
  ASSUME WorkersInv, home \in Seq(Entities), Len(home) <= MaxSubjects,
         NEW w \in Workers,
         \/ AskThroughPage(w) \/ AskThroughMCP(w) \/ StartRecognition(w)
         \/ StartSummary(w) \/ DescribeEntity(w)
  PROVE  WorkersInv'
<1>1. PICK what \in Jobs \ {"none"}, stage \in {"check", "call"}, role \in Roles,
           draft \in Texts :
        /\ Begin(w, what, role, stage)
        /\ text' = [text EXCEPT ![w] = draft]
        /\ \/ what \in Questions /\ stage = "check" /\ draft = NoText
           \/ what = "recognition" /\ stage = "check" /\ draft = NoText
           \/ what = "appearance" /\ stage = "call" /\ draft = NoText
           \/ what = "summary" /\ stage = "call" /\ InWork(draft)
              /\ Asked(draft) = 0
  <2>1. UNCHANGED text /\ pc[w] = "idle" => text' = [text EXCEPT ![w] = NoText]
    BY IdleIs DEF WorkersInv, WorkersTyped, Idle
  <2>2. CASE AskThroughPage(w)
    BY <2>1, <2>2, NoTextTyped DEF AskThroughPage, AskQuestion, Begin, Jobs,
       Questions, Roles
  <2>3. CASE AskThroughMCP(w)
    BY <2>1, <2>3, NoTextTyped DEF AskThroughMCP, AskQuestion, Begin, Jobs,
       Questions, Roles
  <2>4. CASE StartRecognition(w)
    BY <2>1, <2>4, NoTextTyped DEF StartRecognition, Begin, Jobs, Roles
  <2>5. CASE DescribeEntity(w)
    BY <2>1, <2>5, NoTextTyped DEF DescribeEntity, Begin, Jobs, Roles
  <2>6. CASE StartSummary(w)
    <3>1. PICK draft \in Evidence : text' = [text EXCEPT ![w] = draft]
      BY <2>6 DEF StartSummary
    <3>2. Begin(w, "summary", "qa", "call")
      BY <2>6 DEF StartSummary
    <3> QED
      BY <3>1, <3>2, EvidenceInWork DEF Jobs, Roles
  <2> QED
    BY <2>2, <2>3, <2>4, <2>5, <2>6
<1>2. PICK p \in Providers : chosen' = [chosen EXCEPT ![w] = {p}]
  BY <1>1 DEF Begin, Selectable, Usable, There
<1>3. /\ Idle(w)
      /\ pc' = [pc EXCEPT ![w] = stage] /\ job' = [job EXCEPT ![w] = what]
      /\ UNCHANGED <<unsaved, round>>
  BY <1>1, IdleIs DEF Begin, callVars
<1>4. WorkersTyped' /\ OthersWait(w)
  BY <1>1, <1>2, <1>3 DEF WorkersInv, WorkersTyped, OthersWait, Stages
<1>5. AccountOf(w)'
  <2>1. /\ pc'[w] = stage /\ job'[w] = what /\ chosen'[w] = {p}
        /\ unsaved'[w] = 0 /\ round'[w] = 0 /\ text'[w] = draft
    BY <1>1, <1>2, <1>3 DEF WorkersInv, WorkersTyped, Idle
  <2>2. 0 <= Price(0)
    BY Prices
  <2> QED
    BY <1>1, <2>1, <2>2 DEF AccountOf, Accounted
<1> QED
  BY <1>4, <1>5, OneMoves

LEMMA CheckKeeps ==
  ASSUME WorkersInv, NEW w \in Workers, CheckQuota(w)
  PROVE  WorkersInv'
<1>1. WorkersTyped' /\ OthersWait(w)
  BY DEF WorkersInv, WorkersTyped, CheckQuota, OthersWait, Stages, callVars
<1>2. AccountOf(w)'
  BY DEF WorkersInv, WorkersTyped, CheckQuota, AccountOf, Accounted, callVars
<1> QED
  BY <1>1, <1>2, OneMoves

\* A call adds to what the worker has not saved at most the price of one.
LEMMA Spends ==
  ASSUME WorkersInv, NEW w \in Workers, Answered(w), NEW n \in Nat,
         unsaved[w] <= Price(n)
  PROVE  /\ unsaved' \in [Workers -> Nat]
         /\ \A v \in Workers : v # w => unsaved'[v] = unsaved[v]
         /\ unsaved'[w] <= Price(n + 1)
<1>1. PICK usage \in Costs : unsaved' = [unsaved EXCEPT ![w] = @ + usage]
  BY DEF Answered
<1>2. usage \in Nat /\ usage <= Max(Costs) /\ Max(Costs) \in Nat
  BY Prices
<1>3. unsaved \in [Workers -> Nat]
  BY DEF WorkersInv, WorkersTyped
<1>4. Price(n) \in Nat /\ Price(n + 1) = Price(n) + Max(Costs)
  BY Prices
<1>5. unsaved'[w] = unsaved[w] + usage
  BY <1>1, <1>3
<1> QED
  BY <1>1, <1>2, <1>3, <1>4, <1>5

\* What is known of a worker that calls the model.
LEMMA InCall ==
  ASSUME WorkersInv, NEW w \in Workers, Answered(w)
  PROVE  /\ \E p \in Providers : chosen[w] = {p}
         /\ job[w] \in Questions => unsaved[w] <= Price(round[w])
                                    /\ text[w] = NoText
         /\ job[w] = "recognition" => unsaved[w] <= Price(0) /\ text[w] = NoText
         /\ job[w] = "summary" => unsaved[w] <= Price(Asked(text[w]))
                                  /\ InWork(text[w])
         /\ text[w] \in Texts /\ round[w] \in Nat
<1>1. AccountOf(w) /\ pc[w] = "call" /\ text[w] \in Texts /\ round[w] \in Nat
  BY DEF WorkersInv, WorkersTyped, Answered
<1>2. 0 <= Price(0)
  BY Prices
<1> QED
  BY <1>1, <1>2 DEF AccountOf, Accounted, Questions

LEMMA QuestionCallKeeps ==
  ASSUME WorkersInv, NEW w \in Workers, CallTools(w) \/ AnswerQuestion(w)
  PROVE  WorkersInv'
<1>1. Answered(w) /\ job[w] \in Questions
  BY DEF CallTools, AnswerQuestion
<1>2. /\ \E p \in Providers : chosen[w] = {p}
      /\ text[w] = NoText /\ round[w] \in Nat
      /\ unsaved' \in [Workers -> Nat]
      /\ \A v \in Workers : v # w => unsaved'[v] = unsaved[v]
      /\ unsaved'[w] <= Price(round[w] + 1)
  BY <1>1, InCall, Spends
<1>3. CASE CallTools(w)
  <2>1. round[w] + 1 \in 0..MAX_TOOL_ROUNDS
    BY <1>2, <1>3, BoundsAssumption DEF CallTools
  <2>2. WorkersTyped' /\ OthersWait(w)
    BY <1>2, <1>3, <2>1
    DEF CallTools, WorkersInv, WorkersTyped, OthersWait, Answered, Stages
  <2>3. AccountOf(w)'
    BY <1>1, <1>2, <1>3
    DEF CallTools, WorkersInv, WorkersTyped, Answered, AccountOf, Accounted
  <2> QED
    BY <2>2, <2>3, OneMoves
<1>4. CASE AnswerQuestion(w)
  <2>2. WorkersTyped' /\ OthersWait(w)
    BY <1>2, <1>4
    DEF AnswerQuestion, WorkersInv, WorkersTyped, OthersWait, Answered, Stages
  <2>3. AccountOf(w)'
    BY <1>1, <1>2, <1>4
    DEF AnswerQuestion, WorkersInv, WorkersTyped, Answered, AccountOf, Accounted
  <2> QED
    BY <2>2, <2>3, OneMoves
<1> QED
  BY <1>3, <1>4

LEMMA RecognitionKeeps ==
  ASSUME WorkersInv, NEW w \in Workers, RecognizeChunk(w) \/ RecordChunk(w)
  PROVE  WorkersInv'
<1>1. CASE RecognizeChunk(w)
  <2>1. Answered(w) /\ job[w] = "recognition"
    BY <1>1 DEF RecognizeChunk
  <2>2. /\ \E p \in Providers : chosen[w] = {p}
        /\ text[w] = NoText
        /\ unsaved' \in [Workers -> Nat]
        /\ \A v \in Workers : v # w => unsaved'[v] = unsaved[v]
        /\ unsaved'[w] <= Price(0 + 1)
    BY <2>1, InCall, Spends
  <2>3. WorkersTyped' /\ OthersWait(w)
    BY <1>1, <2>2
    DEF RecognizeChunk, WorkersInv, WorkersTyped, OthersWait, Answered, Stages
  <2>4. AccountOf(w)'
    BY <1>1, <2>1, <2>2
    DEF RecognizeChunk, WorkersInv, WorkersTyped, Answered, AccountOf, Accounted
  <2> QED
    BY <2>3, <2>4, OneMoves
<1>2. CASE RecordChunk(w)
  <2>1. CASE Release(w)
    BY <2>1, ReleaseKeeps
  <2>2. CASE ~Release(w)
    <3>1. /\ pc[w] = "done" /\ job[w] = "recognition"
          /\ pc' = [pc EXCEPT ![w] = "check"]
          /\ unsaved' = [unsaved EXCEPT ![w] = 0]
          /\ UNCHANGED <<job, chosen, round, text>>
      BY <1>2, <2>2 DEF RecordChunk
    <3>2. WorkersTyped' /\ OthersWait(w)
      BY <3>1 DEF WorkersInv, WorkersTyped, OthersWait, Stages
    <3>3. AccountOf(w)'
      BY <3>1 DEF WorkersInv, WorkersTyped, AccountOf, Accounted, Questions
    <3> QED
      BY <3>2, <3>3, OneMoves
  <2> QED
    BY <2>1, <2>2
<1> QED
  BY <1>1, <1>2

\* The next section moves from what is to do to what is written.
LEMMA NextSubject ==
  ASSUME NEW X, NEW s \in Seq(X), NEW t \in Seq(X), t # <<>>
  PROVE  /\ Head(t) \in X /\ Tail(t) \in Seq(X)
         /\ Append(s, Head(t)) \in Seq(X)
         /\ Len(Append(s, Head(t))) = Len(s) + 1
         /\ Append(s, Head(t)) \o Tail(t) = s \o t
<1>1. Head(t) \in X /\ Tail(t) \in Seq(X)
  OBVIOUS
<1>2. Append(s, Head(t)) = s \o <<Head(t)>>
  BY <1>1, AppendIsConcat
<1>3. <<Head(t)>> \in Seq(X) /\ <<Head(t)>> \o Tail(t) = t
  BY <1>1
<1>4. (s \o <<Head(t)>>) \o Tail(t) = s \o (<<Head(t)>> \o Tail(t))
  BY <1>1, <1>3, ConcatAssociative
<1> QED
  BY <1>1, <1>2, <1>3, <1>4

\* What a call of a summary leaves.
LEMMA SummaryCallKeeps ==
  ASSUME WorkersInv, NEW w \in Workers, CallForSummary(w),
         NEW draft \in Texts, NEW stage \in {"call", "done"},
         text' = [text EXCEPT ![w] = draft], pc' = [pc EXCEPT ![w] = stage],
         UNCHANGED round,
         stage = "call" => InWork(draft) /\ Asked(text[w]) + 1 <= Asked(draft),
         stage = "done" => /\ Finished(draft)
                           /\ Asked(text[w]) + 1 <= 2 * (MaxSubjects + 1)
  PROVE  WorkersInv'
<1> DEFINE n == Asked(text[w])
<1>1. Answered(w) /\ job[w] = "summary"
  BY DEF CallForSummary
<1>2. /\ \E p \in Providers : chosen[w] = {p}
      /\ unsaved[w] <= Price(n) /\ text[w] \in Texts
  BY <1>1, InCall
<1>3. n \in Nat /\ Asked(draft) \in Nat /\ 2 * (MaxSubjects + 1) \in Nat
  BY <1>2, AskedType, BoundsAssumption
<1>4. /\ unsaved' \in [Workers -> Nat]
      /\ \A v \in Workers : v # w => unsaved'[v] = unsaved[v]
      /\ unsaved'[w] <= Price(n + 1)
  BY <1>1, <1>2, <1>3, Spends
<1>5. /\ stage = "call" => unsaved'[w] <= Price(Asked(draft))
      /\ stage = "done" => unsaved'[w] <= Price(2 * (MaxSubjects + 1))
  <2>1. n + 1 \in Nat /\ unsaved'[w] \in Nat
    BY <1>3, <1>4
  <2>2. Price(n + 1) \in Nat
    BY <2>1, Prices
  <2>3. stage = "call" => Price(n + 1) <= Price(Asked(draft))
    BY <1>3, <2>1, Prices
  <2>4. stage = "done" => Price(n + 1) <= Price(2 * (MaxSubjects + 1))
    BY <1>3, <2>1, Prices
  <2>5. Price(Asked(draft)) \in Nat /\ Price(2 * (MaxSubjects + 1)) \in Nat
    BY <1>3, Prices
  <2> QED
    BY <1>4, <2>1, <2>2, <2>3, <2>4, <2>5
<1>6. WorkersTyped' /\ OthersWait(w)
  BY <1>1, <1>4
  DEF WorkersInv, WorkersTyped, OthersWait, Answered, Stages
<1>7. /\ pc'[w] = stage /\ job'[w] = "summary" /\ text'[w] = draft
      /\ chosen'[w] = chosen[w]
  BY <1>1 DEF WorkersInv, WorkersTyped, Answered
<1>8. AccountOf(w)'
  BY <1>2, <1>5, <1>7 DEF AccountOf, Accounted
<1> QED
  BY <1>6, <1>8, OneMoves

LEMMA SummaryKeeps ==
  ASSUME WorkersInv, NEW w \in Workers,
         WriteSinglePass(w) \/ WriteSubject(w) \/ WriteRollup(w) \/ AskAgain(w)
  PROVE  WorkersInv'
<1> DEFINE old == text[w]
           n == Len(old.sections)
<1>1. CallForSummary(w) /\ Answered(w)
  BY DEF WriteSinglePass, WriteSubject, WriteRollup, AskAgain, CallForSummary
<1>2. /\ old \in Texts /\ InWork(old)
      /\ pc[w] = "call" /\ text \in [Workers -> Texts]
      /\ pc \in [Workers -> Stages]
  BY <1>1, InCall DEF CallForSummary, Answered, WorkersInv, WorkersTyped
<1>3. /\ old.sections \in Seq(Sections) /\ old.todo \in Seq(Sections)
      /\ old.home \in Seq(STRING) /\ old.events \in Seq(STRING)
      /\ old.serial \in BOOLEAN /\ old.retried \in BOOLEAN
  BY <1>2 DEF Texts
<1>4. n \in Nat /\ MaxSubjects \in Nat
  BY <1>3, BoundsAssumption
<1>5. /\ Asked(old) = IF old.retried THEN 2 * n + 1 ELSE 2 * n
      /\ Asked(old) \in Nat /\ Asked(old) <= 2 * n + 1
  <2>1. Asked(old) = 2 * n + (IF old.retried THEN 1 ELSE 0)
    BY DEF Asked
  <2> HIDE DEF n
  <2> QED
    BY <1>3, <1>4, <2>1
<1>6. CASE WriteSinglePass(w)
  <2>1. PICK answer \in Answers \cup {<<>>} :
          text' = [text EXCEPT ![w].sections =
                     CompleteSections(answer, old.home, old.events)]
    BY <1>6 DEF WriteSinglePass
  <2> DEFINE sections == CompleteSections(answer, old.home, old.events)
             draft == [old EXCEPT !.sections = sections]
  <2>2. answer \in Seq(STRING)
    <3>1. <<>> \in Seq(STRING)
      OBVIOUS
    <3> QED
      BY <3>1, HomeAssumption
  <2>3. Covers(sections, old.home, old.events, FALSE) /\ Sorted(sections)
    BY <1>3, <2>2, SinglePassCovers
  <2> HIDE DEF sections
  <2>4. sections \in Seq(Sections)
    BY <2>3 DEF Covers
  <2>5. draft \in Texts /\ text' = [text EXCEPT ![w] = draft]
    BY <1>2, <2>1, <2>4 DEF Texts, sections
  <2>6. /\ ~old.serial /\ pc' = [pc EXCEPT ![w] = "done"] /\ UNCHANGED round
    BY <1>6 DEF WriteSinglePass
  <2>7. Finished(draft)
    BY <1>2, <2>3, <2>6 DEF Finished, Texts, Covers
  <2>8. Asked(old) + 1 <= 2 * (MaxSubjects + 1)
    <3>1. n = 0
      BY <1>2, <2>6 DEF InWork
    <3> QED
      BY <1>4, <1>5, <3>1
  <2> HIDE DEF draft
  <2> QED
    BY <1>1, <2>5, <2>6, <2>7, <2>8, SummaryCallKeeps
<1>7. CASE WriteSubject(w)
  <2> DEFINE sections == Append(old.sections, Head(old.todo))
             todo == Tail(old.todo)
             draft == [old EXCEPT !.sections = sections, !.todo = todo,
                                  !.retried = FALSE]
  <2>1. old.serial /\ old.todo # <<>> /\ UNCHANGED <<pc, round>>
    BY <1>7 DEF WriteSubject
  <2>2. /\ sections \in Seq(Sections) /\ todo \in Seq(Sections)
        /\ Len(sections) = n + 1
        /\ sections \o todo = old.sections \o old.todo
    <3>1. PICK s \in Seq(Sections), t \in Seq(Sections) :
            s = old.sections /\ t = old.todo
      BY <1>3
    <3>2. t # <<>>
      BY <2>1, <3>1
    <3>3. /\ Append(s, Head(t)) \in Seq(Sections) /\ Tail(t) \in Seq(Sections)
          /\ Len(Append(s, Head(t))) = Len(s) + 1
          /\ Append(s, Head(t)) \o Tail(t) = s \o t
      BY <3>2, NextSubject
    <3>4. sections = Append(s, Head(t)) /\ todo = Tail(t) /\ n = Len(s)
      BY <3>1
    <3> HIDE DEF sections, todo, n
    <3> QED
      BY <3>1, <3>3, <3>4
  <2>3. text' = [text EXCEPT ![w] = draft]
    BY <1>2, <1>7 DEF WriteSubject, Texts
  <2> HIDE DEF sections, todo
  <2>4. draft \in Texts
    BY <1>2, <2>2 DEF Texts
  <2>5. /\ draft.sections = sections /\ draft.todo = todo
        /\ draft.home = old.home /\ draft.events = old.events
        /\ draft.serial = old.serial /\ draft.retried = FALSE
    BY <1>2 DEF Texts
  <2> HIDE DEF draft
  <2>6. InWork(draft)
    BY <1>2, <2>1, <2>2, <2>5 DEF InWork
  <2>7. Asked(draft) = 2 * (n + 1)
    <3>1. Asked(draft) = 2 * Len(sections) + 0
      BY <2>5 DEF Asked
    <3> HIDE DEF n
    <3> QED
      BY <1>4, <2>2, <3>1
  <2>8. Asked(old) + 1 <= Asked(draft)
    BY <1>4, <1>5, <2>7
  <2>9. pc' = [pc EXCEPT ![w] = "call"]
    BY <1>2, <2>1
  <2> QED
    BY <1>1, <2>1, <2>3, <2>4, <2>6, <2>8, <2>9, SummaryCallKeeps
<1>8. CASE WriteRollup(w)
  <2> DEFINE sections == ByActivity(old.sections)
             draft == [old EXCEPT !.sections = sections]
  <2>1. /\ old.serial /\ old.todo = <<>> /\ UNCHANGED round
        /\ pc' = [pc EXCEPT ![w] = "done"]
        /\ text' = [text EXCEPT ![w].sections = ByActivity(@)]
    BY <1>8 DEF WriteRollup
  <2>2. old.sections = SerialSections(old.home, old.events)
    <3>1. old.sections \o old.todo = old.sections
      BY <1>3, <2>1, ConcatEmptySeq
    <3> QED
      BY <1>2, <2>1, <3>1 DEF InWork
  <2>3. Covers(old.sections, old.home, old.events, TRUE) /\ n <= Len(old.home)
    BY <1>3, <2>2, SerialCovers
  <2>4. Covers(sections, old.home, old.events, TRUE) /\ Sorted(sections)
    BY <2>3, SortedCovers
  <2>5. sections \in Seq(Sections)
    BY <2>4 DEF Covers
  <2>6. text' = [text EXCEPT ![w] = draft]
    BY <1>2, <2>1 DEF Texts
  <2> HIDE DEF sections
  <2>7. draft \in Texts
    BY <1>2, <2>5 DEF Texts
  <2>8. /\ draft.sections = sections /\ draft.home = old.home
        /\ draft.events = old.events /\ draft.serial = TRUE
    BY <1>2, <2>1, <1>3 DEF Texts
  <2> HIDE DEF draft
  <2>9. Finished(draft)
    BY <2>4, <2>8 DEF Finished
  <2>10. Asked(old) + 1 <= 2 * (MaxSubjects + 1)
    <3>1. Len(old.home) \in Nat /\ Len(old.home) <= MaxSubjects
      BY <1>2, <1>3 DEF InWork
    <3> QED
      BY <1>4, <1>5, <2>3, <3>1
  <2> QED
    BY <1>1, <2>1, <2>6, <2>7, <2>9, <2>10, SummaryCallKeeps
<1>9. CASE AskAgain(w)
  <2> DEFINE draft == [old EXCEPT !.retried = TRUE]
  <2>1. ~old.retried /\ UNCHANGED <<pc, round>>
    BY <1>9 DEF AskAgain
  <2>2. text' = [text EXCEPT ![w] = draft]
    BY <1>2, <1>9 DEF AskAgain, Texts
  <2>3. draft \in Texts
    BY <1>2 DEF Texts
  <2>4. /\ draft.sections = old.sections /\ draft.todo = old.todo
        /\ draft.home = old.home /\ draft.events = old.events
        /\ draft.serial = old.serial /\ draft.retried = TRUE
    BY <1>2 DEF Texts
  <2> HIDE DEF draft
  <2>5. InWork(draft)
    BY <1>2, <2>4 DEF InWork
  <2>6. Asked(old) + 1 <= Asked(draft)
    <3>1. Asked(draft) = 2 * n + 1
      BY <2>4 DEF Asked
    <3>2. Asked(old) = 2 * n
      BY <1>5, <2>1
    <3> HIDE DEF n
    <3> QED
      BY <1>4, <3>1, <3>2
  <2>7. pc' = [pc EXCEPT ![w] = "call"]
    BY <1>2, <2>1
  <2> QED
    BY <1>1, <2>1, <2>2, <2>3, <2>5, <2>6, <2>7, SummaryCallKeeps
<1> QED
  BY <1>6, <1>7, <1>8, <1>9

\* A text in the making was asked for fewer calls than an allowance pays.
LEMMA SectionsFit ==
  ASSUME NEW draft \in Texts, InWork(draft)
  PROVE  Asked(draft) + 1 <= 2 * (MaxSubjects + 1)
<1> DEFINE n == Len(draft.sections)
<1>1. /\ draft.sections \in Seq(Sections) /\ draft.todo \in Seq(Sections)
      /\ draft.home \in Seq(STRING) /\ draft.events \in Seq(STRING)
      /\ draft.serial \in BOOLEAN /\ draft.retried \in BOOLEAN
  BY DEF Texts
<1>2. n \in Nat /\ MaxSubjects \in Nat /\ Len(draft.home) \in Nat
  BY <1>1, BoundsAssumption
<1>3. n <= MaxSubjects
  <2>1. CASE draft.serial
    <3>1. Len(draft.sections \o draft.todo) <= Len(draft.home)
      BY <1>1, <2>1, SerialCovers DEF InWork
    <3>2. /\ Len(draft.sections \o draft.todo) = n + Len(draft.todo)
          /\ Len(draft.todo) \in Nat
      BY <1>1, ConcatProperties
    <3>3. Len(draft.home) <= MaxSubjects
      BY DEF InWork
    <3> HIDE DEF n
    <3> QED
      BY <1>2, <3>1, <3>2, <3>3
  <2>2. CASE ~draft.serial
    BY <1>2, <2>2 DEF InWork
  <2> QED
    BY <2>1, <2>2
<1>4. Asked(draft) = 2 * n + 1 \/ Asked(draft) = 2 * n + 0
  BY DEF Asked
<1> HIDE DEF n
<1> QED
  BY <1>2, <1>3, <1>4

\* What a worker records is within what one passed check is worth, the call
\* that fails included.
LEMMA Affordable ==
  ASSUME WorkersInv, NEW w \in Workers
  PROVE  /\ unsaved[w] \in Nat /\ unsaved[w] <= Allowance
         /\ pc[w] = "call" /\ job[w] = "summary" =>
              \A usage \in Costs \cup {0} :
                unsaved[w] + usage \in Nat /\ unsaved[w] + usage <= Allowance
<1> DEFINE n == Asked(text[w])
           most == 2 * (MaxSubjects + 1)
<1>1. /\ AccountOf(w) /\ unsaved[w] \in Nat /\ text[w] \in Texts
      /\ round[w] \in Nat /\ round[w] + 1 \in Nat
      /\ round[w] <= MAX_TOOL_ROUNDS + 1 /\ round[w] + 1 <= MAX_TOOL_ROUNDS + 1
  BY BoundsAssumption DEF WorkersInv, WorkersTyped
<1>2. /\ Allowance \in Nat /\ Price(1) <= Allowance /\ Price(1) \in Nat
      /\ Price(most) <= Allowance /\ Price(most) \in Nat
      /\ Price(MAX_TOOL_ROUNDS + 1) <= Allowance
      /\ Price(MAX_TOOL_ROUNDS + 1) \in Nat
  <2>1. 1 \in Nat /\ most \in Nat /\ MAX_TOOL_ROUNDS + 1 \in Nat
    BY BoundsAssumption
  <2> QED
    BY <2>1, Prices
<1>3. /\ Price(round[w]) <= Price(MAX_TOOL_ROUNDS + 1)
      /\ Price(round[w] + 1) <= Price(MAX_TOOL_ROUNDS + 1)
      /\ Price(round[w]) \in Nat /\ Price(round[w] + 1) \in Nat
  <2>1. MAX_TOOL_ROUNDS + 1 \in Nat
    BY BoundsAssumption
  <2> QED
    BY <1>1, <2>1, Prices
<1>4. ASSUME InWork(text[w]), unsaved[w] <= Price(n), NEW usage \in Costs \cup {0}
      PROVE  unsaved[w] + usage \in Nat /\ unsaved[w] + usage <= Allowance
  <2>1. n \in Nat /\ n + 1 \in Nat /\ n + 1 <= most /\ most \in Nat
    BY <1>1, <1>4, AskedType, SectionsFit, BoundsAssumption
  <2> HIDE DEF n, most
  <2>2. /\ usage \in Nat /\ usage <= Max(Costs) /\ Max(Costs) \in Nat
        /\ Price(n) \in Nat /\ Price(n + 1) = Price(n) + Max(Costs)
        /\ Price(n + 1) <= Price(most)
    <3>1. Max(Costs) \in Nat /\ \A c \in Costs : c \in Nat /\ c <= Max(Costs)
      BY Prices
    <3>2. usage \in Nat /\ usage <= Max(Costs)
      BY <3>1
    <3>3. Price(n) \in Nat /\ Price(n + 1) = Price(n) + Max(Costs)
      BY <2>1, Prices
    <3>4. Price(n + 1) <= Price(most)
      BY <2>1, Prices
    <3> QED
      BY <3>1, <3>2, <3>3, <3>4
  <2> QED
    BY <1>1, <1>2, <1>4, <2>2
<1> HIDE DEF most
<1>5. ASSUME InWork(text[w]), unsaved[w] <= Price(n)
      PROVE  unsaved[w] <= Allowance
  <2>1. unsaved[w] + 0 <= Allowance
    BY <1>4, <1>5
  <2> QED
    BY <1>1, <2>1
<1>6. ASSUME \/ unsaved[w] = 0 \/ unsaved[w] <= Price(1)
             \/ unsaved[w] <= Price(most) \/ unsaved[w] <= Price(round[w])
             \/ unsaved[w] <= Price(round[w] + 1)
      PROVE  unsaved[w] <= Allowance
  <2> HIDE DEF n
  <2> QED
    BY <1>1, <1>2, <1>3, <1>6
<1>7. \/ InWork(text[w]) /\ unsaved[w] <= Price(n)
      \/ unsaved[w] = 0 \/ unsaved[w] <= Price(1)
      \/ unsaved[w] <= Price(most) \/ unsaved[w] <= Price(round[w])
      \/ unsaved[w] <= Price(round[w] + 1)
  BY <1>1 DEF AccountOf, Accounted, most
<1>8. pc[w] = "call" /\ job[w] = "summary" =>
        InWork(text[w]) /\ unsaved[w] <= Price(n)
  BY <1>1 DEF AccountOf, Accounted, Questions
<1>9. unsaved[w] <= Allowance
  BY <1>5, <1>6, <1>7
<1> QED
  BY <1>1, <1>4, <1>8, <1>9

\* The types of what is not a worker's.
RestTyped ==
  /\ row \in [Providers -> {"absent", "there", "deleted"}]
  /\ home \in Seq(Entities) /\ Len(home) <= MaxSubjects
  /\ used \in [Providers -> Nat] /\ orphaned \in Nat
  /\ begun \in 0..MaxBegun /\ edits \in 0..MaxEdits /\ days \in 0..MaxDays

LEMMA SaveTyped ==
  ASSUME RestTyped, WorkersInv, NEW w \in Workers, NEW units \in Nat,
         Save(w, units)
  PROVE  used' \in [Providers -> Nat]
<1>1. CASE UNCHANGED used
  BY <1>1 DEF RestTyped
<1>2. ASSUME NEW p \in chosen[w], used' = [used EXCEPT ![p] = @ + units]
      PROVE  used' \in [Providers -> Nat]
  <2>1. p \in Providers
    BY DEF WorkersInv, WorkersTyped
  <2>2. used[p] + units \in Nat
    BY <2>1 DEF RestTyped
  <2> QED
    BY <1>2, <2>2 DEF RestTyped
<1> QED
  BY <1>1, <1>2 DEF Save

LEMMA AdministerTyped ==
  ASSUME RestTyped, NEW p \in Providers, Administer(p)
  PROVE  RestTyped' /\ UNCHANGED workerVars
<1>1. Edit
  BY DEF Administer, CreateProvider, UpdateProvider, DeleteProvider,
         SetDefaultProvider, TestProvider
<1>2. edits' \in 0..MaxEdits /\ UNCHANGED <<home, workerVars, begun, days>>
  BY <1>1, BoundsAssumption DEF Edit, RestTyped
<1>3. row' \in [Providers -> {"absent", "there", "deleted"}]
  BY DEF Administer, CreateProvider, UpdateProvider, DeleteProvider,
         SetDefaultProvider, TestProvider, RestTyped
<1>4. used' \in [Providers -> Nat] /\ orphaned' \in Nat
  <2>1. UNCHANGED <<used, orphaned>> \/ OrphanUsage(p)
    BY DEF Administer, CreateProvider, UpdateProvider, DeleteProvider,
           SetDefaultProvider, TestProvider
  <2> QED
    BY <2>1 DEF RestTyped, OrphanUsage
<1> QED
  BY <1>2, <1>3, <1>4 DEF RestTyped

LEMMA ChangedEntity ==
  ASSUME NEW entity \in Entities, NEW change \in EntityChanges
  PROVE  Changed(entity, change) \in Entities
<1> DEFINE result == Changed(entity, change)
<1>1. DOMAIN entity = {"kind", "name", "enabled"}
  BY DEF Entities
<1>2. /\ entity.kind \in Kinds /\ entity.name \in STRING
      /\ entity.enabled \in BOOLEAN
  BY DEF Entities
<1>3. /\ "kind" \notin DOMAIN change
      /\ "name" \in DOMAIN change => change["name"] \in STRING
      /\ "enabled" \in DOMAIN change => change["enabled"] \in BOOLEAN
  BY HomeAssumption
<1>4. /\ result.kind \in Kinds /\ result.name \in STRING
      /\ result.enabled \in BOOLEAN
  BY <1>1, <1>2, <1>3 DEF Changed
<1>5. result = [kind |-> result.kind, name |-> result.name,
                enabled |-> result.enabled]
  BY <1>1 DEF Changed
<1> HIDE DEF result
<1>6. result \in Entities
  BY <1>4, <1>5 DEF Entities
<1> QED
  BY <1>6 DEF result

LEMMA HomeTyped ==
  ASSUME RestTyped, AdministerHome
  PROVE  RestTyped' /\ UNCHANGED workerVars
<1>1. EditHome
  BY DEF AdministerHome, CreateMember, CreatePet, AddEntity, UpdateEntity,
         DisableEntity
<1>2. /\ edits' \in 0..MaxEdits
      /\ UNCHANGED <<row, used, orphaned, days, workerVars, begun>>
  BY <1>1, BoundsAssumption DEF EditHome, RestTyped, usageVars
<1>3. Len(home) \in Nat /\ MaxSubjects \in Nat
  BY BoundsAssumption DEF RestTyped
<1>4. ASSUME NEW kind \in Kinds, AddEntity(kind)
      PROVE  home' \in Seq(Entities) /\ Len(home') <= MaxSubjects
  <2>1. PICK name \in EntityNames, enabled \in BOOLEAN :
          home' = Append(home, [kind |-> kind, name |-> name,
                                enabled |-> enabled])
    BY <1>4 DEF AddEntity
  <2>2. [kind |-> kind, name |-> name, enabled |-> enabled] \in Entities
    BY HomeAssumption DEF Entities
  <2>3. Len(home') = Len(home) + 1 /\ home' \in Seq(Entities)
    BY <2>1, <2>2 DEF RestTyped
  <2> QED
    BY <1>3, <1>4, <2>3 DEF AddEntity
<1>5. ASSUME NEW i \in DOMAIN home, NEW entity \in Entities,
             home' = [home EXCEPT ![i] = entity]
      PROVE  home' \in Seq(Entities) /\ Len(home') <= MaxSubjects
  BY <1>5 DEF RestTyped
<1>6. CASE UpdateEntity
  <2>1. PICK i \in DOMAIN home, change \in EntityChanges :
          home' = [home EXCEPT ![i] = Changed(home[i], change)]
    BY <1>6 DEF UpdateEntity
  <2>2. home[i] \in Entities
    BY <2>1 DEF RestTyped
  <2>3. Changed(home[i], change) \in Entities
    BY <2>2, ChangedEntity
  <2> QED
    BY <1>2, <1>5, <2>1, <2>3 DEF RestTyped
<1>7. CASE DisableEntity
  <2>1. PICK i \in DOMAIN home : home' = [home EXCEPT ![i].enabled = FALSE]
    BY <1>7 DEF DisableEntity
  <2> DEFINE entity == [home[i] EXCEPT !.enabled = FALSE]
  <2>2. home[i] \in Entities
    BY <2>1 DEF RestTyped
  <2>3. entity \in Entities /\ home' = [home EXCEPT ![i] = entity]
    BY <2>1, <2>2 DEF Entities
  <2> HIDE DEF entity
  <2> QED
    BY <1>2, <1>5, <2>3 DEF RestTyped
<1> QED
  BY <1>2, <1>4, <1>6, <1>7
  DEF AdministerHome, CreateMember, CreatePet, Kinds, RestTyped

LEMMA MidnightTyped ==
  ASSUME RestTyped, Midnight
  PROVE  RestTyped'
  BY BoundsAssumption DEF RestTyped, Midnight, tableVars

LEMMA WorkTyped ==
  ASSUME RestTyped, WorkersInv, NEW w \in Workers, Work(w)
  PROVE  RestTyped'
<1>1. UNCHANGED <<row, home, edits, orphaned, days>>
  BY DEF Work, AskThroughPage, AskThroughMCP, AskQuestion, StartRecognition,
      StartSummary, CheckQuota, Refused, CallTools, AnswerQuestion,
      FinishQuestion, FailQuestion, RecognizeChunk, RecordChunk,
      WriteSinglePass, WriteSubject, WriteRollup, AskAgain, FailSummary,
      PublishSummary, DescribeEntity, Described, RollBack, Begin, Release,
      Answered, CallForSummary, tableVars, usageVars
<1>2. begun' = begun \/ (begun < MaxBegun /\ begun' = begun + 1)
  BY DEF Work, AskThroughPage, AskThroughMCP, AskQuestion, StartRecognition,
      StartSummary, CheckQuota, Refused, CallTools, AnswerQuestion,
      FinishQuestion, FailQuestion, RecognizeChunk, RecordChunk,
      WriteSinglePass, WriteSubject, WriteRollup, AskAgain, FailSummary,
      PublishSummary, DescribeEntity, Described, RollBack, Begin, Release,
      Answered, CallForSummary
<1>3. UNCHANGED used \/ \E units \in Nat : Save(w, units)
  <2>1. unsaved[w] \in Nat
    BY Affordable
  <2>2. CASE FailSummary(w)
    BY <2>2, Affordable DEF FailSummary
  <2>3. CASE Refused(w) \/ FailQuestion(w)
    BY <2>1, <2>3 DEF Refused, FailQuestion, LeaveQuestion
  <2>4. CASE FinishQuestion(w) \/ RecordChunk(w) \/ PublishSummary(w)
    BY <2>1, <2>4 DEF FinishQuestion, RecordChunk, PublishSummary
  <2>5. CASE Described(w) \/ RollBack(w)
    BY <2>5 DEF Described, RollBack
  <2>6. CASE \/ AskThroughPage(w) \/ AskThroughMCP(w)
             \/ StartRecognition(w) \/ StartSummary(w) \/ CheckQuota(w)
             \/ CallTools(w) \/ AnswerQuestion(w) \/ RecognizeChunk(w)
             \/ WriteSinglePass(w) \/ WriteSubject(w) \/ WriteRollup(w)
             \/ AskAgain(w) \/ DescribeEntity(w)
    BY <2>6 DEF AskThroughPage, AskThroughMCP, AskQuestion, StartRecognition,
      StartSummary, CheckQuota, CallTools, AnswerQuestion, RecognizeChunk,
      WriteSinglePass, WriteSubject, WriteRollup, AskAgain, DescribeEntity,
      Begin, Answered, CallForSummary, usageVars
  <2> QED
    BY <2>2, <2>3, <2>4, <2>5, <2>6 DEF Work
<1>4. used' \in [Providers -> Nat]
  BY <1>3, SaveTyped DEF RestTyped
<1> QED
  BY <1>1, <1>2, <1>4, BoundsAssumption DEF RestTyped

LEMMA WorkKeeps ==
  ASSUME RestTyped, WorkersInv, NEW w \in Workers, Work(w)
  PROVE  WorkersInv'
<1>1. CASE \/ AskThroughPage(w) \/ AskThroughMCP(w) \/ StartRecognition(w)
           \/ StartSummary(w) \/ DescribeEntity(w)
  BY <1>1, BeginKeeps DEF RestTyped
<1>2. CASE CheckQuota(w)
  BY <1>2, CheckKeeps
<1>3. CASE \/ Refused(w) \/ FinishQuestion(w) \/ FailQuestion(w)
           \/ FailSummary(w) \/ PublishSummary(w) \/ Described(w) \/ RollBack(w)
  BY <1>3, ReleaseKeeps
  DEF Refused, FinishQuestion, FailQuestion, FailSummary, PublishSummary,
      Described, RollBack
<1>4. CASE CallTools(w) \/ AnswerQuestion(w)
  BY <1>4, QuestionCallKeeps
<1>5. CASE RecognizeChunk(w) \/ RecordChunk(w)
  BY <1>5, RecognitionKeeps
<1>6. CASE \/ WriteSinglePass(w) \/ WriteSubject(w) \/ WriteRollup(w)
           \/ AskAgain(w)
  BY <1>6, SummaryKeeps
<1> QED
  BY <1>1, <1>2, <1>3, <1>4, <1>5, <1>6 DEF Work

\* What the quotas are compared with is typed; the quotas that apply have
\* been in force today.
Recorded ==
  /\ quota \in [all: Nat, each: Nat]
  /\ own \in [Providers -> Nat \cup {NoKey}]
  /\ loaded \in [Workers -> Nat \cup {NoKey}]
  /\ inForce \in [all: SUBSET Nat, of: [Providers -> SUBSET Nat]]
  /\ quota["all"] \in inForce["all"]
  /\ \A p \in Providers : Applying(p) \subseteq inForce["of"][p]

LEMMA QuotasApplying ==
  ASSUME quota \in [all: Nat, each: Nat],
         own \in [Providers -> Nat \cup {NoKey}],
         loaded \in [Workers -> Nat \cup {NoKey}]
  PROVE  \A p \in Providers : Applying(p) \in SUBSET Nat
<1>1. \A key \in Nat \cup {NoKey} : DailyQuota(key) \in Nat
  BY DEF DailyQuota, NoKey
<1> QED
  BY <1>1 DEF Applying

QuotasTyped ==
  /\ quota \in [all: Nat, each: Nat]
  /\ own \in [Providers -> Nat \cup {NoKey}]
  /\ loaded \in [Workers -> Nat \cup {NoKey}]
ApplyingTyped == \A p \in Providers : Applying(p) \in SUBSET Nat

LEMMA QuotasTypedApply == QuotasTyped => ApplyingTyped
  BY QuotasApplying DEF QuotasTyped, ApplyingTyped

LEMMA QuotasTypedApplyNext == QuotasTyped' => ApplyingTyped'
  BY QuotasTypedApply, PTL

\* A change of quotas puts the new ones in force.
LEMMA PutKeeps ==
  ASSUME Recorded, QuotasTyped', PutInForce
  PROVE  Recorded'
<1>1. ApplyingTyped'
  BY QuotasTypedApplyNext
<1>2. /\ inForce'["all"] = inForce["all"] \cup {quota'["all"]}
      /\ \A p \in Providers :
           inForce'["of"][p] = inForce["of"][p] \cup Applying(p)'
  BY DEF PutInForce
<1>3. inForce' \in [all: SUBSET Nat, of: [Providers -> SUBSET Nat]]
  BY <1>1 DEF PutInForce, Recorded, QuotasTyped, ApplyingTyped
<1> QED
  BY <1>2, <1>3 DEF Recorded, QuotasTyped

\* Without one, a worker compares with the quota of the row it loads or
\* goes on with the one it has loaded.
LEMMA LoadKeeps ==
  ASSUME Recorded, UNCHANGED quotaVars,
         loaded' \in [Workers -> Nat \cup {NoKey}],
         \A v \in Workers : \A p \in chosen'[v] :
           \/ p \in chosen[v] /\ loaded'[v] = loaded[v]
           \/ loaded'[v] = own[p]
  PROVE  Recorded'
<1>1. UNCHANGED <<quota, own, inForce>>
  BY DEF quotaVars
<1>2. \A key : DailyQuota(key)' = DailyQuota(key)
  BY <1>1 DEF DailyQuota
<1>3. ASSUME NEW p \in Providers
      PROVE  Applying(p)' \subseteq Applying(p)
  BY <1>1 DEF Applying, DailyQuota
<1> QED
  BY <1>1, <1>3 DEF Recorded

LEMMA MidnightRecords ==
  ASSUME Recorded, Midnight
  PROVE  Recorded'
<1>1. /\ UNCHANGED <<quota, own, loaded, chosen>>
      /\ inForce' = [all |-> {quota["all"]},
                     of |-> [p \in Providers |-> Applying(p)]]
  BY DEF Midnight
<1>2. \A p \in Providers : Applying(p)' = Applying(p)
  BY <1>1 DEF Applying, DailyQuota
<1>3. \A p \in Providers : Applying(p) \in SUBSET Nat
  BY QuotasApplying DEF Recorded
<1>4. inForce' \in [all: SUBSET Nat, of: [Providers -> SUBSET Nat]]
  BY <1>1, <1>3 DEF Recorded
<1> QED
  BY <1>1, <1>2, <1>4 DEF Recorded

LEMMA AdministerRecords ==
  ASSUME Recorded, NEW p \in Providers, Administer(p), UNCHANGED workerVars
  PROVE  Recorded'
<1>1. UNCHANGED <<loaded, chosen>>
  BY DEF workerVars
<1>2. CASE UNCHANGED quotaVars
  BY <1>1, <1>2, LoadKeeps DEF Recorded
<1>3. CASE CreateProvider(p) \/ UpdateProvider(p)
  <2>1. PutInForce /\ UNCHANGED quota
    BY <1>3 DEF CreateProvider, UpdateProvider
  <2>2. PICK key \in OwnQuotas \cup {own[p]} : own' = [own EXCEPT ![p] = key]
    BY <1>3 DEF CreateProvider, UpdateProvider
  <2>3. key \in Nat \cup {NoKey}
    BY BoundsAssumption DEF Recorded
  <2>4. QuotasTyped'
    BY <1>1, <2>1, <2>2, <2>3 DEF Recorded, QuotasTyped
  <2> QED
    BY <2>1, <2>4, PutKeeps
<1>4. CASE \/ DeleteProvider(p) \/ TestProvider(p)
           \/ \E role \in Roles : SetDefaultProvider(p, role)
  BY <1>2, <1>4 DEF DeleteProvider, TestProvider, SetDefaultProvider
<1> QED
  BY <1>3, <1>4 DEF Administer

LEMMA SetQuotasRecords ==
  ASSUME Recorded, SetQuotas
  PROVE  Recorded'
<1>1. PutInForce /\ quota' \in Quotas /\ UNCHANGED <<own, loaded>>
  BY DEF SetQuotas, workerVars
<1>2. QuotasTyped'
  BY <1>1, BoundsAssumption DEF Recorded, QuotasTyped
<1> QED
  BY <1>1, <1>2, PutKeeps

LEMMA WorkRecords ==
  ASSUME Recorded, WorkersTyped, NEW w \in Workers, Work(w)
  PROVE  Recorded'
<1>1. CASE UNCHANGED <<quotaVars, loaded, chosen>>
  BY <1>1, LoadKeeps DEF Recorded
<1>2. ASSUME NEW what, NEW role, NEW stage, Begin(w, what, role, stage)
      PROVE  Recorded'
  <2>1. PICK p \in Selectable(role) :
          /\ chosen' = [chosen EXCEPT ![w] = {p}]
          /\ loaded' = [loaded EXCEPT ![w] = own[p]]
    BY <1>2 DEF Begin
  <2>2. p \in Providers
    BY DEF Selectable, Usable, There
  <2>3. UNCHANGED quotaVars
    BY <1>2 DEF Begin, tableVars
  <2>4. loaded' \in [Workers -> Nat \cup {NoKey}]
    BY <2>1, <2>2 DEF Recorded
  <2>5. ASSUME NEW v \in Workers, NEW q \in chosen'[v]
        PROVE  \/ q \in chosen[v] /\ loaded'[v] = loaded[v]
               \/ loaded'[v] = own[q]
    <3>1. CASE v = w
      BY <2>1, <3>1 DEF WorkersTyped, Recorded
    <3>2. CASE v # w
      BY <2>1, <3>2 DEF WorkersTyped, Recorded
    <3> QED
      BY <3>1, <3>2
  <2> QED
    BY <2>3, <2>4, <2>5, LoadKeeps
<1>3. CASE Release(w)
  <2>1. /\ UNCHANGED quotaVars
        /\ chosen' = [chosen EXCEPT ![w] = {}]
        /\ loaded' = [loaded EXCEPT ![w] = NoKey]
    BY <1>3 DEF Release, tableVars
  <2>2. loaded' \in [Workers -> Nat \cup {NoKey}]
    BY <2>1 DEF Recorded
  <2>3. ASSUME NEW v \in Workers, NEW q \in chosen'[v]
        PROVE  q \in chosen[v] /\ loaded'[v] = loaded[v]
    <3>1. CASE v = w
      BY <2>1, <2>3, <3>1 DEF WorkersTyped
    <3>2. CASE v # w
      BY <2>1, <2>3, <3>2 DEF WorkersTyped, Recorded
    <3> QED
      BY <3>1, <3>2
  <2> QED
    BY <2>1, <2>2, <2>3, LoadKeeps
<1>4. CASE \/ AskThroughPage(w) \/ AskThroughMCP(w) \/ StartRecognition(w)
           \/ StartSummary(w) \/ DescribeEntity(w)
  BY <1>2, <1>4
  DEF AskThroughPage, AskThroughMCP, AskQuestion, StartRecognition,
      StartSummary, DescribeEntity
<1>5. CASE \/ Refused(w) \/ FinishQuestion(w) \/ FailQuestion(w)
           \/ FailSummary(w) \/ PublishSummary(w) \/ Described(w) \/ RollBack(w)
  BY <1>3, <1>5
  DEF Refused, FinishQuestion, FailQuestion, FailSummary, PublishSummary,
      Described, RollBack
<1>6. CASE \/ CheckQuota(w) \/ CallTools(w) \/ AnswerQuestion(w)
           \/ RecognizeChunk(w) \/ WriteSinglePass(w) \/ WriteSubject(w)
           \/ WriteRollup(w) \/ AskAgain(w)
  BY <1>1, <1>6
  DEF CheckQuota, CallTools, AnswerQuestion, RecognizeChunk,
      WriteSinglePass, WriteSubject, WriteRollup, AskAgain, Answered,
      CallForSummary, tableVars
<1>7. CASE RecordChunk(w)
  BY <1>1, <1>3, <1>7 DEF RecordChunk, tableVars
<1> QED
  BY <1>4, <1>5, <1>6, <1>7 DEF Work

LEMMA InitRecords == Init => Recorded
<1> SUFFICES ASSUME Init
             PROVE  Recorded
  OBVIOUS
<1>1. /\ quota = InitialQuota /\ own = [p \in Providers |-> NoKey]
      /\ loaded = [w \in Workers |-> NoKey]
      /\ chosen = [w \in Workers |-> {}]
      /\ inForce = [all |-> {InitialQuota["all"]},
                    of |-> [p \in Providers |-> {InitialQuota["each"]}]]
  BY DEF Init
<1>2. InitialQuota["all"] \in Nat /\ InitialQuota["each"] \in Nat
  BY BoundsAssumption
<1>3. ASSUME NEW p \in Providers
      PROVE  Applying(p) \subseteq inForce["of"][p]
  BY <1>1 DEF Applying, DailyQuota
<1>4. inForce \in [all: SUBSET Nat, of: [Providers -> SUBSET Nat]]
  BY <1>1, <1>2
<1> QED
  BY <1>1, <1>3, <1>4, BoundsAssumption DEF Recorded

\* The inductive invariant of the module.
CallsInv == TableInv /\ RestTyped /\ WorkersInv /\ Recorded

LEMMA InitCalls == Init => CallsInv
<1> SUFFICES ASSUME Init
             PROVE  CallsInv
  OBVIOUS
<1>1. RestTyped
  BY HomeAssumption, BoundsAssumption DEF Init, RestTyped
<1>2. WorkersTyped
  BY NoTextTyped, BoundsAssumption DEF Init, WorkersTyped, Stages, Jobs
<1>3. \A w \in Workers : AccountOf(w)
  BY DEF Init, AccountOf, Accounted
<1> QED
  BY <1>1, <1>2, <1>3, InitSound, InitRecords DEF CallsInv, WorkersInv

LEMMA SetQuotasTyped ==
  ASSUME RestTyped, SetQuotas
  PROVE  RestTyped' /\ UNCHANGED workerVars
  BY BoundsAssumption DEF SetQuotas, RestTyped, usageVars

LEMMA StepCalls == CallsInv /\ [Next]_vars => CallsInv'
<1> SUFFICES ASSUME CallsInv, [Next]_vars
             PROVE  RestTyped' /\ WorkersInv' /\ Recorded'
  BY StepSound DEF CallsInv
<1>1. ASSUME NEW p \in Providers, Administer(p)
      PROVE  RestTyped' /\ WorkersInv' /\ Recorded'
  BY <1>1, AdministerTyped, AllWait, AdministerRecords DEF CallsInv
<1>2. ASSUME UNCHANGED quotaVars, UNCHANGED workerVars
      PROVE  Recorded'
  BY <1>2, LoadKeeps DEF workerVars, Recorded, CallsInv
<1>3. CASE AdministerHome
  <2>1. UNCHANGED quotaVars
    BY <1>3 DEF AdministerHome, CreateMember, CreatePet, AddEntity,
       UpdateEntity, DisableEntity, EditHome
  <2> QED
    BY <1>2, <1>3, <2>1, HomeTyped, AllWait DEF CallsInv
<1>4. CASE SetQuotas
  BY <1>4, SetQuotasTyped, SetQuotasRecords, AllWait DEF CallsInv
<1>5. CASE Midnight
  BY <1>5, MidnightTyped, MidnightKeeps, MidnightRecords DEF CallsInv
<1>6. ASSUME NEW w \in Workers, Work(w)
      PROVE  RestTyped' /\ WorkersInv' /\ Recorded'
  BY <1>6, WorkTyped, WorkKeeps, WorkRecords DEF CallsInv, WorkersInv
<1>7. CASE UNCHANGED vars
  <2>1. UNCHANGED workerVars /\ UNCHANGED quotaVars
    BY <1>7 DEF vars, tableVars
  <2>2. RestTyped'
    BY <1>7 DEF vars, tableVars, usageVars, RestTyped, CallsInv
  <2> QED
    BY <1>2, <2>1, <2>2, AllWait DEF CallsInv
<1> QED
  BY <1>1, <1>3, <1>4, <1>5, <1>6, <1>7 DEF Next

\* The invariant has the types, the bound of what is unsaved among them.
LEMMA CallsInvImpliesTypeOK == CallsInv => TypeOK
<1> SUFFICES ASSUME CallsInv
             PROVE  TypeOK
  OBVIOUS
<1>1. provider \in [Providers -> [Flags -> BOOLEAN]]
  BY DEF CallsInv, TableInv, Table, FlagSets
<1>2. ASSUME NEW w \in Workers
      PROVE  /\ (chosen[w] = {}) <=> (pc[w] = "idle")
             /\ (text[w] # NoText) => (job[w] = "summary")
  <2>1. AccountOf(w)
    BY DEF CallsInv, WorkersInv
  <2> QED
    BY <2>1 DEF AccountOf, Accounted
<1>3. unsaved \in [Workers -> 0..Allowance]
  <2>1. \A w \in Workers : unsaved[w] \in 0..Allowance
    BY Affordable, Prices DEF CallsInv
  <2>2. unsaved \in [Workers -> Nat]
    BY DEF CallsInv, WorkersInv, WorkersTyped
  <2> QED
    BY <2>1, <2>2
<1> QED
  BY <1>1, <1>2, <1>3
  DEF CallsInv, RestTyped, WorkersInv, WorkersTyped, Recorded, TypeOK

\* Every variable has its type in every reachable state: what a caller has
\* spent and not saved is within one allowance, however often a parse is
\* retried (services/summarizer/generation.py, application/qa/agent.py).
THEOREM CallsTyped == Spec => []TypeOK
  BY InitCalls, StepCalls, CallsInvImpliesTypeOK, PTL DEF Spec

\* A summary that is done is a finished one.
LEMMA CoveredWhenFinished == CallsInv => SubjectsAreCovered
<1> SUFFICES ASSUME CallsInv, NEW w \in Workers,
                    pc[w] = "done", job[w] = "summary"
             PROVE  LET sections == text[w].sections
                        subjects == text[w].home
                        about(x) == {i \in DOMAIN sections: sections[i].name = x}
                    IN  /\ \A x \in ToSet(subjects):
                             /\ about(x) # {}
                             /\ \A i \in about(x):
                                  sections[i].activity = Mentions(text[w].events, x)
                             /\ (text[w].serial /\ Cardinality(about(x)) > 1) =>
                                  Mentions(text[w].events, x) = 0
                                 /\ Mentions(subjects, x) > 1
                        /\ \A i, j \in DOMAIN sections:
                             i < j => sections[i].activity >= sections[j].activity
  BY DEF SubjectsAreCovered
<1> DEFINE sections == text[w].sections
           subjects == text[w].home
           events == text[w].events
           about(x) == {i \in DOMAIN sections: sections[i].name = x}
<1>1. Covers(sections, subjects, events, text[w].serial) /\ Sorted(sections)
  <2>1. AccountOf(w)
    BY DEF CallsInv, WorkersInv
  <2> QED
    BY <2>1 DEF AccountOf, Accounted, Questions, Finished
<1> HIDE DEF sections, subjects, events
<1>2. ASSUME NEW x \in ToSet(subjects)
      PROVE  /\ about(x) # {}
             /\ \A i \in about(x) : sections[i].activity = Mentions(events, x)
  BY <1>1 DEF Covers
<1>3. ASSUME NEW x \in ToSet(subjects), text[w].serial, Cardinality(about(x)) > 1
      PROVE  Mentions(events, x) = 0 /\ Mentions(subjects, x) > 1
  <2>1. PICK i \in about(x) : TRUE
    BY <1>2
  <2>2. PICK j \in about(x) : j # i
    <3>1. SUFFICES ASSUME about(x) = {i}
                   PROVE  FALSE
      BY <2>1
    <3>2. Cardinality({i}) = 1
      BY FS_Singleton
    <3> HIDE DEF about
    <3> QED
      BY <1>3, <3>1, <3>2
  <2> QED
    BY <1>1, <1>3, <2>1, <2>2 DEF Covers
<1>4. \A i, j \in DOMAIN sections :
        i < j => sections[i].activity >= sections[j].activity
  BY <1>1 DEF Sorted
<1> QED
  BY <1>2, <1>3, <1>4 DEF sections, subjects, events

\* A finished summary has a section for each subject of its home, the most
\* active first, whatever the model wrote and however the home is edited
\* meanwhile (services/summarizer/generation.py).
THEOREM SubjectsCovered == Spec => []SubjectsAreCovered
  BY InitCalls, StepCalls, CoveredWhenFinished, PTL DEF Spec

-----------------------------------------------------------------------------
(***************************************************************************)
(* The quota                                                               *)
(* A worker holds the allowance of a passed check from the check until it  *)
(* saves or gives up.  What is committed together with the allowances held *)
(* stays below the quota and one allowance for each worker.                *)
(***************************************************************************)

\* The allowances of n workers.
Share(n) == Allowance * n

\* A check was passed and what it allows is not spent for good.  A chunk's
\* check is made before each call, those of the others before the first.
Holding(stage, task) ==
  \/ stage # "idle" /\ task \in Questions \cup {"summary"}
  \/ stage \in {"call", "done"} /\ task = "recognition"

Holders == {w \in Workers : Holding(pc[w], job[w])}
HoldersOf(p) == {w \in Holders : chosen[w] = {p}}

\* The usage and the allowances held are below this quota, if it is one,
\* and one allowance for each worker.
Within(usage, holders, limit) ==
  limit > 0 => usage + Share(Cardinality(holders)) < limit + Overrun

\* The inductive invariant of the quota: this holds for a quota that was in
\* force today, namely for the one the last passed check compared with.
QuotaInv ==
  /\ \E limit \in inForce["all"] : Within(UsedToday, Holders, limit)
  /\ \A p \in Providers :
       \E limit \in inForce["of"][p] : Within(used[p], HoldersOf(p), limit)

\* What was in force today remains so.
MoreInForce ==
  /\ inForce["all"] \subseteq inForce'["all"]
  /\ \A p \in Providers : inForce["of"][p] \subseteq inForce'["of"][p]

\* The allowances of some workers are within those of all; a worker's
\* allowance is the difference it makes.
LEMMA Shares ==
  /\ Overrun \in Nat
  /\ \A S \in SUBSET Workers :
       Share(Cardinality(S)) \in Nat /\ Share(Cardinality(S)) <= Overrun
  /\ \A S, T \in SUBSET Workers :
       S \subseteq T => Share(Cardinality(S)) <= Share(Cardinality(T))
  /\ \A S \in SUBSET Workers, w \in Workers :
       w \in S => Share(Cardinality(S)) = Share(Cardinality(S \ {w})) + Allowance
<1>1. Allowance \in Nat
  BY Prices
<1>2. \A S \in SUBSET Workers : IsFiniteSet(S) /\ Cardinality(S) \in Nat
  BY BoundsAssumption, FS_Subset, FS_CardinalityType
<1>3. ASSUME NEW S \in SUBSET Workers, NEW T \in SUBSET Workers, S \subseteq T
      PROVE  Share(Cardinality(S)) <= Share(Cardinality(T))
  <2>1. Cardinality(S) <= Cardinality(T)
    BY <1>2, <1>3, FS_Subset
  <2> QED
    BY <1>1, <1>2, <2>1, ProductGrows DEF Share
<1>4. ASSUME NEW S \in SUBSET Workers, NEW w \in S
      PROVE  Share(Cardinality(S)) = Share(Cardinality(S \ {w})) + Allowance
  <2> DEFINE n == Cardinality(S \ {w})
  <2>1. Cardinality(S) = n + 1 /\ n \in Nat
    <3>1. /\ IsFiniteSet(S) /\ Cardinality(S \ {w}) = Cardinality(S) - 1
          /\ S \ {w} \in SUBSET Workers
      BY <1>2, FS_RemoveElement
    <3>2. Cardinality(S) \in Nat /\ n \in Nat
      BY <1>2, <3>1
    <3> QED
      BY <3>1, <3>2
  <2> HIDE DEF n
  <2>2. Allowance * (n + 1) = Allowance * n + Allowance
    BY <1>1, <2>1
  <2> QED
    BY <2>1, <2>2 DEF Share, n
<1>5. ASSUME NEW S \in SUBSET Workers
      PROVE  Share(Cardinality(S)) \in Nat
  <2> DEFINE n == Cardinality(S)
  <2>1. n \in Nat
    BY <1>2
  <2> HIDE DEF n
  <2>2. Allowance * n \in Nat
    BY <1>1, <2>1
  <2> QED
    BY <2>2 DEF Share, n
<1>6. Overrun = Share(Cardinality(Workers))
  <2> DEFINE n == Cardinality(Workers)
  <2>1. n \in Nat
    BY <1>2
  <2>2. Overrun = n * Allowance /\ Share(n) = Allowance * n
    BY DEF Overrun, Share
  <2> HIDE DEF n
  <2> QED
    BY <1>1, <2>1, <2>2 DEF n
<1> QED
  BY <1>3, <1>4, <1>5, <1>6

\* The usage of today is the orphaned usage and a sum.
LEMMA UsedIs ==
  /\ UsedToday = orphaned + Sums(used, Providers)[Providers]
  /\ UsedToday' = orphaned' + Sums(used', Providers)[Providers]
  BY DEF UsedToday, MapThenSumSet, MapThenFoldSet, Sums, Summed, Pick

LEMMA TotalTyped ==
  ASSUME RestTyped
  PROVE  Sums(used, Providers)[Providers] \in Nat /\ UsedToday \in Nat
<1>1. Sums(used, Providers)[Providers] \in Nat
  BY BoundsAssumption, SumsType DEF RestTyped
<1> QED
  BY <1>1, UsedIs DEF RestTyped

\* Less usage and fewer allowances are within the same quota.
LEMMA FewerWithin ==
  ASSUME NEW S \in SUBSET Workers, NEW T \in SUBSET Workers, T \subseteq S,
         NEW m \in Nat, NEW n \in Nat, n <= m, NEW limit \in Nat,
         Within(m, S, limit)
  PROVE  Within(n, T, limit)
<1>1. /\ Share(Cardinality(S)) \in Nat /\ Share(Cardinality(T)) \in Nat
      /\ Share(Cardinality(T)) <= Share(Cardinality(S)) /\ Overrun \in Nat
  BY Shares
<1> QED
  BY <1>1 DEF Within

\* Usage below a quota is within it, however many hold an allowance.
LEMMA BelowWithin ==
  ASSUME NEW S \in SUBSET Workers, NEW n \in Nat, NEW limit \in Nat,
         limit > 0 => n < limit
  PROVE  Within(n, S, limit)
<1>1. Share(Cardinality(S)) \in Nat /\ Share(Cardinality(S)) <= Overrun
      /\ Overrun \in Nat
  BY Shares
<1> QED
  BY <1>1 DEF Within

\* An allowance that is given up pays for as much usage.
LEMMA PaidWithin ==
  ASSUME NEW S \in SUBSET Workers, NEW w \in S,
         NEW n \in Nat, NEW more \in Nat, more <= Allowance,
         NEW limit \in Nat, Within(n, S, limit)
  PROVE  Within(n + more, S \ {w}, limit)
<1>1. /\ Share(Cardinality(S)) \in Nat /\ Share(Cardinality(S \ {w})) \in Nat
      /\ Share(Cardinality(S)) = Share(Cardinality(S \ {w})) + Allowance
      /\ Overrun \in Nat
  BY Shares
<1> QED
  BY <1>1, Prices DEF Within

LEMMA HoldersTyped ==
  /\ Holders \in SUBSET Workers /\ Holders' \in SUBSET Workers
  /\ \A p \in Providers : HoldersOf(p) \in SUBSET Workers
                          /\ HoldersOf(p)' \in SUBSET Workers
  BY DEF Holders, HoldersOf

LEMMA LimitsTyped ==
  ASSUME Recorded
  PROVE  /\ \A limit \in inForce["all"] : limit \in Nat
         /\ \A p \in Providers : \A limit \in inForce["of"][p] : limit \in Nat
  BY DEF Recorded

\* A step that spends nothing and starts nothing keeps the bound.
LEMMA NothingSpent ==
  ASSUME RestTyped, RestTyped', Recorded, QuotaInv, MoreInForce,
         UsedToday' <= UsedToday, \A p \in Providers : used'[p] <= used[p],
         Holders' \subseteq Holders,
         \A p \in Providers : HoldersOf(p)' \subseteq HoldersOf(p)
  PROVE  QuotaInv'
<1>1. UsedToday \in Nat /\ UsedToday' \in Nat
  <2>1. UsedToday' \in Nat
    <3>1. Sums(used', Providers)[Providers] \in Nat /\ orphaned' \in Nat
      BY BoundsAssumption, SumsType DEF RestTyped
    <3> QED
      BY <3>1, UsedIs
  <2> QED
    BY <2>1, TotalTyped
<1>2. \E limit \in inForce'["all"] : Within(UsedToday', Holders', limit)
  <2>1. PICK limit \in inForce["all"] : Within(UsedToday, Holders, limit)
    BY DEF QuotaInv
  <2>2. limit \in Nat /\ limit \in inForce'["all"]
    BY LimitsTyped DEF MoreInForce
  <2>3. Within(UsedToday', Holders', limit)
    BY <1>1, <2>1, <2>2, HoldersTyped, FewerWithin
  <2> QED
    BY <2>2, <2>3
<1>3. ASSUME NEW p \in Providers
      PROVE  \E limit \in inForce'["of"][p] :
               Within(used'[p], HoldersOf(p)', limit)
  <2>1. PICK limit \in inForce["of"][p] : Within(used[p], HoldersOf(p), limit)
    BY DEF QuotaInv
  <2>2. limit \in Nat /\ limit \in inForce'["of"][p]
    BY LimitsTyped DEF MoreInForce
  <2>3. used[p] \in Nat /\ used'[p] \in Nat /\ used'[p] <= used[p]
    BY DEF RestTyped
  <2>4. Within(used'[p], HoldersOf(p)', limit)
    BY <2>1, <2>2, <2>3, HoldersTyped, FewerWithin
  <2> QED
    BY <2>2, <2>4
<1> QED
  BY <1>2, <1>3 DEF QuotaInv, Within, Share, Overrun, Allowance

\* When nothing is used yet, any quota will do.
NothingUsed == UsedToday = 0 /\ \A p \in Providers : used[p] = 0

LEMMA FreshDay == Recorded /\ NothingUsed => QuotaInv
<1> SUFFICES ASSUME Recorded, NothingUsed
             PROVE  QuotaInv
  OBVIOUS
<1>1. \E limit \in inForce["all"] : Within(UsedToday, Holders, limit)
  <2>1. quota["all"] \in inForce["all"] /\ quota["all"] \in Nat
    BY DEF Recorded
  <2>2. Within(0, Holders, quota["all"])
    BY <2>1, HoldersTyped, BelowWithin
  <2> QED
    BY <2>1, <2>2 DEF NothingUsed
<1>2. ASSUME NEW p \in Providers
      PROVE  \E limit \in inForce["of"][p] : Within(used[p], HoldersOf(p), limit)
  <2>1. PICK limit \in inForce["of"][p] : limit \in Nat
    BY LimitsTyped DEF Recorded, Applying
  <2>2. Within(0, HoldersOf(p), limit)
    BY <2>1, HoldersTyped, BelowWithin
  <2> QED
    BY <2>2 DEF NothingUsed
<1> QED
  BY <1>1, <1>2 DEF QuotaInv

LEMMA FreshDayNext == Recorded' /\ NothingUsed' => QuotaInv'
  BY FreshDay, PTL

\* A worker that passes the check sees the usage below a quota that is in
\* force: however many hold an allowance then, the bound holds.
LEMMA Passed ==
  ASSUME RestTyped, Recorded, QuotaInv, NEW w \in Workers, OthersWait(w),
         UNCHANGED <<used, orphaned, inForce>>,
         NEW p \in Providers, NEW key, QuotaLeft(p, key),
         DailyQuota(key) \in Applying(p), chosen'[w] = {p}
  PROVE  QuotaInv'
<1>1. UsedToday' = UsedToday /\ UsedToday \in Nat
  BY UsedIs, TotalTyped
<1>2. \E limit \in inForce'["all"] : Within(UsedToday', Holders', limit)
  <2>1. quota["all"] \in inForce["all"] /\ quota["all"] \in Nat
    BY DEF Recorded
  <2>2. quota["all"] > 0 => UsedToday < quota["all"]
    BY DEF QuotaLeft
  <2>3. Within(UsedToday, Holders', quota["all"])
    BY <1>1, <2>1, <2>2, HoldersTyped, BelowWithin
  <2> QED
    BY <1>1, <2>1, <2>3
<1>3. ASSUME NEW q \in Providers
      PROVE  \E limit \in inForce'["of"][q] :
               Within(used'[q], HoldersOf(q)', limit)
  <2>1. used'[q] = used[q] /\ used[q] \in Nat
    BY DEF RestTyped
  <2>2. CASE q = p
    <3> DEFINE limit == DailyQuota(key)
    <3>1. limit \in inForce["of"][q] /\ limit \in Nat
      BY <2>2, LimitsTyped DEF Recorded
    <3>2. limit > 0 => used[q] < limit
      BY <2>2 DEF QuotaLeft
    <3> HIDE DEF limit
    <3>3. Within(used[q], HoldersOf(q)', limit)
      BY <2>1, <3>1, <3>2, HoldersTyped, BelowWithin
    <3> QED
      BY <2>1, <3>1, <3>3
  <2>3. CASE q # p
    <3>1. HoldersOf(q)' \subseteq HoldersOf(q)
      BY <2>3 DEF HoldersOf, Holders, OthersWait
    <3>2. PICK limit \in inForce["of"][q] :
            Within(used[q], HoldersOf(q), limit)
      BY DEF QuotaInv
    <3>3. limit \in Nat
      BY LimitsTyped
    <3>4. Within(used[q], HoldersOf(q)', limit)
      BY <2>1, <3>1, <3>2, <3>3, HoldersTyped, FewerWithin
    <3> QED
      BY <2>1, <3>4
  <2> QED
    BY <2>2, <2>3
<1> QED
  BY <1>2, <1>3 DEF QuotaInv, Within, Share, Overrun, Allowance

\* A worker that saves spends at most its allowance, and gives it up.
LEMMA Settled ==
  ASSUME RestTyped, WorkersInv, Recorded, QuotaInv,
         NEW w \in Workers, w \in Holders,
         NEW units \in Nat, units <= Allowance, Save(w, units),
         OthersWait(w), w \notin Holders', UNCHANGED <<orphaned, inForce>>
  PROVE  QuotaInv'
<1>1. PICK p \in Providers : chosen[w] = {p}
  BY DEF WorkersInv, AccountOf, Accounted, Holders, Holding, Questions
<1>2. /\ Holders \in SUBSET Workers /\ Holders' \in SUBSET Workers
      /\ \A q \in Providers : HoldersOf(q) \in SUBSET Workers
                              /\ HoldersOf(q)' \in SUBSET Workers
  BY DEF Holders, HoldersOf
<1>3. Holders' = Holders \ {w}
  BY DEF Holders, OthersWait
<1>4. /\ HoldersOf(p)' = HoldersOf(p) \ {w} /\ w \in HoldersOf(p)
      /\ \A q \in Providers : HoldersOf(q)' \subseteq HoldersOf(q)
  BY <1>1, <1>3 DEF HoldersOf, OthersWait, Holders
<1>5. PICK more \in Nat : more <= Allowance
                          /\ used' = [used EXCEPT ![p] = used[p] + more]
  <2>1. CASE used' = [used EXCEPT ![p] = used[p] + units]
    BY <2>1
  <2>2. CASE UNCHANGED used
    <3>1. used' = [used EXCEPT ![p] = used[p] + 0] /\ 0 <= Allowance
      BY <2>2, Prices DEF RestTyped
    <3> QED
      BY <3>1
  <2> QED
    BY <1>1, <2>1, <2>2 DEF Save
<1> DEFINE total == Sums(used, Providers)[Providers]
<1>6. UsedToday' = UsedToday + more /\ UsedToday \in Nat
  <2>1. used[p] \in Nat /\ used[p] + more \in Nat /\ used \in [Providers -> Nat]
    BY DEF RestTyped
  <2> DEFINE spent == used[p] + more
  <2>2. Sums(used', Providers)[Providers] = total - used[p] + spent
    <3>1. IsFiniteSet(Providers) /\ spent \in Nat
      BY <2>1, BoundsAssumption
    <3>2. /\ used' \in [Providers -> Nat] /\ used'[p] = spent
          /\ \A q \in Providers : q # p => used'[q] = used[q]
      BY <1>5, <2>1
    <3> HIDE DEF spent
    <3> QED
      BY <2>1, <3>1, <3>2, SumsDiffer
  <2>3. total \in Nat /\ UsedToday \in Nat /\ orphaned \in Nat
    BY TotalTyped DEF RestTyped
  <2>4. /\ UsedToday = orphaned + total
        /\ UsedToday' = orphaned + Sums(used', Providers)[Providers]
    BY UsedIs
  <2> HIDE DEF total
  <2> QED
    BY <2>1, <2>2, <2>3, <2>4
<1>7. \E limit \in inForce'["all"] : Within(UsedToday', Holders', limit)
  <2>1. PICK limit \in inForce["all"] : Within(UsedToday, Holders, limit)
    BY DEF QuotaInv
  <2>2. limit \in Nat
    BY LimitsTyped
  <2>3. Within(UsedToday + more, Holders \ {w}, limit)
    BY <1>2, <1>5, <1>6, <2>1, <2>2, PaidWithin
  <2> QED
    BY <1>3, <1>6, <2>3
<1>8. ASSUME NEW q \in Providers
      PROVE  \E limit \in inForce'["of"][q] :
               Within(used'[q], HoldersOf(q)', limit)
  <2>1. PICK limit \in inForce["of"][q] : Within(used[q], HoldersOf(q), limit)
    BY DEF QuotaInv
  <2>2. limit \in Nat
    BY LimitsTyped
  <2>3. /\ used[q] \in Nat
        /\ used'[q] = IF q = p THEN used[q] + more ELSE used[q]
    BY <1>5 DEF RestTyped
  <2>4. CASE q = p
    <3>1. Within(used[q] + more, HoldersOf(q) \ {w}, limit)
      BY <1>2, <1>4, <1>5, <2>1, <2>2, <2>3, <2>4, PaidWithin
    <3> QED
      BY <1>4, <2>3, <2>4, <3>1
  <2>5. CASE q # p
    <3>1. Within(used[q], HoldersOf(q)', limit)
      BY <1>2, <1>4, <2>1, <2>2, <2>3, FewerWithin
    <3> QED
      BY <2>3, <2>5, <3>1
  <2> QED
    BY <2>4, <2>5
<1> QED
  BY <1>7, <1>8 DEF QuotaInv, Within, Share, Overrun, Allowance

\* The changes of the provider table leave the sum of the usage alone: what
\* a deletion takes from the provider goes to the orphaned usage.
LEMMA AdministerSpends ==
  ASSUME RestTyped, RestTyped', NEW p \in Providers, Administer(p)
  PROVE  UsedToday' = UsedToday /\ \A q \in Providers : used'[q] <= used[q]
<1>1. UNCHANGED <<used, orphaned>> \/ OrphanUsage(p)
  BY DEF Administer, CreateProvider, UpdateProvider, DeleteProvider,
         SetDefaultProvider, TestProvider
<1>2. CASE UNCHANGED <<used, orphaned>>
  <2>1. UsedToday' = UsedToday
    BY <1>2, UsedIs
  <2>2. \A q \in Providers : used[q] \in Nat
    BY DEF RestTyped
  <2> QED
    BY <1>2, <2>1, <2>2
<1>3. CASE OrphanUsage(p)
  <2>1. /\ used \in [Providers -> Nat] /\ used' \in [Providers -> Nat]
        /\ used'[p] = 0 /\ orphaned' = orphaned + used[p]
        /\ \A q \in Providers : q # p => used'[q] = used[q]
        /\ orphaned \in Nat /\ used[p] \in Nat
    BY <1>3 DEF OrphanUsage, RestTyped
  <2>2. Sums(used', Providers)[Providers]
          = Sums(used, Providers)[Providers] - used[p] + used'[p]
    <3>1. IsFiniteSet(Providers)
      BY BoundsAssumption
    <3> QED
      BY <2>1, <3>1, SumsDiffer
  <2>3. Sums(used, Providers)[Providers] \in Nat
    BY TotalTyped
  <2>4. UsedToday' = UsedToday
    BY <2>1, <2>2, <2>3, UsedIs
  <2>5. ASSUME NEW q \in Providers
        PROVE  used'[q] <= used[q]
    <3>1. used[q] \in Nat
      BY <2>1
    <3> QED
      BY <2>1, <3>1
  <2> QED
    BY <2>4, <2>5
<1> QED
  BY <1>1, <1>2, <1>3

\* At midnight the usage of the day is gone.
LEMMA MidnightSpends ==
  ASSUME Midnight
  PROVE  NothingUsed'
<1>1. orphaned' = 0 /\ \A q \in Providers : used'[q] = 0
  BY DEF Midnight
<1>2. Sums(used', Providers)[Providers] = 0
  BY <1>1, BoundsAssumption, SumsZero
<1>3. UsedToday' = 0
  BY <1>1, <1>2, UsedIs
<1> QED
  BY <1>1, <1>3 DEF NothingUsed

LEMMA SameHolders ==
  ASSUME UNCHANGED <<pc, job, chosen>>
  PROVE  /\ Holders' \subseteq Holders
         /\ \A p \in Providers : HoldersOf(p)' \subseteq HoldersOf(p)
  BY DEF Holders, HoldersOf

\* A step of a worker that spends nothing, and after which it has a passed
\* check only if it had one for the same provider before.
LEMMA QuietStep ==
  ASSUME RestTyped, RestTyped', Recorded, QuotaInv, NEW w \in Workers,
         UNCHANGED <<used, orphaned, inForce>>, OthersWait(w),
         w \in Holders' => w \in Holders /\ chosen'[w] = chosen[w]
  PROVE  QuotaInv'
<1>1. UsedToday' = UsedToday /\ UsedToday \in Nat
  BY UsedIs, TotalTyped
<1>2. \A p \in Providers : used'[p] = used[p] /\ used[p] \in Nat
  BY DEF RestTyped
<1>3. Holders' \subseteq Holders
  BY DEF Holders, OthersWait
<1>4. \A p \in Providers : HoldersOf(p)' \subseteq HoldersOf(p)
  BY <1>3 DEF HoldersOf, OthersWait, Holders
<1>5. MoreInForce
  BY DEF MoreInForce
<1> QED
  BY <1>1, <1>2, <1>3, <1>4, <1>5, NothingSpent

\* A released worker holds nothing.
LEMMA Released ==
  ASSUME WorkersInv, NEW w \in Workers, Release(w)
  PROVE  /\ OthersWait(w) /\ w \notin Holders'
         /\ UNCHANGED <<orphaned, inForce>>
  BY DEF WorkersInv, WorkersTyped, Release, OthersWait, Holders, Holding,
         Questions, tableVars, quotaVars

\* An answer of the model changes nothing but the worker that asked.
LEMMA AnsweredOnly ==
  ASSUME WorkersInv, NEW w \in Workers,
         \/ CallTools(w) \/ AnswerQuestion(w) \/ RecognizeChunk(w)
         \/ WriteSinglePass(w) \/ WriteSubject(w) \/ WriteRollup(w)
         \/ AskAgain(w)
  PROVE  /\ OthersWait(w) /\ UNCHANGED <<used, orphaned, inForce, chosen>>
         /\ w \in Holders
<1>1. /\ Answered(w)
      /\ UNCHANGED <<used, orphaned, inForce, job, chosen>> /\ pc[w] = "call"
      /\ job[w] \in Questions \cup {"recognition", "summary"}
  BY DEF CallTools, AnswerQuestion, RecognizeChunk, WriteSinglePass,
         WriteSubject, WriteRollup, AskAgain, CallForSummary, Answered,
         usageVars, tableVars, quotaVars
<1>2. \A v \in Workers : v # w => unsaved'[v] = unsaved[v]
  BY <1>1 DEF Answered, WorkersInv, WorkersTyped
<1>3. \A v \in Workers : v # w => pc'[v] = pc[v] /\ round'[v] = round[v]
  BY DEF CallTools, AnswerQuestion, RecognizeChunk, WriteSinglePass,
         WriteSubject, WriteRollup, AskAgain, WorkersInv, WorkersTyped
<1>4. \A v \in Workers : v # w => text'[v] = text[v]
  BY DEF CallTools, AnswerQuestion, RecognizeChunk, WriteSinglePass,
         WriteSubject, WriteRollup, AskAgain, WorkersInv, WorkersTyped
<1>5. w \in Holders
  BY <1>1 DEF Holders, Holding
<1> QED
  BY <1>1, <1>2, <1>3, <1>4, <1>5 DEF OthersWait

\* Every step of a worker is one of the three.
LEMMA WorkSpends ==
  ASSUME RestTyped, RestTyped', WorkersInv, Recorded, QuotaInv,
         NEW w \in Workers, Work(w)
  PROVE  QuotaInv'
<1>1. CASE AskThroughPage(w) \/ AskThroughMCP(w) \/ StartSummary(w)
  <2>1. PICK what \in Questions \cup {"summary"}, stage \in {"check", "call"} :
          Begin(w, what, "qa", stage)
    BY <1>1 DEF AskThroughPage, AskThroughMCP, AskQuestion, StartSummary,
       Questions
  <2>2. PICK p \in Selectable("qa") :
          QuotaLeft(p, own[p]) /\ chosen' = [chosen EXCEPT ![w] = {p}]
    BY <2>1 DEF Begin, Questions
  <2>3. p \in Providers
    BY DEF Selectable, Usable, There
  <2>4. \A v \in Workers : v # w => text'[v] = text[v]
    BY <1>1 DEF AskThroughPage, AskThroughMCP, AskQuestion, StartSummary,
       WorkersInv, WorkersTyped
  <2>5. /\ OthersWait(w) /\ UNCHANGED <<used, orphaned, inForce>>
        /\ chosen'[w] = {p}
    BY <2>1, <2>2, <2>4 DEF Begin, OthersWait, WorkersInv, WorkersTyped,
       usageVars, callVars, tableVars, quotaVars
  <2>6. DailyQuota(own[p]) \in Applying(p)
    BY DEF Applying
  <2> QED
    BY <2>2, <2>3, <2>5, <2>6, Passed
<1>2. CASE CheckQuota(w)
  <2>1. PICK p \in chosen[w] : QuotaLeft(p, loaded[w])
    BY <1>2 DEF CheckQuota
  <2>2. PICK q \in Providers : chosen[w] = {q}
    <3>1. AccountOf(w) /\ pc[w] = "check"
      BY <1>2 DEF WorkersInv, CheckQuota
    <3> QED
      BY <3>1 DEF AccountOf, Accounted
  <2>3. /\ OthersWait(w) /\ UNCHANGED <<used, orphaned, inForce>>
        /\ chosen'[w] = {q} /\ QuotaLeft(q, loaded[w])
    BY <1>2, <2>1, <2>2 DEF CheckQuota, OthersWait, WorkersInv, WorkersTyped,
       usageVars, callVars, tableVars, quotaVars
  <2>4. DailyQuota(loaded[w]) \in Applying(q)
    BY <2>2 DEF Applying
  <2> QED
    BY <2>3, <2>4, Passed
<1>3. CASE StartRecognition(w) \/ DescribeEntity(w)
  <2>1. PICK what \in {"recognition", "appearance"}, stage \in {"check", "call"} :
          /\ Begin(w, what, "vision", stage) /\ UNCHANGED text
          /\ what = "recognition" => stage = "check"
    BY <1>3 DEF StartRecognition, DescribeEntity
  <2>2. /\ OthersWait(w) /\ UNCHANGED <<used, orphaned, inForce>>
        /\ pc'[w] = stage /\ job'[w] = what
    BY <2>1 DEF Begin, OthersWait, WorkersInv, WorkersTyped, usageVars,
       callVars, tableVars, quotaVars
  <2>3. w \notin Holders'
    BY <2>1, <2>2 DEF Holders, Holding, Questions
  <2> QED
    BY <2>2, <2>3, QuietStep
<1>4. CASE \/ CallTools(w) \/ AnswerQuestion(w) \/ RecognizeChunk(w)
           \/ WriteSinglePass(w) \/ WriteSubject(w) \/ WriteRollup(w)
           \/ AskAgain(w)
  BY <1>4, AnsweredOnly, QuietStep
<1>5. CASE Described(w) \/ RollBack(w)
  <2>1. Release(w) /\ UNCHANGED used
    BY <1>5 DEF Described, RollBack
  <2> QED
    BY <2>1, Released, QuietStep
<1>6. ASSUME NEW units \in Nat, units <= Allowance, Save(w, units), Release(w),
             w \in Holders
      PROVE  QuotaInv'
  BY <1>6, Released, Settled
<1>7. CASE Refused(w) \/ FailQuestion(w)
  <2>1. LeaveQuestion(w) /\ Release(w) /\ pc[w] # "idle"
    BY <1>7 DEF Refused, FailQuestion
  <2>2. CASE job[w] = "mcp_question" /\ Save(w, unsaved[w])
    <3>1. w \in Holders
      BY <2>1, <2>2 DEF Holders, Holding, Questions
    <3> QED
      BY <1>6, <2>1, <2>2, <3>1, Affordable
  <2>3. CASE UNCHANGED used
    BY <2>1, <2>3, Released, QuietStep
  <2> QED
    BY <2>1, <2>2, <2>3 DEF LeaveQuestion
<1>8. CASE FinishQuestion(w) \/ PublishSummary(w)
  <2>1. w \in Holders /\ Save(w, unsaved[w]) /\ Release(w)
    BY <1>8 DEF FinishQuestion, PublishSummary, Holders, Holding
  <2> QED
    BY <1>6, <2>1, Affordable
<1>9. CASE RecordChunk(w)
  <2>1. w \in Holders /\ Save(w, unsaved[w]) /\ job[w] = "recognition"
    BY <1>9 DEF RecordChunk, Holders, Holding
  <2>2. CASE Release(w)
    BY <1>6, <2>1, <2>2, Affordable
  <2>3. CASE ~Release(w)
    <3>1. /\ OthersWait(w) /\ pc'[w] = "check" /\ job'[w] = "recognition"
          /\ UNCHANGED <<orphaned, inForce>>
      BY <1>9, <2>3 DEF RecordChunk, OthersWait, WorkersInv, WorkersTyped,
         tableVars, quotaVars
    <3>2. w \notin Holders'
      BY <3>1 DEF Holders, Holding, Questions
    <3> QED
      BY <2>1, <3>1, <3>2, Affordable, Settled
  <2> QED
    BY <2>2, <2>3
<1>10. CASE FailSummary(w)
  <2>1. PICK usage \in Costs \cup {0} : Save(w, unsaved[w] + usage)
    BY <1>10 DEF FailSummary
  <2>2. w \in Holders /\ Release(w) /\ pc[w] = "call" /\ job[w] = "summary"
    BY <1>10 DEF FailSummary, Holders, Holding
  <2>3. unsaved[w] + usage \in Nat /\ unsaved[w] + usage <= Allowance
    BY <2>2, Affordable
  <2> QED
    BY <1>6, <2>1, <2>2, <2>3
<1> QED
  BY <1>1, <1>2, <1>3, <1>4, <1>5, <1>7, <1>8, <1>9, <1>10 DEF Work

LEMMA InitQuota == Init => QuotaInv
<1> SUFFICES ASSUME Init
             PROVE  NothingUsed
  BY InitRecords, FreshDay
<1>1. UsedToday = 0
  <2>1. Sums(used, Providers)[Providers] = 0
    BY BoundsAssumption, SumsZero DEF Init
  <2> QED
    BY <2>1, UsedIs DEF Init
<1> QED
  BY <1>1 DEF Init, NothingUsed

LEMMA AdministerForce ==
  ASSUME Recorded, NEW p \in Providers, Administer(p)
  PROVE  MoreInForce
<1>1. PutInForce \/ UNCHANGED inForce
  BY DEF Administer, CreateProvider, UpdateProvider, DeleteProvider,
         SetDefaultProvider, TestProvider, quotaVars
<1> QED
  BY <1>1 DEF PutInForce, MoreInForce, Recorded

LEMMA StepQuota ==
  CallsInv /\ CallsInv' /\ QuotaInv /\ [Next]_vars => QuotaInv'
<1> SUFFICES ASSUME CallsInv, CallsInv', QuotaInv, [Next]_vars
             PROVE  QuotaInv'
  OBVIOUS
<1>1. RestTyped /\ RestTyped' /\ WorkersInv /\ Recorded /\ Recorded'
  BY DEF CallsInv
<1>2. ASSUME NEW p \in Providers, Administer(p)
      PROVE  QuotaInv'
  <2>1. UNCHANGED <<pc, job, chosen>>
    BY <1>1, <1>2, AdministerTyped DEF workerVars
  <2>2. UsedToday' <= UsedToday
    BY <1>1, <1>2, AdministerSpends, TotalTyped
  <2>3. MoreInForce
    BY <1>1, <1>2, AdministerForce
  <2> QED
    BY <1>1, <1>2, <2>1, <2>2, <2>3, AdministerSpends, SameHolders,
       NothingSpent
<1>3. CASE AdministerHome \/ SetQuotas \/ UNCHANGED vars
  <2>1. UNCHANGED <<used, orphaned, pc, job, chosen>>
    BY <1>3 DEF AdministerHome, CreateMember, CreatePet, AddEntity,
       UpdateEntity, DisableEntity, EditHome, SetQuotas, vars, usageVars,
       workerVars
  <2>2. UsedToday' <= UsedToday
    BY <1>1, <2>1, UsedIs, TotalTyped
  <2>3. \A p \in Providers : used'[p] <= used[p]
    BY <1>1, <2>1 DEF RestTyped
  <2>4. PutInForce \/ UNCHANGED inForce
    BY <1>3 DEF AdministerHome, CreateMember, CreatePet, AddEntity,
       UpdateEntity, DisableEntity, EditHome, SetQuotas, vars, tableVars,
       quotaVars
  <2>5. MoreInForce
    BY <1>1, <2>4 DEF PutInForce, MoreInForce, Recorded
  <2> QED
    BY <1>1, <2>1, <2>2, <2>3, <2>5, SameHolders, NothingSpent
<1>4. CASE Midnight
  BY <1>1, <1>4, MidnightSpends, FreshDayNext
<1>5. ASSUME NEW w \in Workers, Work(w)
      PROVE  QuotaInv'
  BY <1>1, <1>5, WorkSpends
<1> QED
  BY <1>2, <1>3, <1>4, <1>5 DEF Next

LEMMA QuotaInvBounds == CallsInv /\ QuotaInv => OverrunIsBounded
<1> SUFFICES ASSUME CallsInv, QuotaInv
             PROVE  OverrunIsBounded
  OBVIOUS
<1>1. RestTyped /\ Recorded /\ UsedToday \in Nat
  BY TotalTyped DEF CallsInv
<1>2. ASSUME NEW S \in SUBSET Workers, NEW n \in Nat, NEW limit \in Nat,
             Within(n, S, limit)
      PROVE  limit > 0 => n < limit + Overrun
  <2>1. Share(Cardinality(S)) \in Nat /\ Overrun \in Nat
    BY Shares
  <2> QED
    BY <1>2, <2>1 DEF Within
<1>3. \E limit \in inForce["all"] : limit > 0 => UsedToday < limit + Overrun
  <2>1. PICK limit \in inForce["all"] : Within(UsedToday, Holders, limit)
    BY DEF QuotaInv
  <2> QED
    BY <1>1, <1>2, <2>1, HoldersTyped, LimitsTyped
<1>4. ASSUME NEW p \in Providers
      PROVE  \E limit \in inForce["of"][p] :
               limit > 0 => used[p] < limit + Overrun
  <2>1. PICK limit \in inForce["of"][p] : Within(used[p], HoldersOf(p), limit)
    BY DEF QuotaInv
  <2>2. used[p] \in Nat
    BY <1>1 DEF RestTyped
  <2> QED
    BY <1>1, <1>2, <2>1, <2>2, HoldersTyped, LimitsTyped
<1> QED
  BY <1>3, <1>4 DEF OverrunIsBounded

\* However the callers interleave and the quotas are changed meanwhile, a
\* day's usage passes some quota that was in force that day by less than one
\* allowance for each of them (enforce_token_quota of services/llm_qos.py).
THEOREM QuotaOverrun == Spec => []OverrunIsBounded
  BY InitCalls, StepCalls, InitQuota, StepQuota, QuotaInvBounds, PTL DEF Spec

=============================================================================
