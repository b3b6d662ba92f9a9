------------------------- MODULE HappyEyeballsProofs ------------------------
(***************************************************************************)
(* Proofs about HappyEyeballs, for any answers of the resolver and any     *)
(* delays: the types; that answers which are in time are kept; that        *)
(* attempts are staggered; the order of the attempts, from what the sort   *)
(* and the iterator do; and what connect() returns, from the account of    *)
(* the attempts.                                                           *)
(***************************************************************************)
EXTENDS HappyEyeballs, FiniteSetTheorems, TLAPS

\* The kinds of errors that the connector takes.
LEMMA Kinds == AttemptKinds \subseteq ConnectKinds /\ "TimedOut" \in ConnectKinds
BY HappyEyeballsAssumption DEF ConnectKinds

LEMMA Delays ==
    /\ ResolutionDelay \in Nat /\ FirstFamilyTimeout \in Nat
    /\ AttemptDelay \in Nat /\ ConnectTimeout \in Nat
BY HappyEyeballsAssumption

LEMMA LessType == \A n \in Nat : Less(n) \in Nat /\ Less(n) <= n /\ Less(n) >= n - 1
BY DEF Less

-----------------------------------------------------------------------------
(* What was resolved, and the answers it is made of.                       *)

Answers == [ipv6 : Ipv6Answers, ipv4 : Ipv4Answers]

ResolvedInv ==
    /\ pc \in Active \cup {"done", "dropped"}
    /\ answer \in Answers
    /\ resolved \in [ipv6 : {<<>>, answer.ipv6}, ipv4 : {<<>>, answer.ipv4}]
    /\ pc = "ipv4" => resolved.ipv6 = answer.ipv6

\* Both ends of the lookups keep what they have.
LEMMA LookupsAnsweredResolves ==
    ASSUME ResolvedInv, LookupsAnswered
    PROVE  resolved' = answer /\ answer' = answer /\ pc' \in {"race", "done"}
<1>1. resolved' = (IF pc = "both" THEN answer ELSE [resolved EXCEPT !["ipv4"] = answer["ipv4"]])
  BY DEF LookupsAnswered, Resolve
<1>2. CASE pc = "both"
  BY <1>1, <1>2 DEF LookupsAnswered, Resolve, Return
<1>3. CASE pc = "ipv4"
  <2>1. resolved' = [resolved EXCEPT !["ipv4"] = answer["ipv4"]]
    BY <1>1, <1>3
  <2>2. [resolved EXCEPT !["ipv4"] = answer["ipv4"]] = answer
    BY <1>3 DEF ResolvedInv, Answers
  <2> QED
    BY <2>1, <2>2 DEF LookupsAnswered, Resolve, Return
<1> QED
  BY <1>2, <1>3 DEF LookupsAnswered

LEMMA LookupsTimeOutResolves ==
    ASSUME ResolvedInv, LookupsTimeOut
    PROVE  resolved' = resolved /\ answer' = answer /\ ~Answered /\ pc' \in {"race", "done"}
BY DEF LookupsTimeOut, Resolve, Return

LEMMA InitResolved == Init => ResolvedInv
BY DEF Init, ResolvedInv, Answers, Active, Resolving

LEMMA NextResolved == ResolvedInv /\ [Next]_vars => ResolvedInv'
<1> SUFFICES ASSUME ResolvedInv, [Next]_vars PROVE ResolvedInv'
  OBVIOUS
<1>1. CASE UNCHANGED <<answer, resolved>> /\ pc' \in {pc, "done", "dropped"}
  BY <1>1 DEF ResolvedInv
<1>2. CASE Ipv6Answered
  <2>1. resolved' = [resolved EXCEPT !["ipv6"] = answer["ipv6"]] /\ answer' = answer /\ pc' = "ipv4"
    BY <1>2 DEF Ipv6Answered, AwaitLookups
  <2> QED
    BY <2>1 DEF ResolvedInv, Answers, Active, Resolving
<1>3. CASE DelayExpires
  BY <1>3 DEF DelayExpires, AwaitLookups, ResolvedInv, Active, Resolving
<1>4. CASE LookupsAnswered
  BY <1>4, LookupsAnsweredResolves DEF ResolvedInv, Answers, Active, Resolving
<1>5. CASE LookupsTimeOut
  BY <1>5, LookupsTimeOutResolves DEF ResolvedInv, Answers, Active, Resolving
<1>6. CASE Environment
  BY <1>1, <1>6 DEF Environment, LookupAnswers, AttemptEnds, Tick, Drop, lookupVars
<1>7. CASE TakeSuccess \/ TakeFailure \/ AttemptTimesOut \/ StartNext \/ GiveUp
  BY <1>1, <1>7 DEF TakeSuccess, TakeFailure, AttemptTimesOut, TakeError, StartNext, GiveUp,
                    Return, lookupVars
<1>8. CASE Terminated \/ UNCHANGED vars
  BY <1>1, <1>8 DEF Terminated, vars, lookupVars
<1> QED
  BY <1>2, <1>3, <1>4, <1>5, <1>6, <1>7, <1>8 DEF Next, Connector

LEMMA ResolvedInvariant == Spec => []ResolvedInv
BY InitResolved, NextResolved, PTL DEF Spec

\* Answers that are in time are kept, whatever the other lookup does: the AAAA
\* answer is in `resolved` while the A lookup is awaited alone
\* (happy_eyeballs.rs:446-509).
THEOREM AnswersKeptTheorem == Spec => AnswersKept
<1> DEFINE Kept ==
      (pc \in {"both", "ipv4"} /\ pc' \in {"race", "done"}) =>
          /\ Answered => resolved' = answer
          /\ pc = "ipv4" => resolved'["ipv6"] = answer["ipv6"]
<1>1. ResolvedInv /\ [Next]_vars => [Kept]_vars
  <2> SUFFICES ASSUME ResolvedInv, [Next]_vars,
                      pc \in {"both", "ipv4"}, pc' \in {"race", "done"}
               PROVE  /\ Answered => resolved' = answer
                      /\ pc = "ipv4" => resolved'["ipv6"] = answer["ipv6"]
    OBVIOUS
  <2>1. CASE LookupsAnswered
    BY <2>1, LookupsAnsweredResolves
  <2>2. CASE LookupsTimeOut
    BY <2>2, LookupsTimeOutResolves DEF ResolvedInv
  <2>3. CASE Environment
    BY <2>3 DEF Environment, LookupAnswers, AttemptEnds, Tick, Drop
  <2>4. CASE Ipv6Answered \/ DelayExpires
    BY <2>4 DEF Ipv6Answered, DelayExpires
  <2>5. CASE TakeSuccess \/ TakeFailure \/ AttemptTimesOut \/ StartNext \/ GiveUp
    BY <2>5 DEF TakeSuccess, TakeFailure, AttemptTimesOut, TakeError, StartNext, GiveUp
  <2>6. CASE Terminated \/ UNCHANGED vars
    BY <2>6 DEF Terminated, vars
  <2> QED
    BY <2>1, <2>2, <2>3, <2>4, <2>5, <2>6 DEF Next, Connector
<1>2. Spec => [][Kept]_vars
  BY <1>1, ResolvedInvariant, PTL DEF Spec
<1> QED
  BY <1>2 DEF AnswersKept

-----------------------------------------------------------------------------
(* The timer of the race and the time since the last start cover the delay *)
(* together: what a failure adds to the one it does not take from the other*)

StaggerInv ==
    /\ pc \in Active \cup {"done", "dropped"}
    /\ since \in 0..(AttemptDelay + 1)
    /\ sleep \in 0..(ResolutionDelay + FirstFamilyTimeout + AttemptDelay)
    /\ pc \in Resolving => tried = <<>>
    /\ pc = "race" => since + sleep >= AttemptDelay

LEMMA InitStagger == Init => StaggerInv
BY Delays DEF Init, StaggerInv, Active, Resolving

\* The two ways out of the lookups.
LEMMA ResolveStagger ==
    ASSUME StaggerInv, pc \in Resolving, NEW r, Resolve(r)
    PROVE  StaggerInv'
<1>1. CASE Remaining(r)
  BY <1>1, Delays DEF Resolve, Start, StaggerInv, Active, Resolving
<1>2. CASE ~Remaining(r)
  BY <1>2, Delays DEF Resolve, Return, StaggerInv, Active, Resolving
<1> QED
  BY <1>1, <1>2

LEMMA TickStagger ==
    ASSUME StaggerInv, Tick
    PROVE  StaggerInv'
<1>1. /\ sleep' \in Nat /\ sleep' <= sleep /\ sleep' >= sleep - 1
      /\ UNCHANGED <<pc, tried>>
  BY LessType, Delays DEF Tick, StaggerInv
<1>2. CASE since > AttemptDelay
  BY <1>1, <1>2, Delays DEF Tick, StaggerInv
<1>3. CASE ~(since > AttemptDelay)
  BY <1>1, <1>3, Delays DEF Tick, StaggerInv
<1> QED
  BY <1>2, <1>3

LEMMA NextStagger == StaggerInv /\ [Next]_vars => StaggerInv'
<1> SUFFICES ASSUME StaggerInv, [Next]_vars PROVE StaggerInv'
  OBVIOUS
<1>1. CASE UNCHANGED <<tried, since, sleep>> /\ pc' \in {pc, "done", "dropped"}
  BY <1>1 DEF StaggerInv, Resolving
<1>2. CASE Tick
  BY <1>2, TickStagger
<1>3. CASE Ipv6Answered \/ DelayExpires
  BY <1>3, Delays DEF Ipv6Answered, DelayExpires, AwaitLookups, raceVars, StaggerInv, Active, Resolving
<1>4. CASE LookupsAnswered \/ LookupsTimeOut
  BY <1>4, ResolveStagger DEF LookupsAnswered, LookupsTimeOut, Resolving
<1>5. CASE TakeFailure \/ AttemptTimesOut
  BY <1>5, Delays DEF TakeFailure, AttemptTimesOut, TakeError, StaggerInv, Active, Resolving
<1>6. CASE StartNext
  BY <1>6, Delays DEF StartNext, Start, StaggerInv, Active, Resolving
<1>7. CASE TakeSuccess \/ GiveUp
  BY <1>1, <1>7 DEF TakeSuccess, GiveUp, Return
<1>8. CASE (\E f \in Families : LookupAnswers(f)) \/ (\E a \in Address : AttemptEnds(a)) \/ Drop
  BY <1>1, <1>8 DEF LookupAnswers, AttemptEnds, Drop, raceVars
<1>9. CASE Terminated \/ UNCHANGED vars
  BY <1>1, <1>9 DEF Terminated, vars, raceVars
<1> QED
  BY <1>2, <1>3, <1>4, <1>5, <1>6, <1>7, <1>8, <1>9 DEF Next, Environment, Connector

LEMMA StaggerInvariant == Spec => []StaggerInv
BY InitStagger, NextStagger, PTL DEF Spec

\* No two attempts start within connection_attempt_delay, however many fail in
\* between and however late the task is polled (happy_eyeballs.rs:24-27, 567-580).
THEOREM StaggeredTheorem == Spec => Staggered
<1> DEFINE Apart == (tried # <<>> /\ tried' # tried) => since >= AttemptDelay
<1>1. StaggerInv /\ [Next]_vars => [Apart]_vars
  <2> SUFFICES ASSUME StaggerInv, [Next]_vars, tried # <<>>, tried' # tried
               PROVE  since >= AttemptDelay
    OBVIOUS
  <2>1. CASE StartNext
    BY <2>1, Delays DEF StartNext, StaggerInv
  <2>2. CASE Ipv6Answered \/ DelayExpires \/ LookupsAnswered \/ LookupsTimeOut
    BY <2>2 DEF Ipv6Answered, DelayExpires, LookupsAnswered, LookupsTimeOut, StaggerInv, Resolving
  <2>3. CASE TakeSuccess \/ TakeFailure \/ AttemptTimesOut \/ GiveUp
    BY <2>3 DEF TakeSuccess, TakeFailure, AttemptTimesOut, TakeError, GiveUp
  <2>4. CASE Environment
    BY <2>4 DEF Environment, LookupAnswers, AttemptEnds, Tick, Drop, raceVars
  <2>5. CASE Terminated \/ UNCHANGED vars
    BY <2>5 DEF Terminated, vars, raceVars
  <2> QED
    BY <2>1, <2>2, <2>3, <2>4, <2>5 DEF Next, Connector
<1>2. Spec => [][Apart]_vars
  BY <1>1, StaggerInvariant, PTL DEF Spec
<1> QED
  BY <1>2 DEF Staggered

-----------------------------------------------------------------------------
(* The types.  They are inductive with the two invariants above, and with  *)
(* `tried` being a sequence: of what does not matter.                      *)

RaceType ==
    /\ futures \subseteq Elements(tried)
    /\ outcome \in [Address -> Outcomes]
    /\ timer \in [Address -> 0..ConnectTimeout]
    /\ \A a \in Address \ futures : timer[a] = 0
    /\ errors \in Seq(ConnectKinds)

RestType ==
    /\ lookup \in [Families -> {"unsent", "pending", "answered"}]
    /\ result.variant \in {"none", "Ok", "NoAddressesResolved", "AllAttemptsFailed"}

IsSequence(s) == \E S : s \in Seq(S)

TypeInv == ResolvedInv /\ StaggerInv /\ RaceType /\ RestType /\ IsSequence(tried)

LEMMA ImpliesTypeOK == TypeInv => TypeOK
<1> SUFFICES ASSUME TypeInv PROVE TypeOK
  OBVIOUS
<1>1. \A f \in Families : resolved[f] \in {<<>>, answer[f]}
  BY DEF TypeInv, ResolvedInv, Answers, Families
<1> QED
  BY <1>1 DEF TypeInv, RaceType, RestType, StaggerInv, TypeOK

\* An attempt is added at the end of `tried`.
LEMMA Appended ==
    ASSUME NEW s, IsSequence(s), NEW x
    PROVE  /\ IsSequence(Append(s, x))
           /\ Elements(s) \cup {x} \subseteq Elements(Append(s, x))
<1>1. PICK S : s \in Seq(S)
  BY DEF IsSequence
<1>2. s \in Seq(S \cup {x})
  BY <1>1
<1>3. /\ Append(s, x) \in Seq(S \cup {x})
      /\ Len(Append(s, x)) = Len(s) + 1 /\ Len(s) \in Nat
      /\ \A i \in 1..Len(s) : Append(s, x)[i] = s[i]
      /\ Append(s, x)[Len(s) + 1] = x
  BY <1>2
<1>4. \A i \in 1..Len(s) : i \in 1..Len(Append(s, x))
  BY <1>3
<1>5. Len(s) + 1 \in 1..Len(Append(s, x))
  BY <1>3
<1> QED
  BY <1>3, <1>4, <1>5 DEF Elements, IsSequence

LEMMA InitType == Init => TypeInv
<1> SUFFICES ASSUME Init PROVE TypeInv
  OBVIOUS
<1>1. ResolvedInv /\ StaggerInv
  BY InitResolved, InitStagger
<1>2. RaceType
  BY Delays DEF Init, RaceType, Outcomes
<1>3. RestType
  BY DEF Init, RestType, Families, NoResult
<1>4. IsSequence(tried)
  <2>1. <<>> \in Seq({})
    OBVIOUS
  <2> QED
    BY <2>1 DEF Init, IsSequence
<1> QED
  BY <1>1, <1>2, <1>3, <1>4 DEF TypeInv

\* An update keeps the range of a function, in or out of its domain.
LEMMA Updated ==
    ASSUME NEW T, NEW f \in [Address -> T], NEW a, NEW t \in T
    PROVE  [f EXCEPT ![a] = t] \in [Address -> T]
OBVIOUS

\* A start, wherever the address comes from.
LEMMA StartType ==
    ASSUME RaceType, IsSequence(tried), NEW it, Start(it), UNCHANGED errors
    PROVE  RaceType' /\ IsSequence(tried')
<1> DEFINE x == NextAddress(it).address
<1>1. /\ futures' = futures \cup {x}
      /\ outcome' = [outcome EXCEPT ![x] = "pending"]
      /\ timer' = [timer EXCEPT ![x] = ConnectTimeout]
      /\ tried' = Append(tried, x)
  BY DEF Start
<1> HIDE DEF x
<1>2. IsSequence(tried') /\ Elements(tried) \cup {x} \subseteq Elements(tried')
  BY <1>1, Appended
<1>3. futures' \subseteq Elements(tried')
  BY <1>1, <1>2 DEF RaceType
<1>4. outcome' \in [Address -> Outcomes]
  BY <1>1 DEF RaceType, Outcomes
<1>5. timer' \in [Address -> 0..ConnectTimeout]
  <2>1. ConnectTimeout \in 0..ConnectTimeout
    BY Delays
  <2> QED
    BY <1>1, <2>1, Updated DEF RaceType
<1>6. \A a \in Address \ futures' : timer'[a] = 0
  BY <1>1 DEF RaceType
<1> QED
  BY <1>2, <1>3, <1>4, <1>5, <1>6 DEF RaceType, Elements

LEMMA ReturnType ==
    ASSUME RaceType, NEW r, Return(r), UNCHANGED <<outcome, errors, tried>>
    PROVE  RaceType'
<1>1. futures' = {} /\ timer' = [a \in Address |-> 0]
  BY DEF Return
<1> QED
  BY <1>1, Delays DEF RaceType

LEMMA ResolveType ==
    ASSUME RaceType, RestType, IsSequence(tried), NEW r, Resolve(r), UNCHANGED lookup
    PROVE  RaceType' /\ RestType' /\ IsSequence(tried')
<1>1. CASE Remaining(r)
  <2>1. Start(Interleave(r)) /\ UNCHANGED <<errors, result>>
    BY <1>1 DEF Resolve
  <2> QED
    BY <2>1, StartType DEF RestType
<1>2. CASE ~Remaining(r)
  <2>1. Return(NoAddressesResolved) /\ UNCHANGED <<outcome, errors, tried>>
    BY <1>2 DEF Resolve
  <2>2. result'.variant = "NoAddressesResolved"
    BY <2>1 DEF Return, NoAddressesResolved
  <2> QED
    BY <2>1, <2>2, ReturnType DEF RestType
<1> QED
  BY <1>1, <1>2

\* A failure that is taken.
LEMMA TakeErrorType ==
    ASSUME RaceType, RestType, NEW a, NEW kind \in ConnectKinds \cap Outcomes, TakeError(a, kind)
    PROVE  RaceType' /\ RestType' /\ tried' = tried
<1>1. errors' \in Seq(ConnectKinds)
  BY DEF RaceType, TakeError
<1>2. outcome' \in [Address -> Outcomes]
  BY DEF RaceType, TakeError
<1>3. timer' \in [Address -> 0..ConnectTimeout]
  <2>1. 0 \in 0..ConnectTimeout
    BY Delays
  <2> QED
    BY <2>1, Updated DEF RaceType, TakeError
<1>4. \A b \in Address \ futures' : timer'[b] = 0
  BY DEF RaceType, TakeError
<1> QED
  BY <1>1, <1>2, <1>3, <1>4 DEF RaceType, RestType, TakeError, lookupVars

LEMMA EnvironmentType ==
    ASSUME RaceType, RestType, Environment
    PROVE  RaceType' /\ RestType' /\ tried' = tried
<1>1. ASSUME NEW f \in Families, LookupAnswers(f) PROVE RaceType' /\ RestType' /\ tried' = tried
  BY <1>1 DEF LookupAnswers, raceVars, RaceType, RestType
<1>2. ASSUME NEW a \in Address, AttemptEnds(a) PROVE RaceType' /\ RestType' /\ tried' = tried
  BY <1>2 DEF AttemptEnds, raceVars, lookupVars, RaceType, RestType, Outcomes
<1>3. CASE Tick
  <2>1. timer' = [a \in Address |-> Less(timer[a])] /\ UNCHANGED <<futures, outcome, errors, tried>>
    BY <1>3 DEF Tick
  <2>2. \A a \in Address : timer[a] \in 0..ConnectTimeout
    BY DEF RaceType
  <2>3. \A a \in Address : Less(timer[a]) \in 0..ConnectTimeout /\ (timer[a] = 0 => Less(timer[a]) = 0)
    BY <2>2, Delays DEF Less
  <2>4. timer' \in [Address -> 0..ConnectTimeout] /\ \A a \in Address \ futures' : timer'[a] = 0
    BY <2>1, <2>3 DEF RaceType
  <2> QED
    BY <1>3, <2>1, <2>4 DEF Tick, RaceType, RestType, lookupVars
<1>4. CASE Drop
  BY <1>4, Delays DEF Drop, RaceType, RestType, lookupVars
<1> QED
  BY <1>1, <1>2, <1>3, <1>4 DEF Environment

LEMMA NextType == TypeInv /\ [Next]_vars => TypeInv'
<1> SUFFICES ASSUME TypeInv, [Next]_vars PROVE TypeInv'
  OBVIOUS
<1> USE DEF TypeInv
<1> SUFFICES RaceType' /\ RestType' /\ IsSequence(tried')
  BY NextResolved, NextStagger
<1>1. CASE Environment
  BY <1>1, EnvironmentType
<1>2. CASE Ipv6Answered \/ DelayExpires
  BY <1>2 DEF Ipv6Answered, DelayExpires, AwaitLookups, raceVars, RaceType, RestType, Families
<1>3. CASE LookupsAnswered \/ LookupsTimeOut
  BY <1>3, ResolveType DEF LookupsAnswered, LookupsTimeOut
<1>4. CASE TakeSuccess \/ GiveUp
  <2>1. /\ Return(Connected) \/ Return(AllAttemptsFailed)
        /\ UNCHANGED <<lookup, outcome, errors, tried>>
    BY <1>4 DEF TakeSuccess, GiveUp, lookupVars
  <2>2. result'.variant \in {"Ok", "AllAttemptsFailed"}
    BY <2>1 DEF Return, Connected, AllAttemptsFailed
  <2>3. RaceType'
    BY <2>1, ReturnType
  <2> QED
    BY <2>1, <2>2, <2>3 DEF RestType
<1>5. CASE TakeFailure
  <2>1. PICK a \in futures : outcome[a] \in AttemptKinds /\ TakeError(a, outcome[a])
    BY <1>5 DEF TakeFailure
  <2>2. outcome[a] \in ConnectKinds \cap Outcomes
    BY <2>1, Kinds DEF Outcomes
  <2> QED
    BY <2>1, <2>2, TakeErrorType
<1>6. CASE AttemptTimesOut
  <2>1. PICK a \in futures : TakeError(a, "TimedOut")
    BY <1>6 DEF AttemptTimesOut
  <2>2. "TimedOut" \in ConnectKinds \cap Outcomes
    BY Kinds DEF Outcomes
  <2> QED
    BY <2>1, <2>2, TakeErrorType
<1>7. CASE StartNext
  <2>1. Start(addrs) /\ UNCHANGED <<errors, lookup, result>>
    BY <1>7 DEF StartNext, lookupVars
  <2> QED
    BY <2>1, StartType DEF RestType
<1>8. CASE Terminated \/ UNCHANGED vars
  BY <1>8 DEF Terminated, vars, lookupVars, raceVars, RaceType, RestType
<1> QED
  BY <1>1, <1>2, <1>3, <1>4, <1>5, <1>6, <1>7, <1>8 DEF Next, Connector

\* The types hold in every reachable state: an address that is not in flight
\* has no timer left that could fire, whatever order attempts end in, and what
\* was resolved is a whole answer or nothing (happy_eyeballs.rs:446-596).
THEOREM TypeTheorem == Spec => []TypeOK
<1>1. Spec => []TypeInv
  BY InitType, NextType, PTL DEF Spec
<1> QED
  BY <1>1, ImpliesTypeOK, PTL

-----------------------------------------------------------------------------
(* The sort.  Before is a strict total order of the positions, so that each *)
(* position has a place of its own, and every place is taken.              *)

Key(a) == SortKey[a.class]

Sortable(s) ==
    /\ s \in Seq(Elements(s))
    /\ \A a \in Elements(s) : a.class \in DOMAIN SortKey
    /\ \A i, j \in 1..Len(s) : s[i] = s[j] => i = j

LEMMA Interval ==
    ASSUME NEW n \in Nat
    PROVE  IsFiniteSet(1..n) /\ Cardinality(1..n) = n
<1>1. 1 \in Int /\ n \in Int
  OBVIOUS
<1>2. IsFiniteSet(1..n) /\ Cardinality(1..n) = IF 1 > n THEN 0 ELSE n - 1 + 1
  BY <1>1, FS_Interval, Zenon
<1> QED
  BY <1>2

LEMMA Keys == \A c \in DOMAIN SortKey : SortKey[c] \in Nat
BY DEF SortKey

LEMMA SortableKeys ==
    ASSUME NEW s, Sortable(s)
    PROVE  Len(s) \in Nat /\ \A i \in 1..Len(s) : Key(s[i]) \in Nat
<1>1. Len(s) \in Nat
  BY DEF Sortable
<1>2. \A i \in 1..Len(s) : s[i].class \in DOMAIN SortKey
  BY DEF Sortable, Elements
<1> QED
  BY <1>1, <1>2, Keys DEF Key

LEMMA BeforeOrders ==
    ASSUME NEW s, Sortable(s)
    PROVE  \A i, j \in 1..Len(s) :
             /\ ~Before(s, i, i)
             /\ i # j => Before(s, i, j) \/ Before(s, j, i)
             /\ \A k \in 1..Len(s) : Before(s, i, j) /\ Before(s, j, k) => Before(s, i, k)
<1>1. Len(s) \in Nat /\ \A i \in 1..Len(s) : Key(s[i]) \in Nat
  BY SortableKeys
<1>2. \A i, j \in 1..Len(s) :
        Before(s, i, j) <=> (Key(s[i]) < Key(s[j]) \/ (Key(s[i]) = Key(s[j]) /\ i < j))
  BY DEF Before, Key
<1> QED
  BY <1>1, <1>2

LEMMA Places ==
    ASSUME NEW s, Sortable(s)
    PROVE  /\ \A i \in 1..Len(s) : Place(s, i) \in 1..Len(s)
           /\ \A i, j \in 1..Len(s) : Before(s, i, j) => Place(s, i) < Place(s, j)
<1> DEFINE n == Len(s)
           D(i) == {j \in 1..n : Before(s, j, i)}
<1>1. n \in Nat
  BY SortableKeys
<1>2. IsFiniteSet(1..n) /\ Cardinality(1..n) = n
  BY <1>1, Interval
<1>3. \A i \in 1..n : Place(s, i) = Cardinality(D(i)) + 1
  BY DEF Place
<1>4. \A i \in 1..n : i \notin D(i) /\ D(i) \in SUBSET (1..n)
  BY BeforeOrders
<1>5. \A i, j \in 1..n : Before(s, i, j) => (D(i) \in SUBSET D(j) /\ i \in D(j))
  BY BeforeOrders
<1> HIDE DEF n, D
<1>6. \A i \in 1..n : /\ IsFiniteSet(D(i)) /\ Cardinality(D(i)) \in Nat
                      /\ Cardinality(D(i)) < n
  <2> SUFFICES ASSUME NEW i \in 1..n
               PROVE  IsFiniteSet(D(i)) /\ Cardinality(D(i)) \in Nat /\ Cardinality(D(i)) < n
    OBVIOUS
  <2>1. IsFiniteSet(D(i)) /\ Cardinality(D(i)) <= n /\ Cardinality(D(i)) # n
    BY <1>2, <1>4, FS_Subset
  <2>2. Cardinality(D(i)) \in Nat
    BY <2>1, FS_CardinalityType
  <2> QED
    BY <1>1, <2>1, <2>2
<1>7. \A i, j \in 1..n : Before(s, i, j) => Cardinality(D(i)) < Cardinality(D(j))
  <2> SUFFICES ASSUME NEW i \in 1..n, NEW j \in 1..n, Before(s, i, j)
               PROVE  Cardinality(D(i)) < Cardinality(D(j))
    OBVIOUS
  <2>1. D(i) \in SUBSET D(j) /\ D(i) # D(j)
    BY <1>4, <1>5
  <2>2. Cardinality(D(i)) <= Cardinality(D(j)) /\ Cardinality(D(i)) # Cardinality(D(j))
    BY <1>6, <2>1, FS_Subset
  <2> QED
    BY <1>6, <2>2
<1>8. /\ \A i \in 1..n : Place(s, i) \in 1..n
      /\ \A i, j \in 1..n : Before(s, i, j) => Place(s, i) < Place(s, j)
  BY <1>1, <1>3, <1>6, <1>7
<1> QED
  BY <1>8 DEF n

LEMMA EveryPlaceTaken ==
    ASSUME NEW s, Sortable(s)
    PROVE  \A k \in 1..Len(s) : \E i \in 1..Len(s) : Place(s, i) = k
<1> DEFINE n == Len(s)
           p == [i \in 1..n |-> Place(s, i)]
<1>1. n \in Nat
  BY SortableKeys
<1>2. IsFiniteSet(1..n) /\ Cardinality(1..n) = n
  BY <1>1, Interval
<1>3. p \in [1..n -> 1..n]
  BY Places
<1>4. \A i, j \in 1..n : p[i] = p[j] => i = j
  <2> SUFFICES ASSUME NEW i \in 1..n, NEW j \in 1..n, i # j PROVE p[i] # p[j]
    OBVIOUS
  <2>1. Before(s, i, j) \/ Before(s, j, i)
    BY BeforeOrders
  <2>2. Place(s, i) < Place(s, j) \/ Place(s, j) < Place(s, i)
    BY <2>1, Places
  <2>3. Place(s, i) \in Nat /\ Place(s, j) \in Nat
    BY <1>1, Places
  <2> QED
    BY <2>2, <2>3
<1>5. p \in Injection(1..n, 1..n)
  BY <1>3, <1>4 DEF Injection, IsInjective
<1>6. p \in Surjection(1..n, 1..n)
  BY <1>2, <1>5, FS_Injection
<1> QED
  BY <1>6 DEF Surjection

\* The sort permutes the addresses, and puts the lower keys first.
LEMMA SortSorts ==
    ASSUME NEW s, Sortable(s)
    PROVE  LET t == SortedByPreference(s) IN
             /\ Elements(t) = Elements(s)
             /\ Sortable(t)
             /\ Len(t) = Len(s)
             /\ \A k, l \in 1..Len(t) : k < l => Key(t[k]) <= Key(t[l])
<1> DEFINE n == Len(s)
           at(k) == CHOOSE i \in 1..n : Place(s, i) = k
           t == SortedByPreference(s)
<1>1. n \in Nat /\ \A i \in 1..n : Key(s[i]) \in Nat
  BY SortableKeys
<1>2. \A k \in 1..n : at(k) \in 1..n /\ Place(s, at(k)) = k
  BY EveryPlaceTaken
<1>3. t = [k \in 1..n |-> s[at(k)]]
  BY DEF SortedByPreference
<1> HIDE DEF at, t
<1>4. \A i, j \in 1..n : Place(s, i) = Place(s, j) => i = j
  <2> SUFFICES ASSUME NEW i \in 1..n, NEW j \in 1..n, i # j PROVE Place(s, i) # Place(s, j)
    OBVIOUS
  <2>1. Place(s, i) < Place(s, j) \/ Place(s, j) < Place(s, i)
    BY BeforeOrders, Places
  <2>2. Place(s, i) \in 1..n /\ Place(s, j) \in 1..n
    BY Places
  <2> QED
    BY <1>1, <2>1, <2>2
<1>5. \A i \in 1..n : Place(s, i) \in 1..n /\ at(Place(s, i)) = i
  BY <1>2, <1>4, Places
<1>6. \A i \in 1..n : s[i] \in Elements(s)
  BY DEF Elements
<1>7. t \in Seq(Elements(s)) /\ Len(t) = n /\ \A k \in 1..n : t[k] = s[at(k)]
  <2>1. t \in [1..n -> Elements(s)]
    BY <1>2, <1>3, <1>6
  <2> QED
    BY <1>1, <1>3, <2>1
<1>8. Elements(t) = Elements(s)
  <2>1. Elements(t) \subseteq Elements(s)
    BY <1>2, <1>6, <1>7 DEF Elements
  <2>2. \A i \in 1..n : s[i] = t[Place(s, i)] /\ Place(s, i) \in 1..n
    BY <1>5, <1>7
  <2>3. \A i \in 1..n : \E k \in 1..Len(t) : s[i] = t[k]
    BY <1>7, <2>2
  <2>4. Elements(s) \subseteq Elements(t)
    BY <2>3 DEF Elements
  <2> QED
    BY <2>1, <2>4
<1>9. Sortable(t)
  <2>1. \A k, l \in 1..n : t[k] = t[l] => k = l
    <3> SUFFICES ASSUME NEW k \in 1..n, NEW l \in 1..n, t[k] = t[l] PROVE k = l
      OBVIOUS
    <3>1. at(k) = at(l)
      BY <1>2, <1>7 DEF Sortable
    <3> QED
      BY <1>2, <3>1
  <2> QED
    BY <1>7, <1>8, <2>1 DEF Sortable
<1>10. ASSUME NEW k \in 1..n, NEW l \in 1..n, k < l PROVE Key(t[k]) <= Key(t[l])
  <2>1. CASE Key(t[l]) < Key(t[k])
    <3>1. Before(s, at(l), at(k))
      BY <1>7, <2>1 DEF Before, Key
    <3>2. l < k
      BY <1>2, <3>1, Places
    <3> QED
      BY <1>1, <1>10, <3>2
  <2>2. Key(t[l]) \in Nat /\ Key(t[k]) \in Nat
    BY <1>1, <1>2, <1>7
  <2> QED
    BY <2>1, <2>2
<1> QED
  BY <1>7, <1>8, <1>9, <1>10 DEF t

-----------------------------------------------------------------------------
(* The order of the attempts.  What the iterator has left are the sorted   *)
(* addresses that were not tried; they come after those that were, and the *)
(* turn is that of the family that was not served last.                    *)

Sorted(s) == Sortable(s) /\ \A k, l \in 1..Len(s) : k < l => Key(s[k]) <= Key(s[l])

Iterator == [ipv6 : Seq(Address), ipv4 : Seq(Address), ipv6_turn : BOOLEAN]

\* The family served before the attempt at i, and the addresses tried before it.
Last(t, i)  == IF i = 1 THEN "ipv4" ELSE t[i - 1].family
Until(t, i) == {t[j] : j \in 1..(i - 1)}

\* The iterator `it` after the attempts `t`, out of the addresses `r`.
Left(it, r, t) ==
    /\ it \in Iterator
    /\ \A f \in Families : Sorted(it[f]) /\ Elements(it[f]) = Elements(r[f]) \ Elements(t)
    /\ it.ipv6_turn <=> Last(t, Len(t) + 1) = "ipv4"
    /\ \A i \in 1..Len(t) : \A a \in Elements(it[t[i].family]) : Key(t[i]) <= Key(a)

\* The attempts `t`, out of the addresses `r`: none twice, in order, in turns.
Attempts(r, t) ==
    /\ t \in Seq(Elements(r.ipv6) \cup Elements(r.ipv4))
    /\ \A i, j \in 1..Len(t) : t[i] = t[j] => i = j
    /\ \A i, j \in 1..Len(t) :
         (i < j /\ t[i].family = t[j].family) => Key(t[i]) <= Key(t[j])

Turns(r, t) ==
    \A i \in 1..Len(t) : t[i].family = Last(t, i) =>
        \A g \in Families \ {Last(t, i)} : Elements(r[g]) \subseteq Until(t, i)

OrderInv ==
    /\ Attempts(resolved, tried)
    /\ Turns(resolved, tried)
    /\ pc = "race" => Left(addrs, resolved, tried) /\ tried # <<>>

\* What became of them: a failure that was taken is in the report.
Accounts ==
    /\ IsFiniteSet(futures)
    /\ Len(errors) + Cardinality(futures) = Len(tried)
    /\ \A a \in Elements(tried) \ futures : outcome[a] \in ConnectKinds
    /\ Elements(errors) = {outcome[a] : a \in Elements(tried) \ futures}

Everything ==
    /\ Elements(tried) = Resolved
    /\ Len(errors) = Len(tried)
    /\ \A a \in Resolved : outcome[a] \in ConnectKinds
    /\ Elements(errors) = {outcome[a] : a \in Resolved}

AttemptsInv ==
    /\ pc \in Resolving => tried = <<>> /\ errors = <<>>
    /\ pc # "race" => futures = {}
    /\ pc = "race" => Accounts
    /\ pc # "done" => result = NoResult
    /\ pc = "done" =>
         \/ result = Connected
         \/ result = NoAddressesResolved /\ Resolved = {}
         \/ result = AllAttemptsFailed /\ Resolved # {} /\ Everything

-----------------------------------------------------------------------------
(* The iterator: what it starts from, and what a step of it leaves.        *)

Resolvable(r) == r \in [ipv6 : Ipv6Answers \cup {<<>>}, ipv4 : Ipv4Answers \cup {<<>>}]

Suits(s, f) == Sortable(s) /\ \A a \in Elements(s) : a.family = f /\ a \in Address

LEMMA EmptySuits ==
    Elements(<<>>) = {} /\ \A f : Suits(<<>>, f)
BY DEF Elements, Suits, Sortable

LEMMA AnswerSuits ==
    /\ \A s \in Ipv6Answers : Suits(s, "ipv6")
    /\ \A s \in Ipv4Answers : Suits(s, "ipv4")
<1>1. \A s \in Ipv6Answers \cup Ipv4Answers : \A a \in Elements(s) : a \in Address
  BY DEF Address
<1>2. DOMAIN SortKey = {"loopback", "unique_local", "private", "link_local", "public", "global"}
  BY DEF SortKey
<1>3. ASSUME NEW s \in Ipv6Answers PROVE Suits(s, "ipv6")
  BY <1>1, <1>2, HappyEyeballsAssumption DEF Suits, Sortable
<1>4. ASSUME NEW s \in Ipv4Answers PROVE Suits(s, "ipv4")
  BY <1>1, <1>2, HappyEyeballsAssumption DEF Suits, Sortable
<1> QED
  BY <1>3, <1>4

LEMMA ResolvableSuits ==
    ASSUME NEW r, Resolvable(r)
    PROVE  \A f \in Families : Suits(r[f], f)
BY EmptySuits, AnswerSuits DEF Resolvable, Families

LEMMA ElementsInSeq ==
    ASSUME NEW s, s \in Seq(Elements(s)), NEW T, Elements(s) \subseteq T
    PROVE  s \in Seq(T)
<1>1. s \in [1..Len(s) -> Elements(s)] /\ Len(s) \in Nat
  OBVIOUS
<1>2. s \in [1..Len(s) -> T]
  BY <1>1
<1> QED
  BY <1>1, <1>2

LEMMA SortSuits ==
    ASSUME NEW s, NEW f, Suits(s, f)
    PROVE  LET t == SortedByPreference(s) IN
             Sorted(t) /\ Elements(t) = Elements(s) /\ t \in Seq(Address)
<1> DEFINE t == SortedByPreference(s)
<1>1. Sortable(s) /\ Elements(s) \subseteq Address
  BY DEF Suits
<1>2. /\ Elements(t) = Elements(s) /\ Sortable(t)
      /\ \A k, l \in 1..Len(t) : k < l => Key(t[k]) <= Key(t[l])
  BY <1>1, SortSorts
<1> HIDE DEF t
<1>3. t \in Seq(Address)
  BY <1>1, <1>2, ElementsInSeq DEF Sortable
<1> QED
  BY <1>2, <1>3 DEF Sorted, t

LEMMA InterleaveLeaves ==
    ASSUME NEW r, Resolvable(r)
    PROVE  Left(Interleave(r), r, <<>>) /\ Attempts(r, <<>>) /\ Turns(r, <<>>)
<1> DEFINE s6 == SortedByPreference(r.ipv6)
           s4 == SortedByPreference(r.ipv4)
<1>1. /\ Sorted(s6) /\ Elements(s6) = Elements(r.ipv6) /\ s6 \in Seq(Address)
      /\ Sorted(s4) /\ Elements(s4) = Elements(r.ipv4) /\ s4 \in Seq(Address)
  BY ResolvableSuits, SortSuits DEF Families
<1> HIDE DEF s6, s4
<1>2. Interleave(r) = [ipv6 |-> s6, ipv4 |-> s4, ipv6_turn |-> TRUE]
  BY DEF Interleave, s6, s4
<1>3. Interleave(r) \in Iterator
  BY <1>1, <1>2 DEF Iterator
<1>4. \A f \in Families : /\ Sorted(Interleave(r)[f])
                          /\ Elements(Interleave(r)[f]) = Elements(r[f]) \ Elements(<<>>)
  BY <1>1, <1>2, EmptySuits DEF Families
<1>5. Interleave(r).ipv6_turn <=> Last(<<>>, Len(<<>>) + 1) = "ipv4"
  BY <1>2 DEF Last
<1>6. Left(Interleave(r), r, <<>>)
  BY <1>3, <1>4, <1>5 DEF Left
<1> QED
  BY <1>6 DEF Attempts, Turns

\* The first of the sorted addresses is the best, and the others stay sorted.
LEMMA SortedTail ==
    ASSUME NEW s, Sorted(s), s # <<>>
    PROVE  /\ Head(s) \in Elements(s)
           /\ Elements(Tail(s)) = Elements(s) \ {Head(s)}
           /\ Sorted(Tail(s))
           /\ \A a \in Elements(s) : Key(Head(s)) <= Key(a)
           /\ \A S : s \in Seq(S) => Tail(s) \in Seq(S)
<1> DEFINE n == Len(s)
           t == Tail(s)
<1>1. s \in Seq(Elements(s)) /\ n \in Nat /\ n >= 1
  BY DEF Sorted, Sortable
<1>2. /\ t \in Seq(Elements(s)) /\ Len(t) = n - 1
      /\ \A k \in 1..(n - 1) : t[k] = s[k + 1] /\ k + 1 \in 1..n
      /\ Head(s) = s[1]
  BY <1>1
<1>3. \A S : s \in Seq(S) => Tail(s) \in Seq(S)
  OBVIOUS
<1>4. /\ \A i, j \in 1..n : s[i] = s[j] => i = j
      /\ \A i, j \in 1..n : i < j => Key(s[i]) <= Key(s[j])
      /\ \A i \in 1..n : s[i] \in Elements(s)
  BY DEF Sorted, Sortable, Elements
<1> HIDE DEF t, n
<1>5. Head(s) \in Elements(s)
  BY <1>4, <1>1, <1>2
<1>6. \A a \in Elements(s) : Key(Head(s)) <= Key(a)
  <2>1. \A i \in 1..n : Key(s[1]) <= Key(s[i])
    <3>1. Key(s[1]) \in Nat
      BY <1>1, SortableKeys DEF Sorted, n
    <3> QED
      BY <1>4, <1>1, <3>1
  <2> QED
    BY <1>2, <2>1 DEF Elements, n
<1>7. Elements(t) = Elements(s) \ {Head(s)}
  <2>1. \A k \in 1..(n - 1) : t[k] \in Elements(s) /\ t[k] # s[1]
    <3> SUFFICES ASSUME NEW k \in 1..(n - 1) PROVE t[k] \in Elements(s) /\ t[k] # s[1]
      OBVIOUS
    <3>1. t[k] = s[k + 1] /\ k + 1 \in 1..n /\ 1 \in 1..n /\ k + 1 # 1
      BY <1>1, <1>2
    <3> QED
      BY <1>4, <3>1
  <2>2. \A i \in 2..n : i - 1 \in 1..(n - 1) /\ t[i - 1] = s[i]
    BY <1>1, <1>2
  <2>3. \A i \in 1..n : s[i] # s[1] => i \in 2..n
    BY <1>1
  <2>4. \A i \in 1..n : s[i] # s[1] => \E k \in 1..(n - 1) : s[i] = t[k]
    BY <2>2, <2>3
  <2>5. Elements(t) = {t[k] : k \in 1..(n - 1)}
    BY <1>2 DEF Elements
  <2>6. Elements(s) = {s[i] : i \in 1..n}
    BY DEF Elements, n
  <2>7. Elements(t) \subseteq Elements(s) \ {s[1]}
    BY <2>1, <2>5
  <2>8. Elements(s) \ {s[1]} \subseteq Elements(t)
    BY <2>4, <2>5, <2>6
  <2> QED
    BY <1>2, <2>7, <2>8
<1>8. Sorted(t)
  <2>1. t \in Seq(Elements(t))
    <3>1. t \in [1..Len(t) -> Elements(t)] /\ Len(t) \in Nat
      BY <1>1, <1>2 DEF Elements
    <3> QED
      BY <3>1
  <2>2. \A a \in Elements(t) : a.class \in DOMAIN SortKey
    BY <1>7 DEF Sorted, Sortable
  <2>3. \A i, j \in 1..(n - 1) : /\ t[i] = t[j] => i = j
                                 /\ i < j => Key(t[i]) <= Key(t[j])
    <3> SUFFICES ASSUME NEW i \in 1..(n - 1), NEW j \in 1..(n - 1)
                 PROVE  (t[i] = t[j] => i = j) /\ (i < j => Key(t[i]) <= Key(t[j]))
      OBVIOUS
    <3>1. /\ t[i] = s[i + 1] /\ i + 1 \in 1..n
          /\ t[j] = s[j + 1] /\ j + 1 \in 1..n
      BY <1>2
    <3>2. (i + 1 = j + 1 => i = j) /\ (i < j => i + 1 < j + 1)
      BY <1>1
    <3> QED
      BY <1>4, <3>1, <3>2
  <2> QED
    BY <1>2, <2>1, <2>2, <2>3 DEF Sorted, Sortable
<1> QED
  BY <1>3, <1>5, <1>6, <1>7, <1>8 DEF t

\* One family is served; the same twice in a row only when the other is empty.
LEMMA NextAddressServes ==
    ASSUME NEW it \in Iterator, Remaining(it)
    PROVE  LET next == NextAddress(it) IN
             \E f \in Families :
               /\ it[f] # <<>>
               /\ next.address = Head(it[f])
               /\ next.rest[f] = Tail(it[f])
               /\ next.rest \in Iterator
               /\ next.rest.ipv6_turn <=> f = "ipv4"
               /\ \A g \in Families \ {f} : /\ next.rest[g] = it[g]
                                            /\ (it.ipv6_turn <=> f = "ipv4") => it[g] = <<>>
<1> DEFINE next == NextAddress(it)
<1>1. it.ipv6_turn \in BOOLEAN /\ it.ipv6 \in Seq(Address) /\ it.ipv4 \in Seq(Address)
  BY DEF Iterator
<1>2. CASE it.ipv6_turn /\ it.ipv6 # <<>>
  <2>1. next.address = Head(it.ipv6) /\ next.rest = [it EXCEPT !.ipv6 = Tail(@), !.ipv6_turn = ~@]
    BY <1>2 DEF NextAddress
  <2>2. Tail(it.ipv6) \in Seq(Address)
    BY <1>1, <1>2
  <2> QED
    BY <1>1, <1>2, <2>1, <2>2 DEF Iterator, Families
<1>3. CASE it.ipv6_turn /\ it.ipv6 = <<>>
  <2>1. next.address = Head(it.ipv4) /\ next.rest = [it EXCEPT !.ipv4 = Tail(@)]
    BY <1>3 DEF NextAddress
  <2>2. it.ipv4 # <<>> /\ Tail(it.ipv4) \in Seq(Address)
    BY <1>1, <1>3 DEF Remaining
  <2> QED
    BY <1>1, <1>3, <2>1, <2>2 DEF Iterator, Families
<1>4. CASE ~it.ipv6_turn /\ it.ipv4 # <<>>
  <2>1. next.address = Head(it.ipv4) /\ next.rest = [it EXCEPT !.ipv4 = Tail(@), !.ipv6_turn = ~@]
    BY <1>4 DEF NextAddress
  <2>2. Tail(it.ipv4) \in Seq(Address)
    BY <1>1, <1>4
  <2> QED
    BY <1>1, <1>4, <2>1, <2>2 DEF Iterator, Families
<1>5. CASE ~it.ipv6_turn /\ it.ipv4 = <<>>
  <2>1. next.address = Head(it.ipv6) /\ next.rest = [it EXCEPT !.ipv6 = Tail(@)]
    BY <1>5 DEF NextAddress
  <2>2. it.ipv6 # <<>> /\ Tail(it.ipv6) \in Seq(Address)
    BY <1>1, <1>5 DEF Remaining
  <2> QED
    BY <1>1, <1>5, <2>1, <2>2 DEF Iterator, Families
<1> QED
  BY <1>1, <1>2, <1>3, <1>4, <1>5

LEMMA AppendedAt ==
    ASSUME NEW S, NEW t \in Seq(S), NEW x
    PROVE  LET u == Append(t, x) IN
             /\ Len(t) \in Nat /\ Len(u) = Len(t) + 1
             /\ \A i \in 1..Len(t) : u[i] = t[i]
             /\ u[Len(t) + 1] = x
             /\ Elements(u) = Elements(t) \cup {x}
             /\ \A T : S \subseteq T /\ x \in T => u \in Seq(T)
<1> DEFINE n == Len(t)
           u == Append(t, x)
<1>1. n \in Nat /\ Len(u) = n + 1 /\ (\A i \in 1..n : u[i] = t[i]) /\ u[n + 1] = x
  <2>1. t \in Seq(S \cup {x}) /\ x \in S \cup {x}
    BY ElementsInSeq
  <2> QED
    BY <2>1
<1>2. \A T : S \subseteq T /\ x \in T => u \in Seq(T)
  <2> SUFFICES ASSUME NEW T, S \subseteq T, x \in T PROVE u \in Seq(T)
    OBVIOUS
  <2>1. t \in Seq(T)
    OBVIOUS
  <2> QED
    BY <2>1
<1> HIDE DEF u, n
<1>3. Elements(u) = Elements(t) \cup {x}
  <2>1. \A i \in 1..(n + 1) : i \in 1..n \/ i = n + 1
    BY <1>1
  <2>2. \A i \in 1..n : i \in 1..(n + 1)
    BY <1>1
  <2>3. n + 1 \in 1..(n + 1)
    BY <1>1
  <2>4. Elements(t) = {t[i] : i \in 1..n} /\ Elements(u) = {u[i] : i \in 1..(n + 1)}
    BY <1>1 DEF Elements, n
  <2>5. Elements(u) \subseteq Elements(t) \cup {x}
    BY <1>1, <2>1, <2>4
  <2>6. Elements(t) \cup {x} \subseteq Elements(u)
    BY <1>1, <2>2, <2>3, <2>4
  <2> QED
    BY <2>5, <2>6
<1> QED
  BY <1>1, <1>2, <1>3 DEF n, u

\* An attempt that is started keeps the order, whichever family it is of.
LEMMA AttemptLeaves ==
    ASSUME NEW r, Resolvable(r), NEW it, NEW t,
           Left(it, r, t), Attempts(r, t), Turns(r, t), Remaining(it)
    PROVE  LET next == NextAddress(it)
               u    == Append(t, next.address)
           IN  /\ next.address \in Address \ Elements(t)
               /\ Elements(u) = Elements(t) \cup {next.address}
               /\ Len(t) \in Nat /\ Len(u) = Len(t) + 1
               /\ Left(next.rest, r, u) /\ Attempts(r, u) /\ Turns(r, u)
<1> DEFINE x    == NextAddress(it).address
           rest == NextAddress(it).rest
           u    == Append(t, x)
           n    == Len(t)
           all  == Elements(r.ipv6) \cup Elements(r.ipv4)
<1> HIDE DEF x, rest, u, n, all
<1>1. PICK f \in Families :
        /\ it[f] # <<>> /\ x = Head(it[f]) /\ rest[f] = Tail(it[f])
        /\ rest \in Iterator
        /\ rest.ipv6_turn <=> f = "ipv4"
        /\ \A g \in Families \ {f} : /\ rest[g] = it[g]
                                     /\ (it.ipv6_turn <=> f = "ipv4") => it[g] = <<>>
  BY NextAddressServes DEF Left, x, rest
<1>2. \A g \in Families : Sorted(it[g]) /\ Elements(it[g]) = Elements(r[g]) \ Elements(t)
  BY DEF Left
<1>3. \A g \in Families : \A a \in Elements(r[g]) : a.family = g /\ a \in Address
  BY ResolvableSuits DEF Suits
<1>4. /\ x \in Elements(it[f])
      /\ Elements(rest[f]) = Elements(it[f]) \ {x}
      /\ Sorted(rest[f])
      /\ \A a \in Elements(it[f]) : Key(x) <= Key(a)
  BY <1>1, <1>2, SortedTail
<1>5. x \in Elements(r[f]) /\ x \notin Elements(t) /\ x \in Address /\ x.family = f
  BY <1>2, <1>3, <1>4
<1>6. /\ n \in Nat /\ Len(u) = n + 1
      /\ \A i \in 1..n : u[i] = t[i]
      /\ u[n + 1] = x
      /\ Elements(u) = Elements(t) \cup {x}
      /\ \A T : all \subseteq T /\ x \in T => u \in Seq(T)
  <2>1. t \in Seq(all)
    BY DEF Attempts, all
  <2> QED
    BY <2>1, AppendedAt DEF u, n
<1>7. \A i \in 1..n : t[i] \in Elements(t) /\ t[i].family \in Families
  <2>1. \A i \in 1..n : t[i] \in all
    BY DEF Attempts, all, n
  <2>2. \A i \in 1..n : t[i] \in Elements(t)
    BY DEF Elements, n
  <2> QED
    BY <1>3, <2>1, <2>2 DEF all, Families
<1>8. \A i \in 1..(n + 1) : i \in 1..n \/ i = n + 1
  BY <1>6
<1>9. \A g \in Families : /\ Sorted(rest[g])
                          /\ Elements(rest[g]) = Elements(r[g]) \ Elements(u)
                          /\ Elements(rest[g]) \subseteq Elements(it[g])
  <2> SUFFICES ASSUME NEW g \in Families
               PROVE  /\ Sorted(rest[g])
                      /\ Elements(rest[g]) = Elements(r[g]) \ Elements(u)
                      /\ Elements(rest[g]) \subseteq Elements(it[g])
    OBVIOUS
  <2>1. CASE g = f
    <3>1. Sorted(rest[f]) /\ Elements(rest[f]) = Elements(it[f]) \ {x}
      BY <1>4
    <3>2. Elements(it[f]) = Elements(r[f]) \ Elements(t)
      BY <1>2
    <3>3. Elements(u) = Elements(t) \cup {x}
      BY <1>6
    <3> QED
      BY <2>1, <3>1, <3>2, <3>3
  <2>2. CASE g # f
    <3>1. rest[g] = it[g] /\ x \notin Elements(r[g])
      BY <1>1, <1>3, <1>5, <2>2
    <3>2. Sorted(it[g]) /\ Elements(it[g]) = Elements(r[g]) \ Elements(t)
      BY <1>2
    <3>3. Elements(u) = Elements(t) \cup {x}
      BY <1>6
    <3>4. Sorted(rest[g]) /\ Elements(rest[g]) = Elements(it[g])
      BY <3>1, <3>2
    <3>5. Elements(r[g]) \ Elements(u) = Elements(r[g]) \ Elements(t)
      BY <3>1, <3>3
    <3> QED
      BY <3>2, <3>4, <3>5
  <2> QED
    BY <2>1, <2>2
<1>10. Left(rest, r, u)
  <2>1. rest.ipv6_turn <=> Last(u, Len(u) + 1) = "ipv4"
    <3>1. Last(u, n + 2) = f
      BY <1>5, <1>6 DEF Last
    <3>2. Len(u) + 1 = n + 2
      BY <1>6
    <3> QED
      BY <1>1, <3>1, <3>2
  <2>2. ASSUME NEW i \in 1..(n + 1), NEW a \in Elements(rest[u[i].family])
        PROVE  Key(u[i]) <= Key(a)
    <3>1. CASE i \in 1..n
      <4>1. u[i] = t[i] /\ a \in Elements(it[t[i].family])
        BY <1>6, <1>7, <1>9, <2>2, <3>1
      <4> QED
        BY <3>1, <4>1 DEF Left, n
    <3>2. CASE i = n + 1
      BY <1>4, <1>5, <1>6, <2>2, <3>2
    <3> QED
      BY <1>8, <3>1, <3>2
  <2> QED
    BY <1>1, <1>6, <1>9, <2>1, <2>2 DEF Left
<1>11. Attempts(r, u)
  <2>1. u \in Seq(all)
    <3>1. x \in all
      BY <1>5 DEF all, Families
    <3> QED
      BY <1>6, <3>1
  <2>2. ASSUME NEW i \in 1..(n + 1), NEW j \in 1..(n + 1), u[i] = u[j]
        PROVE  i = j
    <3>1. CASE i \in 1..n /\ j \in 1..n
      BY <1>6, <2>2, <3>1 DEF Attempts, n
    <3>2. CASE i = n + 1 \/ j = n + 1
      BY <1>5, <1>6, <1>7, <1>8, <2>2, <3>2
    <3> QED
      BY <1>8, <3>1, <3>2
  <2>3. ASSUME NEW i \in 1..(n + 1), NEW j \in 1..(n + 1), i < j, u[i].family = u[j].family
        PROVE  Key(u[i]) <= Key(u[j])
    <3>1. i \in 1..n
      BY <1>6, <2>3
    <3>2. CASE j \in 1..n
      BY <1>6, <2>3, <3>1, <3>2 DEF Attempts, n
    <3>3. CASE j = n + 1
      <4>1. u[i] = t[i] /\ t[i].family = f
        BY <1>5, <1>6, <2>3, <3>1, <3>3
      <4>2. Key(t[i]) <= Key(x)
        BY <1>4, <3>1, <4>1 DEF Left, n
      <4> QED
        BY <1>6, <3>3, <4>1, <4>2
    <3> QED
      BY <1>8, <3>2, <3>3
  <2> QED
    BY <1>6, <2>1, <2>2, <2>3 DEF Attempts, all
<1>12. Turns(r, u)
  <2>1. \A i \in 1..(n + 1) : Last(u, i) = Last(t, i) /\ Until(u, i) = Until(t, i)
    <3> SUFFICES ASSUME NEW i \in 1..(n + 1)
                 PROVE  Last(u, i) = Last(t, i) /\ Until(u, i) = Until(t, i)
      OBVIOUS
    <3>1. i # 1 => i - 1 \in 1..n
      BY <1>6
    <3>2. \A j \in 1..(i - 1) : u[j] = t[j]
      BY <1>6
    <3>3. Last(u, i) = Last(t, i)
      BY <1>6, <3>1 DEF Last
    <3> QED
      BY <3>2, <3>3 DEF Until
  <2>2. Until(t, n + 1) = Elements(t)
    BY <1>6 DEF Until, Elements, n
  <2>3. ASSUME NEW i \in 1..(n + 1), u[i].family = Last(u, i),
               NEW g \in Families \ {Last(u, i)}
        PROVE  Elements(r[g]) \subseteq Until(u, i)
    <3>1. CASE i \in 1..n
      BY <1>6, <2>1, <2>3, <3>1 DEF Turns, n
    <3>2. CASE i = n + 1
      <4>1. f = Last(t, n + 1) /\ g \in Families \ {f}
        BY <1>5, <1>6, <2>1, <2>3, <3>2
      <4>2. it.ipv6_turn <=> f = "ipv4"
        BY <4>1 DEF Left, n
      <4>3. it[g] = <<>>
        BY <1>1, <4>1, <4>2
      <4>4. Elements(r[g]) \ Elements(t) = {}
        BY <1>2, <4>1, <4>3, EmptySuits
      <4> QED
        BY <2>1, <2>2, <3>2, <4>4
    <3> QED
      BY <1>8, <3>1, <3>2
  <2> QED
    BY <1>6, <2>3 DEF Turns
<1> QED
  BY <1>5, <1>6, <1>10, <1>11, <1>12 DEF x, u, n, rest

-----------------------------------------------------------------------------
(* The order of the attempts is kept.                                      *)

LEMMA NothingTried == \A r : Attempts(r, <<>>) /\ Turns(r, <<>>)
BY DEF Attempts, Turns

LEMMA ResolvedResolvable == ResolvedInv => Resolvable(resolved)
BY DEF ResolvedInv, Resolvable, Answers

LEMMA NextResolvable == ResolvedInv' => Resolvable(resolved')
BY DEF ResolvedInv, Resolvable, Answers

LEMMA NoElements == \A s : s \in Seq(Elements(s)) => (Elements(s) = {} <=> s = <<>>)
<1> SUFFICES ASSUME NEW s, s \in Seq(Elements(s)), s # <<>> PROVE Elements(s) # {}
  BY EmptySuits
<1>1. Len(s) \in Nat /\ Len(s) >= 1
  OBVIOUS
<1> QED
  BY <1>1 DEF Elements

\* Something is left of the iterator when something is left of the answers.
LEMMA LeftRemains ==
    ASSUME NEW it, NEW r, NEW t, Left(it, r, t)
    PROVE  Remaining(it) <=> \E f \in Families : Elements(r[f]) \ Elements(t) # {}
<1>1. \A f \in Families : it[f] # <<>> <=> Elements(r[f]) \ Elements(t) # {}
  BY NoElements DEF Left, Sorted, Sortable
<1> QED
  BY <1>1 DEF Remaining, Families

LEMMA InterleaveRemains ==
    ASSUME NEW r, Resolvable(r)
    PROVE  Remaining(Interleave(r)) <=> Remaining(r)
<1>1. \A f \in Families : r[f] # <<>> <=> Elements(r[f]) # {}
  BY ResolvableSuits, NoElements DEF Suits, Sortable
<1>2. Remaining(Interleave(r)) <=> \E f \in Families : Elements(r[f]) \ Elements(<<>>) # {}
  BY InterleaveLeaves, LeftRemains
<1> QED
  BY <1>1, <1>2, EmptySuits DEF Remaining, Families

\* What Start does to `tried`, from the iterator `it`.
LEMMA StartOrder ==
    ASSUME NEW it, Start(it), Remaining(it), Resolvable(resolved'),
           Left(it, resolved', tried), Attempts(resolved', tried), Turns(resolved', tried)
    PROVE  /\ OrderInv'
           /\ \E x \in Address \ Elements(tried) :
                /\ futures' = futures \cup {x}
                /\ outcome' = [outcome EXCEPT ![x] = "pending"]
                /\ Elements(tried') = Elements(tried) \cup {x}
                /\ Len(tried') = Len(tried) + 1
<1> DEFINE next == NextAddress(it)
<1>1. /\ addrs' = next.rest
      /\ futures' = futures \cup {next.address}
      /\ outcome' = [outcome EXCEPT ![next.address] = "pending"]
      /\ tried' = Append(tried, next.address)
  BY DEF Start
<1>2. /\ next.address \in Address \ Elements(tried)
      /\ Elements(tried') = Elements(tried) \cup {next.address}
      /\ Len(tried) \in Nat /\ Len(tried') = Len(tried) + 1
      /\ Left(addrs', resolved', tried') /\ Attempts(resolved', tried') /\ Turns(resolved', tried')
  BY <1>1, AttemptLeaves
<1> HIDE DEF next
<1>3. tried' # <<>>
  BY <1>2
<1>4. OrderInv'
  BY <1>2, <1>3 DEF OrderInv
<1> QED
  BY <1>1, <1>2, <1>4

\* The start of the race, from nothing tried.
LEMMA ResolveOrder ==
    ASSUME NEW r, Resolve(r), Resolvable(r), tried = <<>>, Remaining(r)
    PROVE  /\ Start(Interleave(r)) /\ Remaining(Interleave(r)) /\ resolved' = r
           /\ Left(Interleave(r), r, tried) /\ Attempts(r, tried) /\ Turns(r, tried)
BY InterleaveLeaves, InterleaveRemains DEF Resolve

LEMMA NextOrder == TypeInv /\ TypeInv' /\ OrderInv /\ [Next]_vars => OrderInv'
<1> SUFFICES ASSUME TypeInv, TypeInv', OrderInv, [Next]_vars PROVE OrderInv'
  OBVIOUS
<1>1. Resolvable(resolved) /\ Resolvable(resolved')
  BY ResolvedResolvable, NextResolvable DEF TypeInv
<1>2. CASE UNCHANGED <<resolved, tried, addrs>> /\ (pc' = "race" => pc = "race")
  BY <1>2 DEF OrderInv
<1>3. CASE Ipv6Answered \/ DelayExpires
  <2>1. pc \in Resolving /\ pc' # "race" /\ tried' = tried
    BY <1>3 DEF Ipv6Answered, DelayExpires, AwaitLookups, raceVars, Resolving
  <2>2. tried' = <<>>
    BY <2>1 DEF TypeInv, StaggerInv
  <2> QED
    BY <2>1, <2>2, NothingTried DEF OrderInv
<1>4. ASSUME NEW r, Resolve(r), pc \in Resolving PROVE OrderInv'
  <2>1. tried = <<>> /\ resolved' = r
    BY <1>4 DEF TypeInv, StaggerInv, Resolve
  <2>2. CASE Remaining(r)
    BY <1>1, <1>4, <2>1, <2>2, ResolveOrder, StartOrder
  <2>3. CASE ~Remaining(r)
    <3>1. pc' = "done" /\ tried' = <<>>
      BY <1>4, <2>1, <2>3 DEF Resolve, Return
    <3> QED
      BY <3>1, NothingTried DEF OrderInv
  <2> QED
    BY <2>2, <2>3
<1>5. CASE LookupsAnswered \/ LookupsTimeOut
  BY <1>4, <1>5 DEF LookupsAnswered, LookupsTimeOut, Resolving
<1>6. CASE StartNext
  <2>1. Start(addrs) /\ Remaining(addrs) /\ pc = "race" /\ resolved' = resolved
    BY <1>6 DEF StartNext, lookupVars
  <2> QED
    BY <1>1, <2>1, StartOrder DEF OrderInv
<1>7. CASE Environment
  BY <1>2, <1>7 DEF Environment, LookupAnswers, AttemptEnds, Tick, Drop, lookupVars, raceVars
<1>8. CASE TakeSuccess \/ TakeFailure \/ AttemptTimesOut \/ GiveUp
  BY <1>2, <1>8 DEF TakeSuccess, TakeFailure, AttemptTimesOut, TakeError, GiveUp, Return, lookupVars
<1>9. CASE Terminated \/ UNCHANGED vars
  BY <1>2, <1>9 DEF Terminated, vars, lookupVars, raceVars
<1> QED
  BY <1>3, <1>5, <1>6, <1>7, <1>8, <1>9 DEF Next, Connector

-----------------------------------------------------------------------------
(* The account of the attempts is kept.                                    *)

LEMMA TriedAddresses ==
    ASSUME ResolvedInv, OrderInv
    PROVE  /\ Elements(tried) \subseteq Resolved
           /\ Resolved \subseteq Address
           /\ Len(tried) \in Nat
<1>1. tried \in Seq(Resolved)
  BY DEF OrderInv, Attempts, Resolved
<1>2. \A f \in Families : Elements(resolved[f]) \subseteq Address
  BY ResolvedResolvable, ResolvableSuits DEF Suits
<1> QED
  BY <1>1, <1>2 DEF Elements, Resolved, Families

LEMMA StartAccounts ==
    ASSUME RaceType, Accounts, Len(tried) \in Nat, UNCHANGED errors,
           NEW x \in Address \ Elements(tried),
           futures' = futures \cup {x},
           outcome' = [outcome EXCEPT ![x] = "pending"],
           Elements(tried') = Elements(tried) \cup {x},
           Len(tried') = Len(tried) + 1
    PROVE  Accounts'
<1>1. x \notin futures /\ futures \subseteq Elements(tried)
  BY DEF RaceType
<1>2. Elements(tried') \ futures' = Elements(tried) \ futures
  BY <1>1
<1>3. \A a \in Elements(tried) \ futures : outcome'[a] = outcome[a]
  BY DEF RaceType
<1>4. IsFiniteSet(futures') /\ Cardinality(futures') = Cardinality(futures) + 1
  BY <1>1, FS_AddElement DEF Accounts
<1>5. Len(errors) + Cardinality(futures') = Len(tried')
  <2>1. Len(errors) \in Nat /\ Cardinality(futures) \in Nat
    BY FS_CardinalityType DEF Accounts, RaceType
  <2> QED
    BY <1>4, <2>1 DEF Accounts
<1>6. \A a \in Elements(tried') \ futures' : outcome'[a] \in ConnectKinds
  BY <1>2, <1>3 DEF Accounts
<1>7. Elements(errors') = {outcome'[a] : a \in Elements(tried') \ futures'}
  BY <1>2, <1>3 DEF Accounts
<1> QED
  BY <1>4, <1>5, <1>6, <1>7 DEF Accounts

LEMMA TakeErrorAccounts ==
    ASSUME RaceType, Accounts, Len(tried) \in Nat, Elements(tried) \subseteq Address,
           NEW a \in futures, NEW kind \in ConnectKinds, TakeError(a, kind)
    PROVE  Accounts'
<1>1. a \in Elements(tried) /\ a \in Address /\ futures \subseteq Elements(tried)
  BY DEF RaceType
<1>2. /\ futures' = futures \ {a} /\ tried' = tried /\ errors' = Append(errors, kind)
      /\ outcome' = [outcome EXCEPT ![a] = kind]
  BY DEF TakeError
<1>3. Elements(tried') \ futures' = (Elements(tried) \ futures) \cup {a}
  BY <1>1, <1>2
<1>4. outcome'[a] = kind /\ \A b \in Elements(tried) \ futures : outcome'[b] = outcome[b]
  BY <1>1, <1>2 DEF RaceType
<1>5. IsFiniteSet(futures') /\ Cardinality(futures') = Cardinality(futures) - 1
  BY <1>2, FS_RemoveElement DEF Accounts
<1>6. Len(errors') = Len(errors) + 1 /\ Elements(errors') = Elements(errors) \cup {kind}
  BY <1>2, AppendedAt DEF RaceType
<1>7. Len(errors') + Cardinality(futures') = Len(tried')
  <2>1. Len(errors) \in Nat /\ Cardinality(futures) \in Nat
    BY FS_CardinalityType DEF Accounts, RaceType
  <2> QED
    BY <1>2, <1>5, <1>6, <2>1 DEF Accounts
<1>8. \A b \in Elements(tried') \ futures' : outcome'[b] \in ConnectKinds
  BY <1>3, <1>4 DEF Accounts
<1>9. Elements(errors') = {outcome'[b] : b \in Elements(tried') \ futures'}
  <2>1. Elements(errors) = {outcome'[b] : b \in Elements(tried) \ futures}
    BY <1>4 DEF Accounts
  <2> QED
    BY <1>3, <1>4, <1>6, <2>1
<1> QED
  BY <1>5, <1>7, <1>8, <1>9 DEF Accounts

\* The end of the race without a success.
LEMMA GiveUpAccounts ==
    ASSUME ResolvedInv, RaceType, OrderInv, AttemptsInv, GiveUp
    PROVE  AttemptsInv'
<1>1. /\ pc = "race" /\ futures = {} /\ ~Remaining(addrs)
      /\ UNCHANGED <<resolved, errors, tried, outcome>>
      /\ pc' = "done" /\ result' = AllAttemptsFailed /\ futures' = {}
  BY DEF GiveUp, Return, lookupVars
<1>2. Left(addrs, resolved, tried) /\ tried # <<>> /\ Accounts
  BY <1>1 DEF OrderInv, AttemptsInv
<1>3. \A f \in Families : Elements(resolved[f]) \subseteq Elements(tried)
  BY <1>1, <1>2, LeftRemains
<1>4. Elements(tried) = Resolved
  BY <1>3, TriedAddresses DEF Resolved, Families
<1>5. Resolved # {}
  <2>1. tried \in Seq(Elements(resolved.ipv6) \cup Elements(resolved.ipv4))
    BY DEF OrderInv, Attempts
  <2>2. Len(tried) \in Nat /\ Len(tried) >= 1
    BY <1>2, <2>1
  <2>3. tried[1] \in Elements(tried)
    BY <2>2 DEF Elements
  <2> QED
    BY <1>4, <2>3
<1>6. Len(errors) = Len(tried)
  <2>1. Cardinality({}) = 0
    BY FS_EmptySet
  <2>2. Len(errors) + 0 = Len(tried)
    BY <1>1, <1>2, <2>1 DEF Accounts
  <2>3. Len(errors) \in Nat
    BY DEF RaceType
  <2> QED
    BY <2>2, <2>3
<1>7. Everything
  BY <1>1, <1>2, <1>4, <1>6 DEF Accounts, Everything
<1>8. Everything' /\ Resolved' = Resolved /\ AllAttemptsFailed' = AllAttemptsFailed
  BY <1>1, <1>7 DEF Everything, Resolved, AllAttemptsFailed
<1> QED
  BY <1>1, <1>5, <1>8 DEF AttemptsInv, Resolving

LEMMA NextAttempts == TypeInv /\ TypeInv' /\ OrderInv /\ AttemptsInv /\ [Next]_vars => AttemptsInv'
<1> SUFFICES ASSUME TypeInv, TypeInv', OrderInv, AttemptsInv, [Next]_vars PROVE AttemptsInv'
  OBVIOUS
<1> USE DEF TypeInv
<1>1. /\ Elements(tried) \subseteq Resolved /\ Elements(tried) \subseteq Address
      /\ Len(tried) \in Nat
  BY TriedAddresses
<1>2. Resolvable(resolved) /\ Resolvable(resolved')
  BY ResolvedResolvable, NextResolvable
\* Nothing that matters changes, or the future is dropped.
<1>3. ASSUME UNCHANGED <<resolved, errors, tried, outcome, result>>,
             \/ UNCHANGED <<pc, futures>>
             \/ pc \in Active /\ pc' = "dropped" /\ futures' = {}
      PROVE  AttemptsInv'
  <2>1. /\ Accounts /\ futures' = futures => Accounts'
        /\ Everything => Everything'
        /\ Resolved' = Resolved /\ AllAttemptsFailed' = AllAttemptsFailed
    BY <1>3 DEF Accounts, Everything, Resolved, AllAttemptsFailed
  <2> QED
    BY <1>3, <2>1 DEF AttemptsInv, Active, Resolving
<1>4. CASE (\E f \in Families : LookupAnswers(f)) \/ Tick \/ Drop
  BY <1>3, <1>4 DEF LookupAnswers, Tick, Drop, lookupVars, raceVars
<1>5. ASSUME NEW a \in Address, AttemptEnds(a) PROVE AttemptsInv'
  <2>1. /\ a \in futures /\ UNCHANGED <<pc, resolved, futures, errors, tried, result>>
        /\ \A b \in Address \ {a} : outcome'[b] = outcome[b]
    BY <1>5 DEF AttemptEnds, lookupVars, raceVars, RaceType
  <2>2. pc = "race" /\ Accounts
    BY <2>1 DEF AttemptsInv
  <2>3. \A b \in Elements(tried) \ futures : outcome'[b] = outcome[b]
    BY <1>1, <2>1
  <2>4. Accounts'
    BY <2>1, <2>2, <2>3 DEF Accounts
  <2> QED
    BY <2>1, <2>2, <2>4 DEF AttemptsInv, Resolving
<1>6. CASE Ipv6Answered \/ DelayExpires
  BY <1>6 DEF Ipv6Answered, DelayExpires, AwaitLookups, raceVars, AttemptsInv, Resolving
<1>7. ASSUME NEW it, Start(it), Remaining(it), UNCHANGED <<errors, result>>, pc' = "race",
             pc # "done", Accounts,
             Left(it, resolved', tried), Attempts(resolved', tried), Turns(resolved', tried)
      PROVE  AttemptsInv'
  <2>1. Accounts'
    BY <1>1, <1>2, <1>7, StartOrder, StartAccounts
  <2> QED
    BY <1>7, <2>1 DEF AttemptsInv, Resolving
<1>8. ASSUME NEW r, Resolve(r), pc \in Resolving PROVE AttemptsInv'
  <2>1. tried = <<>> /\ errors = <<>> /\ futures = {} /\ result = NoResult /\ resolved' = r
    BY <1>8 DEF AttemptsInv, Resolve, Resolving
  <2>2. CASE Remaining(r)
    <3>1. Accounts
      BY <2>1, FS_EmptySet, EmptySuits DEF Accounts
    <3>2. UNCHANGED <<errors, result>> /\ pc' = "race" /\ pc # "done"
      BY <1>8, <2>2 DEF Resolve, Resolving
    <3>3. /\ Start(Interleave(r)) /\ Remaining(Interleave(r))
          /\ Left(Interleave(r), r, tried) /\ Attempts(r, tried) /\ Turns(r, tried)
      BY <1>2, <1>8, <2>1, <2>2, ResolveOrder
    <3> QED
      BY <1>7, <2>1, <3>1, <3>2, <3>3
  <2>3. CASE ~Remaining(r)
    <3>1. pc' = "done" /\ result' = NoAddressesResolved /\ futures' = {}
      BY <1>8, <2>3 DEF Resolve, Return
    <3>2. Resolved' = {}
      BY <2>1, <2>3, EmptySuits DEF Remaining, Resolved
    <3>3. NoAddressesResolved' = NoAddressesResolved
      BY DEF NoAddressesResolved
    <3> QED
      BY <3>1, <3>2, <3>3 DEF AttemptsInv, Resolving
  <2> QED
    BY <2>2, <2>3
<1>9. CASE LookupsAnswered \/ LookupsTimeOut
  BY <1>8, <1>9 DEF LookupsAnswered, LookupsTimeOut, Resolving
<1>10. CASE TakeSuccess
  BY <1>10 DEF TakeSuccess, Return, AttemptsInv, Connected, Resolving
<1>11. ASSUME NEW a \in futures, NEW kind \in ConnectKinds, TakeError(a, kind) PROVE AttemptsInv'
  <2>1. pc = "race" /\ pc' = pc /\ result' = result
    BY <1>11 DEF TakeError
  <2>2. Accounts'
    BY <1>1, <1>11, <2>1, TakeErrorAccounts DEF AttemptsInv
  <2> QED
    BY <2>1, <2>2 DEF AttemptsInv, Resolving
<1>12. CASE TakeFailure \/ AttemptTimesOut
  BY <1>11, <1>12, Kinds DEF TakeFailure, AttemptTimesOut
<1>13. CASE StartNext
  <2>1. /\ Start(addrs) /\ Remaining(addrs) /\ pc = "race" /\ pc' = "race"
        /\ UNCHANGED <<resolved, errors, result>>
    BY <1>13 DEF StartNext, lookupVars
  <2> QED
    BY <1>7, <2>1 DEF OrderInv, AttemptsInv
<1>14. CASE GiveUp
  BY <1>14, GiveUpAccounts
<1>15. CASE Terminated \/ UNCHANGED vars
  BY <1>3, <1>15 DEF Terminated, vars, lookupVars, raceVars
<1> QED
  BY <1>4, <1>5, <1>6, <1>9, <1>10, <1>12, <1>13, <1>14, <1>15 DEF Next, Environment, Connector

LEMMA InitAttempts == Init => OrderInv /\ AttemptsInv
<1> SUFFICES ASSUME Init PROVE OrderInv /\ AttemptsInv
  OBVIOUS
<1>1. OrderInv
  BY NothingTried DEF Init, OrderInv
<1>2. AttemptsInv
  BY DEF Init, AttemptsInv
<1> QED
  BY <1>1, <1>2

LEMMA AttemptsInvariant == Spec => [](TypeInv /\ OrderInv /\ AttemptsInv)
<1>1. Init => TypeInv /\ OrderInv /\ AttemptsInv
  BY InitType, InitAttempts
<1>2. TypeInv /\ OrderInv /\ AttemptsInv /\ [Next]_vars => (TypeInv /\ OrderInv /\ AttemptsInv)'
  BY NextType, NextOrder, NextAttempts
<1> QED
  BY <1>1, <1>2, PTL DEF Spec

-----------------------------------------------------------------------------
(* What connect() returns.                                                 *)

LEMMA TriedOnce ==
    ASSUME NEW r, NEW t, Attempts(r, t)
    PROVE  IsFiniteSet(Elements(t)) /\ Cardinality(Elements(t)) = Len(t)
<1> DEFINE n == Len(t)
<1>1. n \in Nat
  BY DEF Attempts
<1>2. t \in [1..n -> Elements(t)]
  <2>1. t \in Seq(Elements(r.ipv6) \cup Elements(r.ipv4))
    BY DEF Attempts
  <2>2. DOMAIN t = 1..n /\ t = [i \in 1..n |-> t[i]]
    BY <2>1
  <2> QED
    BY <2>2 DEF Elements
<1>3. t \in Bijection(1..n, Elements(t))
  <2>1. \A a \in Elements(t) : \E i \in 1..n : t[i] = a
    BY DEF Elements
  <2>2. \A i, j \in 1..n : t[i] = t[j] => i = j
    BY DEF Attempts
  <2> QED
    BY <1>2, <2>1, <2>2 DEF Bijection, Injection, Surjection, IsInjective
<1>4. ExistsBijection(1..n, Elements(t))
  BY <1>3 DEF ExistsBijection
<1> QED
  BY <1>1, <1>4, FS_CountingElements, FS_NatBijection

\* When connect() gives up, each resolved address was tried once, its attempt
\* failed, and the report has its error (happy_eyeballs.rs:77-82): for any
\* number of addresses and any order in which the attempts fail.
THEOREM EveryAddressTriedTheorem == Spec => []EveryAddressTried
<1>1. TypeInv /\ OrderInv /\ AttemptsInv => EveryAddressTried
  <2> SUFFICES ASSUME OrderInv, AttemptsInv, result.variant = "AllAttemptsFailed"
               PROVE  Everything /\ Len(tried) = Cardinality(Resolved)
    BY DEF EveryAddressTried, Everything
  <2>1. Everything
    BY DEF AttemptsInv, NoResult, Connected, NoAddressesResolved
  <2> QED
    BY <2>1, TriedOnce DEF OrderInv, Everything
<1> QED
  BY <1>1, AttemptsInvariant, PTL

LEMMA Ranks == \A a \in Address : Key(a) \in Nat /\ Rank(a) = Key(a) + 1
<1> SUFFICES ASSUME NEW a \in Address PROVE Key(a) \in Nat /\ Rank(a) = Key(a) + 1
  OBVIOUS
<1>1. \/ a.family = "ipv6" /\ a.class \in {"loopback", "unique_local", "link_local", "global"}
      \/ a.family = "ipv4" /\ a.class \in {"loopback", "private", "public"}
  BY HappyEyeballsAssumption DEF Address
<1>2. CASE a.family = "ipv6"
  <2>1. Preferences[a.family] = <<"loopback", "unique_local", "link_local", "global">>
    BY <1>2 DEF Preferences
  <2>2. Key(a) \in 0..3 /\ Preferences[a.family][Key(a) + 1] = a.class
    BY <1>1, <1>2, <2>1 DEF Key, SortKey
  <2>3. \A i \in 1..4 : Preferences[a.family][i] = a.class => i = Key(a) + 1
    BY <1>1, <1>2, <2>1 DEF Key, SortKey
  <2> QED
    BY <2>1, <2>2, <2>3 DEF Rank
<1>3. CASE a.family = "ipv4"
  <2>1. Preferences[a.family] = <<"loopback", "private", "public">>
    BY <1>3 DEF Preferences
  <2>2. Key(a) \in 0..2 /\ Preferences[a.family][Key(a) + 1] = a.class
    BY <1>1, <1>3, <2>1 DEF Key, SortKey
  <2>3. \A i \in 1..3 : Preferences[a.family][i] = a.class => i = Key(a) + 1
    BY <1>1, <1>3, <2>1 DEF Key, SortKey
  <2> QED
    BY <2>1, <2>2, <2>3 DEF Rank
<1> QED
  BY <1>1, <1>2, <1>3

\* Within a family the better class is tried first, and the families take
\* turns, IPv6 first, as long as both have addresses left
\* (happy_eyeballs.rs:14-22, 148-189, 215-228): for any answers.
THEOREM InterleavedOrderTheorem == Spec => []InterleavedOrder
<1>1. TypeInv /\ OrderInv /\ AttemptsInv => InterleavedOrder
  <2> SUFFICES ASSUME TypeInv, OrderInv PROVE InterleavedOrder
    OBVIOUS
  <2>1. \A i \in 1..Len(tried) : tried[i] \in Address
    BY TriedAddresses DEF TypeInv, Elements
  <2>2. \A i, j \in 1..Len(tried) :
          (i < j /\ tried[i].family = tried[j].family) => Rank(tried[i]) <= Rank(tried[j])
    BY <2>1, Ranks DEF OrderInv, Attempts
  <2>3. Turns(resolved, tried)
    BY DEF OrderInv
  <2> QED
    BY <2>2, <2>3 DEF InterleavedOrder, Turns, Last, Until
<1> QED
  BY <1>1, AttemptsInvariant, PTL

LEMMA ReportOccurs ==
    ASSUME RaceType, Everything
    PROVE  \A kind : kind \in {outcome[a] : a \in Resolved} <=> Occurs(kind, errors)
BY DEF Everything, Occurs, Elements

\* What the client is told of a failure does not depend on the order in which
\* the attempts failed, if one was refused or had no network
\* (handler/socks5/error.rs:125-143).
THEOREM ReplyIndependentOfRaceTheorem == Spec => []ReplyIndependentOfRace
<1>1. TypeInv /\ OrderInv /\ AttemptsInv => ReplyIndependentOfRace
  <2> SUFFICES ASSUME TypeInv, AttemptsInv, result.variant = "AllAttemptsFailed"
               PROVE  LET kinds == {outcome[a] : a \in Resolved}
                          reply == ToReply(FromHappyEyeballs(result))
                      IN  /\ "ConnectionRefused" \in kinds => reply = "ConnectionRefused"
                          /\ ("ConnectionRefused" \notin kinds /\ "NetworkUnreachable" \in kinds)
                                 => reply = "NetworkUnreachable"
    BY DEF ReplyIndependentOfRace
  <2>1. result = AllAttemptsFailed /\ Everything
    BY DEF AttemptsInv, NoResult, Connected, NoAddressesResolved
  <2>2. result.errors = errors /\ result.variant = "AllAttemptsFailed"
    BY <2>1 DEF AllAttemptsFailed
  <2>3. \A kind : kind \in {outcome[a] : a \in Resolved} <=> Occurs(kind, errors)
    BY <2>1, ReportOccurs DEF TypeInv
  <2>4. \A kind : Occurs(kind, errors) => errors # <<>>
    BY DEF Occurs
  <2>5. ASSUME Occurs("ConnectionRefused", errors)
        PROVE  ToReply(FromHappyEyeballs(result)) = "ConnectionRefused"
    BY <2>2, <2>4, <2>5 DEF FromHappyEyeballs, Representative, TargetConnectionFailed, Err, ToReply
  <2>6. ASSUME ~Occurs("ConnectionRefused", errors), Occurs("NetworkUnreachable", errors)
        PROVE  ToReply(FromHappyEyeballs(result)) = "NetworkUnreachable"
    BY <2>2, <2>4, <2>6 DEF FromHappyEyeballs, Representative, TargetConnectionFailed, Err, ToReply
  <2> QED
    BY <2>3, <2>5, <2>6
<1> QED
  BY <1>1, AttemptsInvariant, PTL

\* connect() returns an error that the caller has a reply for: no addresses,
\* or a report of failed attempts that is not empty and has no more entries
\* than there are addresses (handler/socks5/error.rs:122-132).
THEOREM ErrorsAsHandledTheorem == Spec => []ErrorsAsHandled
<1>1. TypeInv /\ OrderInv /\ AttemptsInv => ErrorsAsHandled
  <2> SUFFICES ASSUME TypeInv, OrderInv, AttemptsInv, pc = "done", result # Connected
               PROVE  /\ result \in HappyEyeballsErrors(Cardinality(Address))
                      /\ (result = NoAddressesResolved) <=> (Resolved = {})
    BY DEF ErrorsAsHandled
  <2>1. CASE result = NoAddressesResolved /\ Resolved = {}
    BY <2>1 DEF HappyEyeballsErrors, NoAddressesResolved
  <2>2. CASE result = AllAttemptsFailed /\ Resolved # {} /\ Everything
    <3> DEFINE m == Len(errors)
               c == Cardinality(Address)
    <3>1. IsFiniteSet(Resolved) /\ Cardinality(Resolved) = m
      BY <2>2, TriedOnce DEF OrderInv, Everything
    <3>2. IsFiniteSet(Address) /\ Resolved \in SUBSET Address
      BY HappyEyeballsAssumption, TriedAddresses DEF TypeInv
    <3>3. m <= c
      BY <3>1, <3>2, FS_Subset
    <3>4. c \in Nat
      BY <3>2, FS_CardinalityType
    <3>5. m \in Nat /\ m # 0
      BY <2>2, <3>1, FS_EmptySet, FS_CardinalityType
    <3>6. errors \in [1..m -> ConnectKinds]
      BY DEF TypeInv, RaceType
    <3>7. m \in 1..c
      BY <3>3, <3>4, <3>5
    <3> HIDE DEF m, c
    <3>8. result = [variant |-> "AllAttemptsFailed", errors |-> errors]
      BY <2>2 DEF AllAttemptsFailed
    <3>9. errors \in UNION {[1..k -> ConnectKinds] : k \in 1..c}
      BY <3>6, <3>7
    <3>10. result \in HappyEyeballsErrors(c)
      BY <3>8, <3>9 DEF HappyEyeballsErrors
    <3>11. result # NoAddressesResolved
      BY <3>8 DEF NoAddressesResolved
    <3> QED
      BY <2>2, <3>10, <3>11 DEF c
  <2> QED
    BY <2>1, <2>2 DEF AttemptsInv
<1> QED
  BY <1>1, AttemptsInvariant, PTL
=============================================================================
