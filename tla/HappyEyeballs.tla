---------------------------- MODULE HappyEyeballs ---------------------------
(***************************************************************************)
(* HappyEyeballsConnector::connect of noxen-proxy/src/net/                 *)
(* happy_eyeballs.rs: the staggered lookups, the order of the addresses,   *)
(* and the race of the connection attempts.                                *)
(*                                                                         *)
(* Timers count down in ticks.  An action of the connector is one pass     *)
(* through a select!, join! or timeout; the lookups, the attempts and the  *)
(* clock go on between any two of them.                                    *)
(***************************************************************************)
EXTENDS Socks5Errors, FiniteSets

CONSTANTS
    Ipv6Answers, Ipv4Answers,  \* what the AAAA and the A lookup may return
    AttemptKinds,              \* the kinds an attempt may fail with
    ResolutionDelay,           \* config.resolution_delay
    FirstFamilyTimeout,        \* config.first_address_family_timeout
    AttemptDelay,              \* config.connection_attempt_delay
    ConnectTimeout,            \* config.connect_timeout
    Prompt                     \* does the task run before the clock goes on?

\* An address is what the sort looks at, and an identity.
V6(class, id) == [family |-> "ipv6", class |-> class, id |-> id]
V4(class, id) == [family |-> "ipv4", class |-> class, id |-> id]

Elements(s) == {s[i] : i \in 1..Len(s)}
Address     == UNION {Elements(s) : s \in Ipv6Answers \cup Ipv4Answers}

ASSUME HappyEyeballsAssumption ==
    /\ \A s \in Ipv6Answers \cup Ipv4Answers :
         /\ s \in Seq(Elements(s))
         /\ \A i, j \in 1..Len(s) : s[i] = s[j] => i = j
    /\ \A s \in Ipv6Answers : \A a \in Elements(s) :
         a.family = "ipv6" /\ a.class \in {"loopback", "unique_local", "link_local", "global"}
    /\ \A s \in Ipv4Answers : \A a \in Elements(s) :
         a.family = "ipv4" /\ a.class \in {"loopback", "private", "public"}
    /\ IsFiniteSet(Address)
    /\ AttemptKinds \subseteq ConnectKinds
    /\ {ResolutionDelay, FirstFamilyTimeout, AttemptDelay, ConnectTimeout} \subseteq Nat \ {0}
    /\ Prompt \in BOOLEAN

VARIABLES
    pc,        \* the await of connect(); "done", or "dropped" by the caller
    answer,    \* what each lookup returns; a failing one has no addresses
    lookup,    \* per family: "unsent", "pending" or "answered"
    resolved,  \* ResolvedAddresses, as resolve_with_delay returns it
    addrs,     \* InterleavedAddressesIter
    futures,   \* the attempts in the FuturesUnordered
    outcome,   \* what became of each attempt
    sleep,     \* ticks left of the timer connect() awaits
    timer,     \* ticks left of the timeout of each attempt
    errors,    \* the failures, in the order they were taken
    result,    \* what connect() returned
    tried,     \* history: the addresses, in the order they were started
    since      \* history: ticks since the last start, up to AttemptDelay + 1

lookupVars == <<answer, lookup, resolved>>
raceVars   == <<addrs, futures, timer, errors, tried, since>>
vars       == <<pc, lookupVars, raceVars, outcome, sleep, result>>

Families  == {"ipv6", "ipv4"}
Resolving == {"delay", "both", "ipv4"}
Active    == Resolving \cup {"race"}

NoResult            == [variant |-> "none", errors |-> <<>>]
Connected           == [variant |-> "Ok", errors |-> <<>>]
NoAddressesResolved == [variant |-> "NoAddressesResolved", errors |-> <<>>]
AllAttemptsFailed   == [variant |-> "AllAttemptsFailed", errors |-> errors]

-----------------------------------------------------------------------------
(* ResolvedAddresses and InterleavedAddressesIter.                         *)

\* The keys of the two closures of sort_by_preference.
SortKey == [loopback |-> 0, unique_local |-> 1, private |-> 1,
            link_local |-> 2, public |-> 2, global |-> 3]

\* sort_by_key is stable: equal keys keep the order of the answer.
Before(s, i, j) ==
    \/ SortKey[s[i].class] < SortKey[s[j].class]
    \/ SortKey[s[i].class] = SortKey[s[j].class] /\ i < j

\* Where the sort puts the address at i.
Place(s, i) == Cardinality({j \in 1..Len(s) : Before(s, j, i)}) + 1

\* Mutant: the addresses stay in the order of the answer.
SortedByPreference_Identity(s) == s

SortedByPreference(s) ==
    [k \in 1..Len(s) |-> s[CHOOSE i \in 1..Len(s) : Place(s, i) = k]]

Interleave(r) == [ipv6 |-> SortedByPreference(r.ipv6), ipv4 |-> SortedByPreference(r.ipv4),
                  ipv6_turn |-> TRUE]

Remaining(it) == it.ipv6 # <<>> \/ it.ipv4 # <<>>

\* An exhausted family leaves the turn where it is.
NextAddress(it) ==
    LET primary   == IF it.ipv6_turn THEN "ipv6" ELSE "ipv4"
        secondary == IF it.ipv6_turn THEN "ipv4" ELSE "ipv6"
    IN  IF it[primary] # <<>>
          THEN [address |-> Head(it[primary]),
                rest    |-> [it EXCEPT ![primary] = Tail(@), !.ipv6_turn = ~@]]
          ELSE [address |-> Head(it[secondary]),
                rest    |-> [it EXCEPT ![secondary] = Tail(@)]]

-----------------------------------------------------------------------------
Init ==
    /\ pc = "delay"
    /\ answer \in [ipv6 : Ipv6Answers, ipv4 : Ipv4Answers]
    /\ lookup = [ipv6 |-> "pending", ipv4 |-> "unsent"]
    /\ resolved = [ipv6 |-> <<>>, ipv4 |-> <<>>]
    /\ addrs = [ipv6 |-> <<>>, ipv4 |-> <<>>, ipv6_turn |-> TRUE]
    /\ futures = {}
    /\ outcome = [a \in Address |-> "none"]
    /\ sleep = ResolutionDelay
    /\ timer = [a \in Address |-> 0]
    /\ errors = <<>>
    /\ result = NoResult
    /\ tried = <<>>
    /\ since = 0

-----------------------------------------------------------------------------
(* The environment: the resolver, the targets, the clock, the caller.      *)

LookupAnswers(f) ==
    /\ pc \in Resolving
    /\ lookup[f] = "pending"
    /\ lookup' = [lookup EXCEPT ![f] = "answered"]
    /\ UNCHANGED <<pc, answer, resolved, raceVars, outcome, sleep, result>>

AttemptEnds(a) ==
    /\ a \in futures
    /\ outcome[a] = "pending"
    /\ \E o \in {"connected"} \cup AttemptKinds : outcome' = [outcome EXCEPT ![a] = o]
    /\ UNCHANGED <<pc, lookupVars, raceVars, sleep, result>>

\* An attempt whose future would not be pending if it were polled.
Ready(a) == outcome[a] # "pending" \/ timer[a] = 0

Answered == \A f \in Families : lookup[f] = "answered"

TaskIsReady ==
    \/ pc \in Resolving /\ sleep = 0
    \/ pc = "delay" /\ lookup["ipv6"] = "answered"
    \/ pc \in {"both", "ipv4"} /\ Answered
    \/ /\ pc = "race"
       /\ \/ \E a \in futures : Ready(a)
          \/ Remaining(addrs) /\ sleep = 0
          \/ ~Remaining(addrs) /\ futures = {}

Less(n) == IF n = 0 THEN 0 ELSE n - 1

Tick ==
    /\ pc \in Active
    /\ Prompt => ~TaskIsReady
    /\ sleep' = Less(sleep)
    /\ timer' = [a \in Address |-> Less(timer[a])]
    /\ since' = IF since > AttemptDelay THEN since ELSE since + 1
    /\ UNCHANGED <<pc, lookupVars, addrs, futures, errors, tried, outcome, result>>

\* The caller's own timeout, or its cancellation, drops the future.
Drop ==
    /\ pc \in Active
    /\ pc' = "dropped"
    /\ futures' = {}
    /\ timer' = [a \in Address |-> 0]
    /\ UNCHANGED <<lookupVars, addrs, errors, tried, since, outcome, sleep, result>>

-----------------------------------------------------------------------------
(* The start of an attempt, and connect() between its awaits.              *)

\* The future is polled, and with it the timeout and the connect started, in
\* the next pass through the select!, which makes a new sleep as well.
Start(it) ==
    LET next == NextAddress(it) IN
      /\ addrs' = next.rest
      /\ futures' = futures \cup {next.address}
      /\ outcome' = [outcome EXCEPT ![next.address] = "pending"]
      /\ timer' = [timer EXCEPT ![next.address] = ConnectTimeout]
      /\ sleep' = AttemptDelay
      /\ tried' = Append(tried, next.address)
      /\ since' = 0

Return(r) ==
    /\ pc' = "done"
    /\ result' = r
    /\ futures' = {}
    /\ timer' = [a \in Address |-> 0]

\* Mutant: connect() does not look whether anything was resolved.
Resolve_Unchecked(r) ==
    /\ resolved' = r
    /\ IF Remaining(r)
         THEN /\ pc' = "race"
              /\ Start(Interleave(r))
              /\ UNCHANGED <<errors, result>>
         ELSE /\ Return(AllAttemptsFailed)
              /\ UNCHANGED <<addrs, errors, tried, since, outcome, sleep>>

\* What connect() does with the addresses: none, or sort, interleave, start.
Resolve(r) ==
    /\ resolved' = r
    /\ IF Remaining(r)
         THEN /\ pc' = "race"
              /\ Start(Interleave(r))
              /\ UNCHANGED <<errors, result>>
         ELSE /\ Return(NoAddressesResolved)
              /\ UNCHANGED <<addrs, errors, tried, since, outcome, sleep>>

-----------------------------------------------------------------------------
(* resolve_with_delay.                                                     *)

AwaitLookups(at) ==
    /\ pc' = at
    /\ lookup' = [lookup EXCEPT !["ipv4"] = "pending"]
    /\ sleep' = FirstFamilyTimeout
    /\ UNCHANGED <<answer, raceVars, outcome, result>>

\* Mutant: what the AAAA lookup returned early is not kept.
Ipv6Answered_Forgets ==
    /\ pc = "delay"
    /\ lookup["ipv6"] = "answered"
    /\ UNCHANGED resolved
    /\ AwaitLookups("ipv4")

Ipv6Answered ==
    /\ pc = "delay"
    /\ lookup["ipv6"] = "answered"
    /\ resolved' = [resolved EXCEPT !["ipv6"] = answer["ipv6"]]
    /\ AwaitLookups("ipv4")

\* Both branches of the select! may be ready: it takes either.
DelayExpires ==
    /\ pc = "delay"
    /\ sleep = 0
    /\ UNCHANGED resolved
    /\ AwaitLookups("both")

\* Mutant: the AAAA answer is added to the addresses on both paths.
LookupsAnswered_ExtendsTwice ==
    /\ pc \in {"both", "ipv4"}
    /\ Answered
    /\ Resolve([ipv6 |-> resolved["ipv6"] \o answer["ipv6"], ipv4 |-> answer["ipv4"]])
    /\ UNCHANGED <<answer, lookup>>

\* The A lookup, or the join! of the two, is ready.
LookupsAnswered ==
    /\ pc \in {"both", "ipv4"}
    /\ Answered
    /\ Resolve(IF pc = "both" THEN answer ELSE [resolved EXCEPT !["ipv4"] = answer["ipv4"]])
    /\ UNCHANGED <<answer, lookup>>

\* Mutant: the lookups are awaited without a timeout.
LookupsTimeOut_Never == FALSE

\* The timer is looked at only when they are pending.  It drops the join!, and
\* with it the answer of the lookup that was done.
LookupsTimeOut ==
    /\ pc \in {"both", "ipv4"}
    /\ ~Answered
    /\ sleep = 0
    /\ Resolve(resolved)
    /\ UNCHANGED <<answer, lookup>>

-----------------------------------------------------------------------------
(* connect_to_addresses.                                                   *)

\* The first success: the other attempts are dropped with the collection.
TakeSuccess ==
    /\ pc = "race"
    /\ \E a \in futures : outcome[a] = "connected"
    /\ Return(Connected)
    /\ UNCHANGED <<lookupVars, addrs, errors, tried, since, outcome, sleep>>

\* A failure is taken from the collection, and the next pass sleeps anew.
TakeError(a, kind) ==
    /\ pc = "race"
    /\ errors' = Append(errors, kind)
    /\ futures' = futures \ {a}
    /\ outcome' = [outcome EXCEPT ![a] = kind]
    /\ timer' = [timer EXCEPT ![a] = 0]
    /\ UNCHANGED <<pc, lookupVars, addrs, tried, since, result>>

\* Mutant: a failure lets the next attempt start at once.
TakeFailure_SkipsDelay ==
    \E a \in futures :
        /\ outcome[a] \in AttemptKinds
        /\ TakeError(a, outcome[a])
        /\ sleep' = 0

TakeFailure ==
    \E a \in futures :
        /\ outcome[a] \in AttemptKinds
        /\ TakeError(a, outcome[a])
        /\ sleep' = AttemptDelay

\* connect_with_timeout looks at its timer when the connect is pending.
AttemptTimesOut ==
    \E a \in futures :
        /\ outcome[a] = "pending"
        /\ timer[a] = 0
        /\ TakeError(a, "TimedOut")
        /\ sleep' = AttemptDelay

\* biased: the attempts are polled before the sleep.
StartNext ==
    /\ pc = "race"
    /\ \A a \in futures : ~Ready(a)
    /\ Remaining(addrs)
    /\ sleep = 0
    /\ Start(addrs)
    /\ UNCHANGED <<pc, lookupVars, errors, result>>

\* Mutant: without its `if`, futures.next() is None when nothing is in flight.
GiveUp_NothingInFlight ==
    /\ pc = "race"
    /\ futures = {}
    /\ Return(AllAttemptsFailed)
    /\ UNCHANGED <<lookupVars, addrs, errors, tried, since, outcome, sleep>>

\* No branch is enabled: the else.
GiveUp ==
    /\ pc = "race"
    /\ futures = {}
    /\ ~Remaining(addrs)
    /\ Return(AllAttemptsFailed)
    /\ UNCHANGED <<lookupVars, addrs, errors, tried, since, outcome, sleep>>

Terminated ==
    /\ pc \notin Active
    /\ UNCHANGED vars

-----------------------------------------------------------------------------
Environment ==
    \/ \E f \in Families : LookupAnswers(f)
    \/ \E a \in Address : AttemptEnds(a)
    \/ Tick
    \/ Drop

Connector ==
    \/ Ipv6Answered
    \/ DelayExpires
    \/ LookupsAnswered
    \/ LookupsTimeOut
    \/ TakeSuccess
    \/ TakeFailure
    \/ AttemptTimesOut
    \/ StartNext
    \/ GiveUp

Next == Environment \/ Connector \/ Terminated

Spec == Init /\ [][Next]_vars

\* The clock goes on and the runtime polls a woken task.  No lookup has to be
\* answered, and no attempt has to end.
FairSpec == Spec /\ WF_vars(Tick) /\ WF_vars(Connector)

-----------------------------------------------------------------------------
(* Properties.                                                             *)

Outcomes == {"none", "pending", "connected", "TimedOut"} \cup AttemptKinds

\* The types; what was resolved is a whole answer or nothing; a timer runs only for an attempt
\* that is in flight, so none can fire for one that was dropped
\* (happy_eyeballs.rs:547-596).
TypeOK ==
    /\ pc \in Active \cup {"done", "dropped"}
    /\ lookup \in [Families -> {"unsent", "pending", "answered"}]
    /\ \A f \in Families : resolved[f] \in {<<>>, answer[f]}
    /\ futures \subseteq Elements(tried)
    /\ outcome \in [Address -> Outcomes]
    /\ sleep \in 0..(ResolutionDelay + FirstFamilyTimeout + AttemptDelay)
    /\ timer \in [Address -> 0..ConnectTimeout]
    /\ \A a \in Address \ futures : timer[a] = 0
    /\ errors \in Seq(ConnectKinds)
    /\ result.variant \in {"none", "Ok", "NoAddressesResolved", "AllAttemptsFailed"}
    /\ since \in 0..(AttemptDelay + 1)

Resolved == Elements(resolved["ipv6"]) \cup Elements(resolved["ipv4"])

\* Answers that are in time are kept: all when both lookups are answered before
\* the timeout, and those of an AAAA lookup that was answered within the
\* resolution delay whatever becomes of the A lookup
\* (happy_eyeballs.rs:446-509).
AnswersKept ==
    [][(pc \in {"both", "ipv4"} /\ pc' \in {"race", "done"}) =>
           /\ Answered => resolved' = answer
           /\ pc = "ipv4" => resolved'["ipv6"] = answer["ipv6"]]_vars

\* "Every attempted connection to all resolved addresses failed"
\* (happy_eyeballs.rs:77-82): when connect() gives up, each resolved address
\* was tried once, its attempt failed, and the report has its error.
EveryAddressTried ==
    result.variant = "AllAttemptsFailed" =>
        /\ Elements(tried) = Resolved
        /\ Len(tried) = Cardinality(Resolved)
        /\ \A a \in Resolved : outcome[a] \in ConnectKinds
        /\ Len(errors) = Len(tried)
        /\ Elements(errors) = {outcome[a] : a \in Resolved}

\* Within a family the better class comes first; the families take turns,
\* IPv6 first, as long as both have addresses left (happy_eyeballs.rs:14-22,
\* 148-189, 215-228).
Preferences ==
    [ipv6 |-> <<"loopback", "unique_local", "link_local", "global">>,
     ipv4 |-> <<"loopback", "private", "public">>]
Rank(a) == CHOOSE i \in 1..Len(Preferences[a.family]) : Preferences[a.family][i] = a.class
InterleavedOrder ==
    /\ \A i, j \in 1..Len(tried) :
         (i < j /\ tried[i].family = tried[j].family) => Rank(tried[i]) <= Rank(tried[j])
    /\ \A i \in 1..Len(tried) :
         LET others(f) == Elements(resolved[f]) \ {tried[j] : j \in 1..(i - 1)}
             last      == IF i = 1 THEN "ipv4" ELSE tried[i - 1].family
         IN  tried[i].family = last => \A f \in Families \ {last} : others(f) = {}

\* Attempts are staggered: no two start within connection_attempt_delay,
\* however many fail in between (happy_eyeballs.rs:24-27, 567-580).
Staggered == [][(tried # <<>> /\ tried' # tried) => since >= AttemptDelay]_vars

\* What the client is told of a failure does not depend on the order in which
\* the attempts failed, if one was refused or had no network
\* (handler/socks5/error.rs:125-143).
ReplyIndependentOfRace ==
    result.variant = "AllAttemptsFailed" =>
        LET kinds == {outcome[a] : a \in Resolved}
            reply == ToReply(FromHappyEyeballs(result))
        IN  /\ "ConnectionRefused" \in kinds => reply = "ConnectionRefused"
            /\ ("ConnectionRefused" \notin kinds /\ "NetworkUnreachable" \in kinds)
                   => reply = "NetworkUnreachable"

\* connect() returns an error that the caller has a reply for: a name without
\* addresses is told from addresses that cannot be reached, and a report of
\* failed attempts is never empty (handler/socks5/error.rs:122-132); this is
\* what module Socks5Handler assumes of it.
ErrorsAsHandled ==
    pc = "done" =>
        \/ result = Connected
        \/ /\ result \in HappyEyeballsErrors(Cardinality(Address))
           /\ (result = NoAddressesResolved) <=> (Resolved = {})

\* connect() returns although no server of either kind ever answers.
ConnectEnds == <>(pc \notin Active)
=============================================================================
