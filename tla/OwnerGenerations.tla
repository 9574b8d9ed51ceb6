-------------------------- MODULE OwnerGenerations --------------------------
(***************************************************************************)
(* The identity of a stateful attention provider and the measure plans     *)
(* cached under it (_owner_identity and prepare of                         *)
(* sol_h3/weighted_measure.py).  A provider is known by a generation token *)
(* that _OWNER_GENERATIONS keeps at its address with a weak reference; the *)
(* callback of that reference takes the entry away.  The objects, their    *)
(* addresses and the collector are Python's, modelled as the code relies   *)
(* on them: an object that dies keeps its address until its callbacks have *)
(* run, in whatever thread drops the last reference or runs the collector. *)
(***************************************************************************)
EXTENDS Naturals, FiniteSets

CONSTANTS
  Threads,             \* threads that compute identities
  Providers,           \* the provider objects of a run of the process
  Addresses,           \* what id() returns
  None,                \* Python's None
  MaxCalls,            \* bound: identity computations, in all
  MaxFailures,         \* bound: callbacks that raise
  CollectWhileLocked   \* whether the collector may run inside the lock

VARIABLES
  life,       \* unborn, live, garbage, dying (callbacks run) or dead
  id,         \* the address of each provider
  entries,    \* _OWNER_GENERATIONS: the entry at each address, or None
  lock,       \* _OWNER_GENERATIONS_LOCK: its holder
  pc,         \* where each thread is
  using,      \* the provider each thread's call is about
  token,      \* the token the call found or made
  cleaning,   \* the provider whose callback interrupts the thread, or None
  plans,      \* Request.measure_plans: each cached key with whom it was made for
  calls,      \* bound: identity computations
  failures,   \* bound: callbacks that raised
  tokens,     \* tokens made so far; the next is a fresh uuid4
  answers,    \* history: the tokens each provider was given
  served      \* history: <<made for, served to>> of each plan served

objectVars == <<life, id>>
threadVars == <<pc, using, token>>
historyVars == <<answers, served>>
vars == <<objectVars, threadVars, historyVars, entries, lock, cleaning, plans, calls,
          failures, tokens>>

Init ==
  /\ life = [p \in Providers |-> "unborn"]
  /\ id = [p \in Providers |-> None]
  /\ entries = [a \in Addresses |-> None]
  /\ lock = None
  /\ pc = [t \in Threads |-> "out"]
  /\ using = [t \in Threads |-> None]
  /\ token = [t \in Threads |-> 0]
  /\ cleaning = [t \in Threads |-> None]
  /\ plans = {}
  /\ calls = 0 /\ failures = 0 /\ tokens = 0
  /\ answers = [p \in Providers |-> {}]
  /\ served = {}

\* A thread runs its call unless a callback interrupts it.
At(t, place) == pc[t] = place /\ cleaning[t] = None
----
(***************************************************************************)
(* Python's objects.                                                       *)
(***************************************************************************)
Occupied == {id[p] : p \in {q \in Providers : life[q] \in {"live", "garbage", "dying"}}}

New(p) ==
  /\ life[p] = "unborn"
  /\ \E a \in Addresses \ Occupied : id' = [id EXCEPT ![p] = a]
  /\ life' = [life EXCEPT ![p] = "live"]
  /\ UNCHANGED <<threadVars, historyVars, entries, lock, cleaning, plans, calls,
                 failures, tokens>>

\* Nothing refers to the provider any more, but perhaps a cycle it is in.
Drop(p) ==
  /\ life[p] = "live"
  /\ \A t \in Threads : using[t] # p
  /\ life' = [life EXCEPT ![p] = "garbage"]
  /\ UNCHANGED <<id, threadVars, historyVars, entries, lock, cleaning, plans, calls,
                 failures, tokens>>

Registered(p) == entries[id[p]] # None /\ entries[id[p]].owner = p

\* It dies in a thread that drops the last reference or runs the collector.
\* If it is registered its callback interrupts that thread.
Collect(t, p) ==
  /\ life[p] = "garbage"
  /\ cleaning[t] = None
  /\ lock = t => CollectWhileLocked
  /\ IF Registered(p)
     THEN life' = [life EXCEPT ![p] = "dying"] /\ cleaning' = [cleaning EXCEPT ![t] = p]
     ELSE life' = [life EXCEPT ![p] = "dead"] /\ UNCHANGED cleaning
  /\ UNCHANGED <<id, threadVars, historyVars, entries, lock, plans, calls, failures,
                 tokens>>
----
(***************************************************************************)
(* cleanup, the callback.                                                  *)
(***************************************************************************)
CleanupDone(t) ==
  /\ cleaning[t] # None
  /\ lock = None
  /\ life' = [life EXCEPT ![cleaning[t]] = "dead"]
  /\ cleaning' = [cleaning EXCEPT ![t] = None]
  /\ UNCHANGED <<id, threadVars, historyVars, lock, plans, calls, tokens>>

\* The entry goes if it is still the one this callback was made for.
Removed(p) == IF Registered(p) THEN [entries EXCEPT ![id[p]] = None] ELSE entries

Cleanup(t) ==
  /\ CleanupDone(t)
  /\ entries' = Removed(cleaning[t])
  /\ UNCHANGED failures

\* Python drops an exception raised in a callback.
CleanupRaises(t) ==
  /\ failures < MaxFailures
  /\ failures' = failures + 1
  /\ CleanupDone(t)
  /\ UNCHANGED entries
----
(***************************************************************************)
(* _owner_identity.                                                        *)
(***************************************************************************)
\* The call holds a reference to its provider.
Begin(t) ==
  /\ At(t, "out") /\ calls < MaxCalls
  /\ calls' = calls + 1
  /\ \E p \in Providers : life[p] = "live" /\ using' = [using EXCEPT ![t] = p]
  /\ pc' = [pc EXCEPT ![t] = "wait"]
  /\ UNCHANGED <<objectVars, token, historyVars, entries, lock, cleaning, plans,
                 failures, tokens>>

\* Mutant: the lock is not waited for.
NoWait == TRUE
LockFree == lock = None

Lock(t) ==
  /\ At(t, "wait")
  /\ LockFree
  /\ lock' = t
  /\ pc' = [pc EXCEPT ![t] = "locked"]
  /\ UNCHANGED <<objectVars, using, token, historyVars, entries, cleaning, plans, calls,
                 failures, tokens>>

\* Whose entry it is, is asked of the weak reference.
\* Mutant: any entry at the address will do.
AnyEntry(p) == entries[id[p]] # None
Found(p) == entries[id[p]] # None /\ entries[id[p]].owner = p

\* Mutant: the lock is not released.
Held(t) == t
Released(t) == None

Answer(t, k) ==
  /\ token' = [token EXCEPT ![t] = k]
  /\ answers' = [answers EXCEPT ![using[t]] = @ \cup {k}]
  /\ lock' = Released(t)
  /\ pc' = [pc EXCEPT ![t] = "prepare"]
  /\ UNCHANGED <<objectVars, using, served, cleaning, plans, calls, failures>>

Known(t) ==
  /\ At(t, "locked")
  /\ Found(using[t])
  /\ Answer(t, entries[id[using[t]]].token)
  /\ UNCHANGED <<entries, tokens>>

Unknown(t) ==
  /\ At(t, "locked")
  /\ ~Found(using[t])
  /\ pc' = [pc EXCEPT ![t] = "make"]
  /\ UNCHANGED <<objectVars, using, token, historyVars, entries, lock, cleaning, plans,
                 calls, failures, tokens>>

FreshToken == tokens + 1

\* The token, the callback and the weak reference are allocated.
Register(t) ==
  LET p == using[t] IN
  /\ At(t, "make")
  /\ entries' = [entries EXCEPT ![id[p]] = [owner |-> p, token |-> FreshToken]]
  /\ tokens' = tokens + 1
  /\ Answer(t, FreshToken)
----
(***************************************************************************)
(* prepare: the plan cached under the identity, or a new one.              *)
(***************************************************************************)
PlanKey(t) == token[t]

Prepare(t) ==
  /\ At(t, "prepare")
  /\ LET cached == {c \in plans : c.key = PlanKey(t)} IN
     /\ plans' = IF cached = {} THEN plans \cup {[key |-> PlanKey(t), for |-> using[t]]}
                                ELSE plans
     /\ served' = served \cup {<<c.for, using[t]>> : c \in cached}
  /\ pc' = [pc EXCEPT ![t] = "out"]
  /\ using' = [using EXCEPT ![t] = None]
  /\ token' = [token EXCEPT ![t] = 0]
  /\ UNCHANGED <<objectVars, answers, entries, lock, cleaning, calls, failures, tokens>>

Step(t) == Lock(t) \/ Known(t) \/ Unknown(t) \/ Register(t) \/ Prepare(t) \/ Cleanup(t)

Next ==
  \/ \E p \in Providers : New(p) \/ Drop(p) \/ \E t \in Threads : Collect(t, p)
  \/ \E t \in Threads : Begin(t) \/ CleanupRaises(t) \/ Step(t)

\* A thread that can run does.
Fairness == \A t \in Threads : WF_vars(Step(t))

Spec == Init /\ [][Next]_vars /\ Fairness
----
\* Every variable holds a value of its kind.
TypeOK ==
  /\ life \in [Providers -> {"unborn", "live", "garbage", "dying", "dead"}]
  /\ id \in [Providers -> Addresses \cup {None}]
  /\ entries \in [Addresses -> {None} \cup [owner : Providers, token : 1..tokens]]
  /\ lock \in Threads \cup {None}
  /\ pc \in [Threads -> {"out", "wait", "locked", "make", "prepare"}]
  /\ using \in [Threads -> Providers \cup {None}]
  /\ token \in [Threads -> 0..tokens]
  /\ cleaning \in [Threads -> Providers \cup {None}]
  /\ plans \subseteq [key : 1..tokens, for : Providers]
  /\ calls \in 0..MaxCalls /\ failures \in 0..MaxFailures /\ tokens \in Nat
  /\ answers \in [Providers -> SUBSET (1..tokens)]
  /\ served \subseteq Providers \X Providers

\* A provider has one generation as long as it lives, whichever threads ask,
\* so that its receipts and cached plans agree; and the registry does not grow
\* with the providers that died: an entry of a dead one is left only by a
\* callback that raised.
GenerationsKept ==
  /\ \A p \in Providers : Cardinality(answers[p]) <= 1
  /\ Cardinality({a \in Addresses : entries[a] # None /\ life[entries[a].owner] = "dead"})
       <= failures

\* A replacement never inherits the plan of the provider it replaced, even at
\* its address (preprocess_digest: "replacement cannot inherit a cached plan
\* through CPython address reuse").
NoInheritedPlan == \A s \in served : s[1] = s[2]

\* A callback waits for the lock its own thread holds.
SelfBlocked == \E t \in Threads : cleaning[t] # None /\ lock = t

Busy(t) == pc[t] # "out" \/ cleaning[t] # None

\* Every call returns, and every callback, unless the collector ran one inside
\* the lock.
OnlyCollectionBlocks ==
  <>SelfBlocked \/ \A t \in Threads : Busy(t) ~> ~Busy(t)

\* Every provider gets its generation: _owner_identity returns.
GenerationGiven == \A t \in Threads : pc[t] = "wait" ~> pc[t] = "prepare"
=============================================================================
