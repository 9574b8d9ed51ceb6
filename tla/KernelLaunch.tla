---------------------------- MODULE KernelLaunch ----------------------------
(***************************************************************************)
(* The way of a partitioned kernel call to its launch                      *)
(* (_verify_partitioned_source and _sm120_union of                         *)
(* sol_h3/partitioned_request.py): threads that share a sampling request   *)
(* verify the packaged source once for it, and compile each kernel once    *)
(* for the process.  Both are double-checked under a lock: the request's   *)
(* verification lock and the process-wide compile lock.                    *)
(*                                                                         *)
(* A step of a thread is what it does between two points where another     *)
(* thread can see or change what it works on.                              *)
(***************************************************************************)
EXTENDS Naturals, FiniteSets

CONSTANTS
  Threads,      \* threads that make kernel calls
  Requests,     \* sampling requests; a call without one is standalone
  Identities,   \* (SOURCE, REVISION, CONTRACT, verify_source)
  Keys,         \* structural compile keys
  None,         \* Python's None
  MaxCalls,     \* bound: kernel calls, in all
  MaxChanges    \* bound: changes of the source identity

ASSUME LaunchAssumption ==
  /\ MaxCalls \in Nat
  /\ MaxChanges \in Nat
  /\ Identities # {}
  /\ None \notin Threads \cup Requests \cup Identities \cup Keys

VARIABLES
  current,     \* the identity the provenance module has now
  trusted,     \* Request._partitioned_source_identity
  verifying,   \* Request._partitioned_source_verification_lock: its holder
  attempts,    \* Request.partitioned_source_verification_calls
  compiled,    \* interface._compiled: keys present
  compiling,   \* interface._compile_lock: its holder
  pc,          \* where each thread is
  call,        \* the call of each thread: its request, identity and key
  calls,       \* bound: calls made
  changes,     \* bound: identity changes
  before,      \* history: the trust the attempt in progress took away
  succeeded,   \* history: identities verified with success, for each request
  failures,    \* history: failed attempts of each request
  builds       \* history: finished compilations of each key

requestVars == <<trusted, verifying, attempts, before, succeeded, failures>>
compileVars == <<compiled, compiling, builds>>
boundVars == <<current, calls, changes>>
vars == <<requestVars, compileVars, boundVars, pc, call>>

NoCall == [request |-> None, identity |-> None, key |-> None]

Init ==
  /\ current \in Identities
  /\ trusted = [r \in Requests |-> None]
  /\ verifying = [r \in Requests |-> None]
  /\ attempts = [r \in Requests |-> 0]
  /\ compiled = {}
  /\ compiling = None
  /\ pc = [t \in Threads |-> "out"]
  /\ call = [t \in Threads |-> NoCall]
  /\ calls = 0
  /\ changes = 0
  /\ before = [r \in Requests |-> None]
  /\ succeeded = [r \in Requests |-> {}]
  /\ failures = [r \in Requests |-> 0]
  /\ builds = [k \in Keys |-> 0]

Goto(t, place) == pc' = [pc EXCEPT ![t] = place]

\* The call returns or raises.
End(t) ==
  /\ Goto(t, "out")
  /\ call' = [call EXCEPT ![t] = NoCall]
----
(***************************************************************************)
(* _verify_partitioned_source.                                             *)
(***************************************************************************)
\* A call begins, and reads the identity it will be checked under.
Begin(t) ==
  /\ pc[t] = "out" /\ calls < MaxCalls
  /\ calls' = calls + 1
  /\ \E r \in Requests \cup {None}, k \in Keys :
       /\ call' = [call EXCEPT ![t] = [request |-> r, identity |-> current, key |-> k]]
       /\ Goto(t, IF r = None THEN "standalone" ELSE "check")
  /\ UNCHANGED <<current, changes, requestVars, compileVars>>

\* Explicit standalone checks stay uncached.
Standalone(t) ==
  /\ pc[t] = "standalone"
  /\ \/ Goto(t, "lookup") /\ UNCHANGED call
     \/ End(t)
  /\ UNCHANGED <<boundVars, requestVars, compileVars>>

Trusts(t) == trusted[call[t].request] = call[t].identity

\* The check before the lock.
Check(t) ==
  /\ pc[t] = "check"
  /\ Goto(t, IF Trusts(t) THEN "lookup" ELSE "wait")
  /\ UNCHANGED <<boundVars, requestVars, compileVars, call>>

Lock(t) ==
  /\ pc[t] = "wait"
  /\ verifying[call[t].request] = None
  /\ verifying' = [verifying EXCEPT ![call[t].request] = t]
  /\ Goto(t, "locked")
  /\ UNCHANGED <<boundVars, compileVars, call, trusted, attempts,
                 before, succeeded, failures>>

Unlock(r) == verifying' = [verifying EXCEPT ![r] = None]

\* The same check under the lock.
\* Mutant: it is left out.
NoRecheck(t) == FALSE
Recheck(t) == Trusts(t)

Shared(t) ==
  /\ pc[t] = "locked"
  /\ Recheck(t)
  /\ Unlock(call[t].request)
  /\ Goto(t, "lookup")
  /\ UNCHANGED <<boundVars, compileVars, call, trusted, attempts,
                 before, succeeded, failures>>

\* Trust is taken away before the source is read.
\* Mutants: it stays until the attempt ends; the new identity is put there
\* already; an empty identity is, instead of None.
KeepTrust(t) == trusted
TrustEarly(t) == [trusted EXCEPT ![call[t].request] = call[t].identity]
TrustNothing(t) == [trusted EXCEPT ![call[t].request] = {}]
Distrust(t) == [trusted EXCEPT ![call[t].request] = None]

StartVerification(t) ==
  LET r == call[t].request IN
  /\ pc[t] = "locked"
  /\ ~Recheck(t)
  /\ before' = [before EXCEPT ![r] = trusted[r]]
  /\ trusted' = Distrust(t)
  /\ attempts' = [attempts EXCEPT ![r] = @ + 1]
  /\ Goto(t, "verify")
  /\ UNCHANGED <<boundVars, compileVars, call, verifying, succeeded, failures>>

VerificationSucceeds(t) ==
  LET r == call[t].request IN
  /\ pc[t] = "verify"
  /\ trusted' = [trusted EXCEPT ![r] = call[t].identity]
  /\ succeeded' = [succeeded EXCEPT ![r] = @ \cup {call[t].identity}]
  /\ before' = [before EXCEPT ![r] = None]
  /\ Unlock(r)
  /\ Goto(t, "lookup")
  /\ UNCHANGED <<boundVars, compileVars, call, attempts, failures>>

\* verify_source raises: the lock is released and the call ends.
\* Mutant: the lock is kept.
KeepLock(r) == UNCHANGED verifying
ReleaseOnFailure(r) == Unlock(r)

VerificationFails(t) ==
  LET r == call[t].request IN
  /\ pc[t] = "verify"
  /\ failures' = [failures EXCEPT ![r] = @ + 1]
  /\ before' = [before EXCEPT ![r] = None]
  /\ ReleaseOnFailure(r)
  /\ End(t)
  /\ UNCHANGED <<boundVars, compileVars, trusted, attempts, succeeded>>
----
(***************************************************************************)
(* _sm120_union: the compiled kernel.                                      *)
(***************************************************************************)
Compiled(t) == call[t].key \in compiled

\* The arguments are refused, or prepared and the kernel is looked for.
Lookup(t) ==
  /\ pc[t] = "lookup"
  /\ \/ End(t)
     \/ /\ Goto(t, IF Compiled(t) THEN "launch" ELSE "waitCompile")
        /\ UNCHANGED call
  /\ UNCHANGED <<boundVars, requestVars, compileVars>>

LockCompile(t) ==
  /\ pc[t] = "waitCompile"
  /\ compiling = None
  /\ compiling' = t
  /\ Goto(t, "compileLocked")
  /\ UNCHANGED <<boundVars, requestVars, compiled, builds, call>>

CompiledMeanwhile(t) == Compiled(t)

UseCompiled(t) ==
  /\ pc[t] = "compileLocked"
  /\ CompiledMeanwhile(t)
  /\ compiling' = None
  /\ Goto(t, "launch")
  /\ UNCHANGED <<boundVars, requestVars, compiled, builds, call>>

Compile(t) ==
  /\ pc[t] = "compileLocked"
  /\ ~CompiledMeanwhile(t)
  /\ compiling' = None
  /\ \/ /\ compiled' = compiled \cup {call[t].key}
        /\ builds' = [builds EXCEPT ![call[t].key] = @ + 1]
        /\ Goto(t, "launch")
        /\ UNCHANGED call
     \/ /\ End(t)
        /\ UNCHANGED <<compiled, builds>>
  /\ UNCHANGED <<boundVars, requestVars>>

Launch(t) ==
  /\ pc[t] = "launch"
  /\ End(t)
  /\ UNCHANGED <<boundVars, requestVars, compileVars>>

\* The provenance module is replaced or patched in the running process.
ChangeIdentity ==
  /\ changes < MaxChanges
  /\ changes' = changes + 1
  /\ current' \in Identities \ {current}
  /\ UNCHANGED <<calls, requestVars, compileVars, pc, call>>

\* One step of the call a thread is in.
Step(t) ==
  \/ Standalone(t) \/ Check(t) \/ Lock(t) \/ Shared(t) \/ StartVerification(t)
  \/ VerificationSucceeds(t) \/ VerificationFails(t)
  \/ Lookup(t) \/ LockCompile(t) \/ UseCompiled(t) \/ Compile(t) \/ Launch(t)

Next == ChangeIdentity \/ \E t \in Threads : Begin(t) \/ Step(t)

\* A thread that can run does: the computations in a call end, and the calls
\* that compete for a lock are finitely many.
Fairness == \A t \in Threads : WF_vars(Step(t))

Spec == Init /\ [][Next]_vars /\ Fairness
----
Undecided == {"check", "wait", "locked", "verify"}
Places ==
  Undecided \cup {"out", "standalone", "lookup", "waitCompile", "compileLocked", "launch"}

\* Every variable holds a value of its kind.
TypeOK ==
  /\ current \in Identities
  /\ trusted \in [Requests -> Identities \cup {None}]
  /\ verifying \in [Requests -> Threads \cup {None}]
  /\ attempts \in [Requests -> Nat]
  /\ compiled \in SUBSET Keys
  /\ compiling \in Threads \cup {None}
  /\ pc \in [Threads -> Places]
  /\ call \in [Threads -> [request : Requests \cup {None}, identity : Identities \cup {None},
                           key : Keys \cup {None}]]
  /\ calls \in Nat /\ changes \in Nat
  /\ before \in [Requests -> Identities \cup {None}]
  /\ succeeded \in [Requests -> SUBSET Identities]
  /\ failures \in [Requests -> Nat]
  /\ builds \in [Keys -> Nat]

\* No kernel of a request is launched, or even looked up, under an identity
\* whose source was not verified with success by that same request; trust is
\* never inherited from another request or from a failed attempt.
LaunchesVerified ==
  \A t \in Threads :
    (call[t].request # None /\ pc[t] \notin {"out"} \cup Undecided) =>
      call[t].identity \in succeeded[call[t].request]

\* Concurrent first entries share one attempt, and one compilation: while the
\* source identity is the same, a request verifies again only after a failure,
\* and the process builds each kernel at most once.
WorkShared ==
  /\ changes = 0 => \A r \in Requests : attempts[r] <= 1 + failures[r]
  /\ \A k \in Keys : builds[k] <= 1

\* Every call ends: no thread is left waiting for a lock.
CallsEnd == \A t \in Threads : pc[t] # "out" ~> pc[t] = "out"

\* The double-checked locking decides like SourceTrust: at once, and for each
\* request by itself.  While an attempt is in progress nothing is decided
\* under the trust it took away, so that trust may be taken to be there still.
Verifies(t, r) == pc[t] = "verify" /\ call[t].request = r
Verified(r) == \E t \in Threads : Verifies(t, r)
Held == [r \in Requests |-> IF Verified(r) THEN before[r] ELSE trusted[r]]
Asked == [t \in Threads |-> IF pc[t] \in Undecided THEN call[t].identity ELSE None]
Owner == [t \in Threads |-> IF pc[t] \in Undecided THEN call[t].request ELSE None]

Trust == INSTANCE SourceTrust WITH trusted <- Held, asked <- Asked, owner <- Owner

DecidesAtOnce == Trust!Spec
=============================================================================
