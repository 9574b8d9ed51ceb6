--------------------------- MODULE ThreadsProofs ---------------------------
(***************************************************************************)
(* Theorems about the process under its threads.  First those about the    *)
(* way to a kernel launch, for any number of threads, requests, identities *)
(* and kernels: nothing is launched unverified, work is shared, and the    *)
(* double-checked locking implements SourceTrust.  Then the inductive      *)
(* invariant of owner generations, and that both carry over to the process *)
(* in which they are two scenes.                                           *)
(***************************************************************************)
EXTENDS MCThreads, FiniteSetTheorems, TLAPS

\* What the call of a thread is, by the place the thread is at.
CallsFit ==
  \A t \in Threads :
    /\ pc[t] # "out" => call[t].key \in Keys
    /\ pc[t] = "standalone" => call[t].request = None
    /\ pc[t] \in Undecided => call[t].request \in Requests /\ call[t].identity \in Identities

\* A thread past the lock holds it; while it verifies, the request has no
\* trust, and had none in this identity before.
Holding ==
  \A t \in Threads :
    LET r == call[t].request IN
    /\ pc[t] \in {"locked", "verify"} => verifying[r] = t
    /\ pc[t] = "verify" => trusted[r] = None /\ before[r] # call[t].identity

TrustEarned == \A r \in Requests : trusted[r] # None => trusted[r] \in succeeded[r]

\* Until the identity changes every call has the same one, and an attempt is
\* in progress, has succeeded, or is among the failures.
Counted ==
  changes = 0 =>
    /\ \A t \in Threads : call[t].identity \in {None, current}
    /\ \A r \in Requests :
         /\ trusted[r] \in {None, current}
         /\ attempts[r] <= 1 + failures[r]
         /\ trusted[r] = None /\ ~Verified(r) => attempts[r] <= failures[r]

BuiltOnce == \A k \in Keys : builds[k] = IF k \in compiled THEN 1 ELSE 0

\* The inductive invariant.
IInv ==
  /\ TypeOK /\ CallsFit /\ Holding /\ TrustEarned /\ LaunchesVerified
  /\ Counted /\ BuiltOnce

\* Nothing has begun.
LEMMA InitIInv == Init => IInv
  BY LaunchAssumption
  DEF Init, IInv, TypeOK, CallsFit, Holding, TrustEarned, LaunchesVerified, Counted, BuiltOnce,
      Verified, Verifies, NoCall, Places, Undecided

\* A call that moves on keeps the types of its place and of itself.
LEMMA Moves ==
  ASSUME TypeOK, NEW t \in Threads, NEW to \in Places, Goto(t, to), UNCHANGED call
  PROVE  /\ pc' \in [Threads -> Places]
         /\ call' \in [Threads -> [request : Requests \cup {None}, identity : Identities \cup {None},
                                   key : Keys \cup {None}]]
  BY DEF TypeOK, Goto

\* The same for a call that ends.
LEMMA Ends ==
  ASSUME TypeOK, NEW t \in Threads, End(t)
  PROVE  /\ pc' \in [Threads -> Places]
         /\ call' \in [Threads -> [request : Requests \cup {None}, identity : Identities \cup {None},
                                   key : Keys \cup {None}]]
  BY DEF TypeOK, End, Goto, NoCall, Places

\* Thread t takes a step of its call, and stays outside the lock of a request.
Moved(t) ==
  \/ \E to \in {"lookup", "waitCompile", "compileLocked", "launch"} : Goto(t, to) /\ UNCHANGED call
  \/ End(t)

\* What such a step does to the calls and to the verifications in progress.
LEMMA MovedCalls ==
  ASSUME TypeOK, NEW t \in Threads, pc[t] # "verify", Moved(t)
  PROVE  /\ pc' \in [Threads -> Places]
         /\ call' \in [Threads -> [request : Requests \cup {None}, identity : Identities \cup {None},
                                   key : Keys \cup {None}]]
         /\ \A u \in Threads \ {t} : pc'[u] = pc[u] /\ call'[u] = call[u]
         /\ \/ pc'[t] = "out" /\ call'[t] = NoCall
            \/ /\ pc'[t] \in {"lookup", "waitCompile", "compileLocked", "launch"}
               /\ call'[t] = call[t]
         /\ \A q \in Requests : Verified(q)' <=> Verified(q)
<1>1. CASE End(t)
  <2>1. /\ pc' \in [Threads -> Places]
        /\ call' \in [Threads -> [request : Requests \cup {None}, identity : Identities \cup {None},
                                  key : Keys \cup {None}]]
    BY <1>1, Ends
  <2>2. /\ \A u \in Threads \ {t} : pc'[u] = pc[u] /\ call'[u] = call[u]
        /\ pc'[t] = "out" /\ call'[t] = NoCall
    BY <1>1 DEF End, Goto, TypeOK
  <2> QED BY <2>1, <2>2 DEF Verified, Verifies
<1>2. ASSUME NEW to \in {"lookup", "waitCompile", "compileLocked", "launch"},
             Goto(t, to), UNCHANGED call
      PROVE  /\ pc' \in [Threads -> Places]
             /\ \A u \in Threads \ {t} : pc'[u] = pc[u]
             /\ pc'[t] = to
  BY <1>2 DEF Goto, TypeOK, Places
<1>3. CASE ~End(t)
  <2>1. PICK to \in {"lookup", "waitCompile", "compileLocked", "launch"} :
          Goto(t, to) /\ UNCHANGED call
    BY <1>3 DEF Moved
  <2>2. /\ pc' \in [Threads -> Places]
        /\ \A u \in Threads \ {t} : pc'[u] = pc[u]
        /\ pc'[t] = to
    BY <2>1, <1>2
  <2>3. \A q \in Requests : Verified(q)' <=> Verified(q)
    BY <2>1, <2>2 DEF Verified, Verifies
  <2> QED BY <2>1, <2>2, <2>3 DEF TypeOK
<1> QED BY <1>1, <1>3

\* The count is kept by a step that neither begins nor ends an attempt.
LEMMA CountedKept ==
  ASSUME Counted, UNCHANGED <<current, changes, trusted, attempts, failures>>,
         \A u \in Threads : call'[u].identity \in {call[u].identity, None},
         \A q \in Requests : Verified(q)' <=> Verified(q)
  PROVE  Counted'
  BY DEF Counted

\* A step past the decision, or of a call that needs none, keeps all that is
\* about requests.
LEMMA MovedIInv ==
  ASSUME IInv, NEW t \in Threads, pc[t] \notin Undecided, pc[t] # "out", Moved(t),
         UNCHANGED <<boundVars, requestVars>>
  PROVE  CallsFit' /\ Holding' /\ TrustEarned' /\ LaunchesVerified' /\ Counted'
<1>1. /\ \A u \in Threads \ {t} : pc'[u] = pc[u] /\ call'[u] = call[u]
      /\ \/ pc'[t] = "out" /\ call'[t] = NoCall
         \/ /\ pc'[t] \in {"lookup", "waitCompile", "compileLocked", "launch"}
            /\ call'[t] = call[t]
      /\ \A q \in Requests : Verified(q)' <=> Verified(q)
  BY MovedCalls DEF IInv, Undecided
<1>2. CallsFit'
  BY <1>1 DEF IInv, CallsFit, Undecided
<1>3. Holding'
  BY <1>1 DEF IInv, Holding, requestVars
<1>4. TrustEarned'
  BY DEF IInv, TrustEarned, requestVars
<1>5. LaunchesVerified'
  BY <1>1 DEF IInv, LaunchesVerified, requestVars, NoCall
<1>6. \A u \in Threads : call'[u].identity \in {call[u].identity, None}
  BY <1>1 DEF NoCall
<1>7. Counted'
  BY <1>1, <1>6, CountedKept DEF IInv, requestVars, boundVars
<1> QED BY <1>2, <1>3, <1>4, <1>5, <1>7

\* A call begins with the current identity.
LEMMA BeginIInv == ASSUME IInv, NEW t \in Threads, Begin(t) PROVE IInv'
<1> USE LaunchAssumption DEF IInv, TypeOK, Begin, Goto, requestVars, compileVars, Places,
      Undecided
<1>1. TypeOK'
  OBVIOUS
<1>2. TrustEarned' /\ BuiltOnce'
  BY DEF TrustEarned, BuiltOnce
<1>3. CallsFit'
  BY DEF CallsFit
<1>4. Holding'
  BY DEF CallsFit, Holding
<1>5. LaunchesVerified'
  BY DEF CallsFit, LaunchesVerified, TrustEarned
<1>6. Counted'
  <2>1. \A q \in Requests : Verified(q)' <=> Verified(q)
    BY DEF Verified, Verifies
  <2>2. \A u \in Threads : call'[u].identity \in {call[u].identity, current}
    OBVIOUS
  <2> QED BY <2>1, <2>2 DEF Counted
<1> QED BY <1>1, <1>2, <1>3, <1>4, <1>5, <1>6

\* An explicit check is made, which no request remembers.
LEMMA StandaloneIInv == ASSUME IInv, NEW t \in Threads, Standalone(t) PROVE IInv'
<1>1. pc[t] \notin Undecided /\ pc[t] # "out" /\ Moved(t) /\ UNCHANGED <<boundVars, requestVars>>
  BY DEF Standalone, Moved, Undecided
<1>2. CallsFit' /\ Holding' /\ TrustEarned' /\ LaunchesVerified' /\ Counted'
  BY <1>1, MovedIInv
<1>3. /\ pc' \in [Threads -> Places]
      /\ call' \in [Threads -> [request : Requests \cup {None}, identity : Identities \cup {None},
                                key : Keys \cup {None}]]
  BY <1>1, MovedCalls DEF IInv, Undecided
<1>4. TypeOK' /\ BuiltOnce'
  BY <1>1, <1>3 DEF IInv, TypeOK, BuiltOnce, Standalone, boundVars, requestVars, compileVars
<1> QED BY <1>2, <1>4 DEF IInv

\* Outside the lock a call is let through only on trust that was earned.
LEMMA CheckIInv == ASSUME IInv, NEW t \in Threads, Check(t) PROVE IInv'
<1> USE LaunchAssumption DEF IInv, TypeOK, Check, Goto, Trusts, boundVars, requestVars,
      compileVars, Places, Undecided
<1>1. TypeOK'
  OBVIOUS
<1>2. TrustEarned' /\ BuiltOnce'
  BY DEF TrustEarned, BuiltOnce
<1>3. CallsFit'
  BY DEF CallsFit
<1>4. Holding'
  BY DEF CallsFit, Holding
<1>5. LaunchesVerified'
  BY DEF CallsFit, LaunchesVerified, TrustEarned
<1>6. Counted'
  <2>1. \A q \in Requests : Verified(q)' <=> Verified(q)
    BY DEF Verified, Verifies
  <2> QED BY <2>1, CountedKept
<1> QED BY <1>1, <1>2, <1>3, <1>4, <1>5, <1>6

\* The lock was free, so nobody verifies for this request.
LEMMA LockIInv == ASSUME IInv, NEW t \in Threads, Lock(t) PROVE IInv'
<1> USE LaunchAssumption DEF IInv, TypeOK, Lock, Goto, boundVars, compileVars, Places,
      Undecided
<1>1. TypeOK'
  OBVIOUS
<1>2. TrustEarned' /\ BuiltOnce'
  BY DEF TrustEarned, BuiltOnce
<1>3. CallsFit'
  BY DEF CallsFit
<1>4. Holding'
  BY DEF CallsFit, Holding
<1>5. LaunchesVerified'
  BY DEF CallsFit, LaunchesVerified, TrustEarned
<1>6. Counted'
  <2>1. \A q \in Requests : Verified(q)' <=> Verified(q)
    BY DEF Verified, Verifies
  <2> QED BY <2>1, CountedKept
<1> QED BY <1>1, <1>2, <1>3, <1>4, <1>5, <1>6

\* Under the lock too a call is let through only on trust that was earned.
LEMMA SharedIInv == ASSUME IInv, NEW t \in Threads, Shared(t) PROVE IInv'
<1> USE LaunchAssumption DEF IInv, TypeOK, Shared, Recheck, Trusts, Unlock, Goto, boundVars,
      compileVars, Places, Undecided
<1>1. TypeOK'
  OBVIOUS
<1>2. TrustEarned' /\ BuiltOnce'
  BY DEF TrustEarned, BuiltOnce
<1>3. CallsFit'
  BY DEF CallsFit
<1>4. Holding'
  BY DEF CallsFit, Holding
<1>5. LaunchesVerified'
  BY DEF CallsFit, LaunchesVerified, TrustEarned
<1>6. Counted'
  <2>1. \A q \in Requests : Verified(q)' <=> Verified(q)
    BY DEF Verified, Verifies
  <2> QED BY <2>1, CountedKept
<1> QED BY <1>1, <1>2, <1>3, <1>4, <1>5, <1>6

\* Without an identity change the attempt is the first since the last failure.
LEMMA StartVerificationIInv == ASSUME IInv, NEW t \in Threads, StartVerification(t) PROVE IInv'
<1> USE LaunchAssumption DEF IInv, TypeOK, StartVerification, Recheck, Trusts, Distrust, Goto,
      boundVars, compileVars, Places, Undecided
<1>1. TypeOK'
  <2>1. call[t].request \in Requests /\ call[t].identity \in Identities
    BY DEF CallsFit
  <2>2. /\ pc' \in [Threads -> Places]
        /\ call' \in [Threads -> [request : Requests \cup {None}, identity : Identities \cup {None},
                                  key : Keys \cup {None}]]
    BY Moves
  <2>3. trusted' \in [Requests -> Identities \cup {None}]
    OBVIOUS
  <2>4. before' \in [Requests -> Identities \cup {None}]
    BY <2>1
  <2>5. attempts' \in [Requests -> Nat]
    BY <2>1
  <2> QED BY <2>2, <2>3, <2>4, <2>5
<1>2. BuiltOnce'
  BY DEF BuiltOnce
<1>3. CallsFit'
  BY DEF CallsFit
<1>4. Holding'
  BY DEF CallsFit, Holding
<1>5. LaunchesVerified'
  BY DEF CallsFit, LaunchesVerified, TrustEarned
<1>6. Counted'
  BY DEF CallsFit, Holding, Counted, Verified, Verifies
<1>7. TrustEarned'
  BY DEF CallsFit, TrustEarned
<1> QED BY <1>1, <1>2, <1>3, <1>4, <1>5, <1>6, <1>7

\* Trust is given to an identity just verified with success.
LEMMA VerificationSucceedsIInv == ASSUME IInv, NEW t \in Threads, VerificationSucceeds(t) PROVE IInv'
<1> USE LaunchAssumption DEF IInv, TypeOK, VerificationSucceeds, Unlock, Goto, boundVars,
      compileVars, Places, Undecided
<1>1. TypeOK'
  <2>1. call[t].request \in Requests /\ call[t].identity \in Identities
    BY DEF CallsFit
  <2>2. /\ pc' \in [Threads -> Places]
        /\ call' \in [Threads -> [request : Requests \cup {None}, identity : Identities \cup {None},
                                  key : Keys \cup {None}]]
    BY Moves
  <2>3. trusted' \in [Requests -> Identities \cup {None}]
    BY <2>1
  <2>4. before' \in [Requests -> Identities \cup {None}]
    OBVIOUS
  <2>5. succeeded' \in [Requests -> SUBSET Identities]
    BY <2>1
  <2>6. verifying' \in [Requests -> Threads \cup {None}]
    OBVIOUS
  <2> QED BY <2>2, <2>3, <2>4, <2>5, <2>6
<1>2. BuiltOnce'
  BY DEF BuiltOnce
<1>3. CallsFit'
  BY DEF CallsFit
<1>4. Holding'
  BY DEF CallsFit, Holding
<1>5. LaunchesVerified'
  BY DEF CallsFit, LaunchesVerified, TrustEarned
<1>6. Counted'
  BY DEF CallsFit, Holding, Counted, Verified, Verifies
<1>7. TrustEarned'
  BY DEF CallsFit, TrustEarned
<1> QED BY <1>1, <1>2, <1>3, <1>4, <1>5, <1>6, <1>7

\* The failure makes up for the attempt.
LEMMA VerificationFailsIInv == ASSUME IInv, NEW t \in Threads, VerificationFails(t) PROVE IInv'
<1> USE LaunchAssumption DEF IInv, TypeOK, VerificationFails, ReleaseOnFailure, Unlock, End,
      Goto, NoCall, boundVars, compileVars, Places, Undecided
<1>1. TypeOK'
  <2>1. call[t].request \in Requests /\ call[t].identity \in Identities
    BY DEF CallsFit
  <2>2. /\ pc' \in [Threads -> Places]
        /\ call' \in [Threads -> [request : Requests \cup {None}, identity : Identities \cup {None},
                                  key : Keys \cup {None}]]
    BY Ends
  <2>3. before' \in [Requests -> Identities \cup {None}]
    OBVIOUS
  <2>4. failures' \in [Requests -> Nat]
    BY <2>1
  <2>5. verifying' \in [Requests -> Threads \cup {None}]
    OBVIOUS
  <2> QED BY <2>2, <2>3, <2>4, <2>5
<1>2. TrustEarned' /\ BuiltOnce'
  BY DEF TrustEarned, BuiltOnce
<1>3. CallsFit'
  BY DEF CallsFit
<1>4. Holding'
  BY DEF CallsFit, Holding
<1>5. LaunchesVerified'
  BY DEF CallsFit, LaunchesVerified, TrustEarned
<1>6. Counted'
  BY DEF CallsFit, Holding, Counted, Verified, Verifies
<1> QED BY <1>1, <1>2, <1>3, <1>4, <1>5, <1>6

\* The kernel is looked for by calls that may run.
LEMMA LookupIInv == ASSUME IInv, NEW t \in Threads, Lookup(t) PROVE IInv'
<1>1. pc[t] \notin Undecided /\ pc[t] # "out" /\ Moved(t) /\ UNCHANGED <<boundVars, requestVars>>
  BY DEF Lookup, Moved, Undecided
<1>2. CallsFit' /\ Holding' /\ TrustEarned' /\ LaunchesVerified' /\ Counted'
  BY <1>1, MovedIInv
<1>3. /\ pc' \in [Threads -> Places]
      /\ call' \in [Threads -> [request : Requests \cup {None}, identity : Identities \cup {None},
                                key : Keys \cup {None}]]
  BY <1>1, MovedCalls DEF IInv, Undecided
<1>4. TypeOK' /\ BuiltOnce'
  BY <1>1, <1>3 DEF IInv, TypeOK, BuiltOnce, Lookup, boundVars, requestVars, compileVars
<1> QED BY <1>2, <1>4 DEF IInv

\* Nothing changes but the lock's holder.
LEMMA LockCompileIInv == ASSUME IInv, NEW t \in Threads, LockCompile(t) PROVE IInv'
<1>1. pc[t] \notin Undecided /\ pc[t] # "out" /\ Moved(t) /\ UNCHANGED <<boundVars, requestVars>>
  BY DEF LockCompile, Moved, Undecided
<1>2. CallsFit' /\ Holding' /\ TrustEarned' /\ LaunchesVerified' /\ Counted'
  BY <1>1, MovedIInv
<1>3. /\ pc' \in [Threads -> Places]
      /\ call' \in [Threads -> [request : Requests \cup {None}, identity : Identities \cup {None},
                                key : Keys \cup {None}]]
  BY <1>1, MovedCalls DEF IInv, Undecided
<1>4. TypeOK' /\ BuiltOnce'
  BY <1>1, <1>3 DEF IInv, TypeOK, BuiltOnce, LockCompile, boundVars, requestVars, compileVars
<1> QED BY <1>2, <1>4 DEF IInv

\* The kernel that was built meanwhile is used.
LEMMA UseCompiledIInv == ASSUME IInv, NEW t \in Threads, UseCompiled(t) PROVE IInv'
<1>1. pc[t] \notin Undecided /\ pc[t] # "out" /\ Moved(t) /\ UNCHANGED <<boundVars, requestVars>>
  BY DEF UseCompiled, Moved, Undecided
<1>2. CallsFit' /\ Holding' /\ TrustEarned' /\ LaunchesVerified' /\ Counted'
  BY <1>1, MovedIInv
<1>3. /\ pc' \in [Threads -> Places]
      /\ call' \in [Threads -> [request : Requests \cup {None}, identity : Identities \cup {None},
                                key : Keys \cup {None}]]
  BY <1>1, MovedCalls DEF IInv, Undecided
<1>4. TypeOK' /\ BuiltOnce'
  BY <1>1, <1>3 DEF IInv, TypeOK, BuiltOnce, UseCompiled, boundVars, requestVars, compileVars
<1> QED BY <1>2, <1>4 DEF IInv

\* A kernel is built by whoever holds the lock and does not find it.
LEMMA CompileIInv == ASSUME IInv, NEW t \in Threads, Compile(t) PROVE IInv'
<1>1. pc[t] \notin Undecided /\ pc[t] # "out" /\ Moved(t) /\ UNCHANGED <<boundVars, requestVars>>
  BY DEF Compile, Moved, Undecided
<1>2. CallsFit' /\ Holding' /\ TrustEarned' /\ LaunchesVerified' /\ Counted'
  BY <1>1, MovedIInv
<1>3. /\ pc' \in [Threads -> Places]
      /\ call' \in [Threads -> [request : Requests \cup {None}, identity : Identities \cup {None},
                                key : Keys \cup {None}]]
  BY <1>1, MovedCalls DEF IInv, Undecided
<1>4. call[t].key \in Keys
  BY DEF IInv, CallsFit, Compile
<1>5. compiled' \in SUBSET Keys /\ builds' \in [Keys -> Nat]
  BY <1>4 DEF IInv, TypeOK, Compile
<1>6. TypeOK'
  BY <1>1, <1>3, <1>5 DEF IInv, TypeOK, Compile, boundVars, requestVars
<1>7. BuiltOnce'
  BY <1>4 DEF IInv, TypeOK, BuiltOnce, Compile, CompiledMeanwhile, Compiled
<1> QED BY <1>2, <1>6, <1>7 DEF IInv

\* The call ends.
LEMMA LaunchIInv == ASSUME IInv, NEW t \in Threads, Launch(t) PROVE IInv'
<1>1. pc[t] \notin Undecided /\ pc[t] # "out" /\ Moved(t) /\ UNCHANGED <<boundVars, requestVars>>
  BY DEF Launch, Moved, Undecided
<1>2. CallsFit' /\ Holding' /\ TrustEarned' /\ LaunchesVerified' /\ Counted'
  BY <1>1, MovedIInv
<1>3. /\ pc' \in [Threads -> Places]
      /\ call' \in [Threads -> [request : Requests \cup {None}, identity : Identities \cup {None},
                                key : Keys \cup {None}]]
  BY <1>1, MovedCalls DEF IInv, Undecided
<1>4. TypeOK' /\ BuiltOnce'
  BY <1>1, <1>3 DEF IInv, TypeOK, BuiltOnce, Launch, boundVars, requestVars, compileVars
<1> QED BY <1>2, <1>4 DEF IInv

\* The identity changes under the calls in progress, which keep theirs.
LEMMA ChangeIdentityIInv == IInv /\ ChangeIdentity => IInv'
  BY DEF IInv, TypeOK, CallsFit, Holding, TrustEarned, LaunchesVerified, Counted, BuiltOnce,
         Verified, Verifies, ChangeIdentity, requestVars, compileVars

\* A stuttering step changes nothing.
LEMMA StutterIInv == IInv /\ UNCHANGED vars => IInv'
  BY DEF IInv, TypeOK, CallsFit, Holding, TrustEarned, LaunchesVerified, Counted, BuiltOnce,
         Verified, Verifies, vars, requestVars, compileVars, boundVars

\* Every step keeps the inductive invariant.
LEMMA NextIInv == IInv /\ [Next]_vars => IInv'
<1> SUFFICES ASSUME IInv, [Next]_vars PROVE IInv'
  OBVIOUS
<1>1. CASE ChangeIdentity
  BY <1>1, ChangeIdentityIInv
<1>2. ASSUME NEW t \in Threads, Begin(t) PROVE IInv'
  BY <1>2, BeginIInv
<1>3. ASSUME NEW t \in Threads, Step(t) PROVE IInv'
  BY <1>3, StandaloneIInv, CheckIInv, LockIInv, SharedIInv, StartVerificationIInv,
     VerificationSucceedsIInv, VerificationFailsIInv, LookupIInv, LockCompileIInv,
     UseCompiledIInv, CompileIInv, LaunchIInv DEF Step
<1>4. CASE UNCHANGED vars
  BY <1>4, StutterIInv
<1> QED BY <1>1, <1>2, <1>3, <1>4 DEF Next

\* Every reachable state satisfies the inductive invariant.
THEOREM LaunchCorrect == Spec => []IInv
  BY InitIInv, NextIInv, PTL DEF Spec

\* No kernel is launched under an identity whose source its request did not
\* verify with success (_verify_partitioned_source).
THEOREM LaunchesVerifiedTheorem == Spec => []LaunchesVerified
<1>1. IInv => LaunchesVerified
  BY DEF IInv
<1> QED BY <1>1, LaunchCorrect, PTL

\* Threads share one verification and one compilation (the checks under the
\* locks of _verify_partitioned_source and _sm120_union).
THEOREM WorkSharedTheorem == Spec => []WorkShared
<1>1. IInv => WorkShared
  BY DEF IInv, Counted, BuiltOnce, WorkShared
<1> QED BY <1>1, LaunchCorrect, PTL
-----------------------------------------------------------------------------
(***************************************************************************)
(* The refinement of SourceTrust.                                          *)
(***************************************************************************)
\* A function that differs from another at one place at most.
LEMMA OneChanged ==
  ASSUME NEW S, NEW f, NEW g, f = [x \in S |-> f[x]], g = [x \in S |-> g[x]], NEW r \in S,
         \A q \in S \ {r} : g[q] = f[q]
  PROVE  g = [f EXCEPT ![r] = g[r]]
  OBVIOUS

\* A request somebody holds the lock of is verified by nobody else.
LEMMA OneVerifier ==
  ASSUME IInv, NEW t \in Threads, pc[t] \in {"locked", "verify"},
         NEW u \in Threads, u # t
  PROVE  ~Verifies(u, call[t].request)
  BY DEF IInv, Holding, Verifies

\* A request with trust is verified by nobody.
LEMMA TrustedUnverified ==
  ASSUME IInv, NEW r \in Requests, trusted[r] # None
  PROVE  ~Verified(r)
  BY DEF IInv, Holding, Verified, Verifies

\* Away from the verification nothing of SourceTrust changes.
LEMMA ElsewhereStutters ==
  ASSUME IInv, NEW t \in Threads,
         \/ Standalone(t) \/ Lock(t) \/ Lookup(t) \/ LockCompile(t) \/ UseCompiled(t)
         \/ Compile(t) \/ Launch(t)
  PROVE  UNCHANGED <<Held, Asked, Owner>>
<1> USE DEF IInv, TypeOK, Standalone, Lock, Lookup, LockCompile, UseCompiled, Compile, Launch,
      Goto, End, NoCall, requestVars, compileVars, boundVars, Undecided
<1>1. Asked' = Asked /\ Owner' = Owner
  BY DEF Asked, Owner
<1>2. \A r \in Requests : Verified(r)' <=> Verified(r)
  BY DEF Verified, Verifies
<1>3. Held' = Held
  BY <1>2 DEF Held
<1> QED BY <1>1, <1>3

\* The thread's call is decided, as far as SourceTrust sees it.
LEMMA Decides ==
  ASSUME IInv, NEW t \in Threads, pc[t] \in Undecided,
         NEW to \in Places \ Undecided, (Goto(t, to) /\ UNCHANGED call) \/ End(t)
  PROVE  /\ Asked[t] = call[t].identity /\ Owner[t] = call[t].request /\ Asked[t] # None
         /\ Asked' = [Asked EXCEPT ![t] = None]
         /\ Owner' = [Owner EXCEPT ![t] = None]
<1>1. Asked[t] = call[t].identity /\ Owner[t] = call[t].request /\ Asked[t] # None
  BY LaunchAssumption DEF IInv, CallsFit, Asked, Owner
<1>2. /\ pc'[t] \notin Undecided
      /\ \A u \in Threads \ {t} : pc'[u] = pc[u] /\ call'[u] = call[u]
  BY DEF IInv, TypeOK, Goto, End, Undecided
<1>3. Asked' = [Asked EXCEPT ![t] = None]
  BY <1>2 DEF Asked
<1>4. Owner' = [Owner EXCEPT ![t] = None]
  BY <1>2 DEF Owner
<1> QED BY <1>1, <1>3, <1>4

\* A call that finds trust is decided by it, before the lock or under it.
LEMMA TrustingShares ==
  ASSUME IInv, NEW t \in Threads, (Check(t) /\ Trusts(t)) \/ Shared(t)
  PROVE  Trust!Share(t)
<1> DEFINE r == call[t].request
<1>1. pc[t] \in Undecided /\ r \in Requests /\ trusted[r] = call[t].identity /\ trusted[r] # None
  BY LaunchAssumption DEF IInv, CallsFit, Check, Shared, Recheck, Trusts, Undecided
<1>2. Goto(t, "lookup") /\ UNCHANGED <<call, trusted, before>>
  BY DEF Check, Shared, requestVars
<1>3. /\ Asked[t] = call[t].identity /\ Owner[t] = r /\ Asked[t] # None
      /\ Asked' = [Asked EXCEPT ![t] = None] /\ Owner' = [Owner EXCEPT ![t] = None]
  BY <1>1, <1>2, Decides DEF Places, Undecided
<1>4. \A q \in Requests : Verified(q)' <=> Verified(q)
  BY <1>1, <1>2 DEF Verified, Verifies, Goto, IInv, TypeOK, Check, Shared
<1>5. Held' = Held /\ Held[r] = call[t].identity
  BY <1>1, <1>2, <1>4, TrustedUnverified DEF Held
<1> QED BY <1>3, <1>5 DEF Trust!Share, Trust!Decided

\* A call that finds none waits, and holds what it takes away.
LEMMA WaitingStutters ==
  ASSUME IInv, NEW t \in Threads, (Check(t) /\ ~Trusts(t)) \/ StartVerification(t)
  PROVE  UNCHANGED <<Held, Asked, Owner>>
<1> DEFINE r == call[t].request
<1> USE DEF IInv, TypeOK, Check, StartVerification, Goto, requestVars, Undecided, Distrust
<1>1. Asked' = Asked /\ Owner' = Owner
  BY DEF Asked, Owner
<1>2. CASE Check(t) /\ ~Trusts(t)
  <2>1. \A q \in Requests : Verified(q)' <=> Verified(q)
    BY <1>2 DEF Verified, Verifies
  <2> QED BY <1>1, <1>2, <2>1 DEF Held
<1>3. CASE StartVerification(t)
  <2>1. r \in Requests /\ ~Verified(r) /\ Verified(r)' /\ before'[r] = trusted[r]
    BY <1>3, OneVerifier DEF Verified, Verifies, CallsFit
  <2>2. \A q \in Requests \ {r} :
          /\ Verified(q)' <=> Verified(q)
          /\ before'[q] = before[q] /\ trusted'[q] = trusted[q]
    BY <1>3 DEF Verified, Verifies
  <2> QED BY <1>1, <2>1, <2>2 DEF Held
<1> QED BY <1>2, <1>3

\* An attempt decides its call, by success or by failure.
LEMMA AttemptVerifies ==
  ASSUME IInv, NEW t \in Threads, VerificationSucceeds(t) \/ VerificationFails(t)
  PROVE  Trust!Verify(t)
<1> USE DEF VerificationSucceeds, VerificationFails
<1>1. PICK r \in Requests :
        /\ pc[t] = "verify" /\ r = call[t].request
        /\ before[r] # call[t].identity /\ trusted[r] = None
        /\ \A u \in Threads : Verifies(u, r) => u = t
  BY OneVerifier DEF IInv, CallsFit, Holding, Undecided
<1>2. /\ Asked[t] = call[t].identity /\ Owner[t] = r /\ Asked[t] # None
      /\ Asked' = [Asked EXCEPT ![t] = None] /\ Owner' = [Owner EXCEPT ![t] = None]
  <2>1. CASE VerificationSucceeds(t)
    BY <1>1, <2>1, Decides DEF Places, Undecided
  <2>2. CASE VerificationFails(t)
    BY <1>1, <2>2, Decides DEF Places, Undecided
  <2> QED BY <2>1, <2>2
<1>3. Held[r] = before[r]
  BY <1>1 DEF Held, Verified, Verifies
<1>4. /\ pc'[t] # "verify"
      /\ \A u \in Threads \ {t} : pc'[u] = pc[u] /\ call'[u] = call[u]
  BY DEF IInv, TypeOK, Goto, End
<1>5. ~Verified(r)'
  BY <1>1, <1>4 DEF Verified, Verifies
<1>6. \A q \in Requests \ {r} : Verified(q)' <=> Verified(q)
  BY <1>1, <1>4 DEF Verified, Verifies
<1>7. \A q \in Requests \ {r} : before'[q] = before[q] /\ trusted'[q] = trusted[q]
  BY <1>1 DEF IInv, TypeOK
<1>8. \A q \in Requests \ {r} : Held'[q] = Held[q]
  BY <1>6, <1>7 DEF Held
<1>9. Held'[r] = call[t].identity \/ Held'[r] = None
  <2>1. trusted'[r] = call[t].identity \/ trusted'[r] = None
    BY <1>1 DEF IInv, TypeOK
  <2> QED BY <1>1, <1>5, <2>1 DEF Held
<1>10. \/ Held' = [Held EXCEPT ![r] = call[t].identity]
       \/ Held' = [Held EXCEPT ![r] = None]
  <2>1. Held = [q \in Requests |-> Held[q]] /\ Held' = [q \in Requests |-> Held'[q]]
    BY DEF Held
  <2>2. Held' = [Held EXCEPT ![r] = Held'[r]]
    BY <1>8, <2>1, OneChanged
  <2> QED BY <1>9, <2>2
<1>11. Held[r] # call[t].identity
  BY <1>1, <1>3
<1> QED BY <1>1, <1>2, <1>10, <1>11 DEF Trust!Verify, Trust!Decided

\* A call of a request asks; a standalone one is none of SourceTrust's.
LEMMA BeginAsks ==
  ASSUME IInv, NEW t \in Threads, Begin(t)
  PROVE  \/ \E r \in Requests, i \in Identities : Trust!Ask(t, r, i)
         \/ UNCHANGED <<Held, Asked, Owner>>
<1>1. Held' = Held
  <2>1. \A q \in Requests : Verified(q)' <=> Verified(q)
    BY DEF IInv, TypeOK, Begin, Goto, Verified, Verifies
  <2> QED BY <2>1 DEF Held, Begin, requestVars
<1>2. PICK r \in Requests \cup {None}, i \in Identities, k \in Keys :
        /\ call' = [call EXCEPT ![t] = [request |-> r, identity |-> i, key |-> k]]
        /\ Goto(t, IF r = None THEN "standalone" ELSE "check")
  BY DEF Begin, IInv, TypeOK
<1>3. pc[t] = "out"
  BY DEF Begin
<1>4. CASE r = None
  <2>1. Asked' = Asked /\ Owner' = Owner
    BY <1>2, <1>3, <1>4 DEF Asked, Owner, Goto, Undecided, IInv, TypeOK
  <2> QED BY <1>1, <2>1
<1>5. CASE r # None
  <2>1. Asked[t] = None /\ Asked' = [Asked EXCEPT ![t] = i]
    BY <1>2, <1>3, <1>5 DEF Asked, Goto, Undecided, IInv, TypeOK
  <2>2. Owner' = [Owner EXCEPT ![t] = r]
    BY <1>2, <1>3, <1>5 DEF Owner, Goto, Undecided, IInv, TypeOK
  <2>3. Trust!Ask(t, r, i)
    BY <1>1, <2>1, <2>2 DEF Trust!Ask
  <2> QED BY <1>5, <2>3
<1> QED BY <1>4, <1>5

\* Every step of the threads is a decision of SourceTrust or changes nothing
\* there.
LEMMA StepDecides == IInv /\ [Next]_vars => [Trust!Next]_Trust!vars
<1> SUFFICES ASSUME IInv, [Next]_vars PROVE Trust!Next \/ UNCHANGED <<Held, Asked, Owner>>
  BY DEF Trust!vars
<1>1. CASE ChangeIdentity \/ UNCHANGED vars
  BY <1>1 DEF ChangeIdentity, vars, requestVars, compileVars, boundVars, Held, Asked, Owner,
              Verified, Verifies
<1>2. ASSUME NEW t \in Threads, Begin(t) PROVE Trust!Next \/ UNCHANGED <<Held, Asked, Owner>>
  BY <1>2, BeginAsks DEF Trust!Next
<1>3. ASSUME NEW t \in Threads, Step(t) PROVE Trust!Next \/ UNCHANGED <<Held, Asked, Owner>>
  <2>1. Check(t) => Trusts(t) \/ ~Trusts(t)
    OBVIOUS
  <2> QED BY <1>3, <2>1, ElsewhereStutters, TrustingShares, WaitingStutters, AttemptVerifies
          DEF Step, Trust!Next
<1> QED BY <1>1, <1>2, <1>3 DEF Next

\* The double-checked locking of _verify_partitioned_source decides each call
\* like SourceTrust: at once, and for its own request only.
THEOREM DecidesLikeSourceTrust == Spec => DecidesAtOnce
<1>1. Init => Trust!Init
  BY DEF Init, Trust!Init, Undecided, Held, Asked, Owner, Verified, Verifies
<1> QED BY <1>1, StepDecides, LaunchCorrect, PTL DEF Spec, DecidesAtOnce, Trust!Spec
-----------------------------------------------------------------------------
(***************************************************************************)
(* The generations of attention providers, for any number of threads,      *)
(* providers and addresses and any number of callbacks that raise.         *)
(***************************************************************************)
Occupies(p) == life[p] \in {"live", "garbage", "dying"}

\* An object has an address, which no other has until its callbacks have run,
\* and a callback runs in one thread.
ObjectsApart ==
  /\ \A p \in Providers : life[p] # "unborn" => id[p] \in Addresses
  /\ \A p, q \in Providers : Occupies(p) /\ Occupies(q) /\ id[p] = id[q] => p = q
  /\ \A t \in Askers : cleaning[t] # None => life[cleaning[t]] = "dying"
  /\ \A t, u \in Askers : cleaning[t] # None /\ cleaning[t] = cleaning[u] => t = u

\* A call keeps its provider alive; past the lock its thread holds it; what it
\* found missing stays missing; and its token was given to its provider.
QuestionsFit ==
  \A t \in Askers :
    /\ place[t] # "out" => using[t] \in Providers /\ life[using[t]] = "live"
    /\ place[t] \in {"locked", "make"} => lock = t
    /\ place[t] = "make" => ~Owners!Found(using[t])
    /\ place[t] = "prepare" => token[t] \in answers[using[t]]

\* An entry is at its owner's address and holds its owner's token.
EntriesFit ==
  \A a \in Addresses :
    entries[a] # None =>
      /\ life[entries[a].owner] # "unborn" /\ id[entries[a].owner] = a
      /\ entries[a].token \in answers[entries[a].owner]

\* A token belongs to one provider, a provider to one token, and an entry with
\* it is there until the provider dies.
TokensApart ==
  /\ \A p, q \in Providers : \A k \in answers[p] : k \in answers[q] => p = q
  /\ \A p \in Providers : \A k, l \in answers[p] : k = l
  /\ \A p \in Providers : life[p] = "unborn" => answers[p] = {}
  /\ \A p \in Providers : life[p] \in {"live", "garbage"} /\ answers[p] # {} => Owners!Found(p)

PlansFit == \A c \in cached : c.key \in answers[c.for]

\* The entries that providers left behind.
Remains == {a \in Addresses : entries[a] # None /\ life[entries[a].owner] = "dead"}

FewRemain == IsFiniteSet(Remains) /\ Cardinality(Remains) <= raised

\* The inductive invariant.
OwnersIInv ==
  /\ Owners!TypeOK /\ ObjectsApart /\ QuestionsFit /\ EntriesFit /\ TokensApart /\ PlansFit
  /\ FewRemain /\ Owners!NoInheritedPlan

\* Nothing exists yet.
LEMMA InitOwners == ASSUME Owners!Init PROVE OwnersIInv
<1>1. Remains = {}
  BY DEF Owners!Init, Remains
<1>2. FewRemain
  BY <1>1, FS_EmptySet DEF FewRemain, Owners!Init
<1>3. /\ Owners!TypeOK /\ ObjectsApart /\ QuestionsFit /\ EntriesFit /\ TokensApart
      /\ PlansFit /\ Owners!NoInheritedPlan
  BY OwnersAssumption DEF Owners!Init, Owners!TypeOK, ObjectsApart, QuestionsFit, EntriesFit,
         TokensApart,
         PlansFit, Owners!NoInheritedPlan, Occupies
<1> QED BY <1>2, <1>3 DEF OwnersIInv

\* A step that adds no entry of the dead keeps them few.
LEMMA RemainsShrink ==
  ASSUME FewRemain, raised \in Nat, raised' \in Nat, raised' >= raised,
         Remains' \subseteq Remains
  PROVE  FewRemain'
<1>1. IsFiniteSet(Remains') /\ Cardinality(Remains') <= Cardinality(Remains)
  BY FS_Subset DEF FewRemain
<1>2. Cardinality(Remains') \in Nat /\ Cardinality(Remains) \in Nat
  BY <1>1, FS_CardinalityType DEF FewRemain
<1> QED BY <1>1, <1>2 DEF FewRemain

\* A new object takes an address nobody occupies; it has no token.
LEMMA NewOwners ==
  ASSUME OwnersIInv, NEW p \in Providers, Owners!New(p)
  PROVE  OwnersIInv'
<1> USE OwnersAssumption DEF OwnersIInv, Owners!TypeOK, Owners!New, Owners!Occupied,
            Owners!threadVars, Owners!historyVars
<1>1. Owners!TypeOK'
  OBVIOUS
<1>2. ObjectsApart'
  BY DEF ObjectsApart, QuestionsFit, Occupies
<1>3. QuestionsFit'
  BY DEF QuestionsFit, ObjectsApart, Owners!Found
<1>4. EntriesFit'
  BY DEF EntriesFit, ObjectsApart, QuestionsFit
<1>5. TokensApart'
  BY DEF TokensApart, ObjectsApart, QuestionsFit, EntriesFit, Owners!Found
<1>6. PlansFit'
  BY DEF PlansFit, QuestionsFit
<1>7. Owners!NoInheritedPlan'
  BY DEF Owners!NoInheritedPlan, QuestionsFit, PlansFit, TokensApart
<1>8. FewRemain'
  <2>1. Remains' \subseteq Remains
    BY DEF Remains, ObjectsApart, QuestionsFit, EntriesFit
  <2> QED BY <2>1, RemainsShrink
<1> QED BY <1>1, <1>2, <1>3, <1>4, <1>5, <1>6, <1>7, <1>8

\* A provider that is in use is not dropped.
LEMMA DropOwners ==
  ASSUME OwnersIInv, NEW p \in Providers, Owners!Drop(p)
  PROVE  OwnersIInv'
<1> USE OwnersAssumption DEF OwnersIInv, Owners!TypeOK, Owners!Drop, Owners!threadVars,
            Owners!historyVars
<1>1. Owners!TypeOK'
  OBVIOUS
<1>2. ObjectsApart'
  BY DEF ObjectsApart, QuestionsFit, Occupies
<1>3. QuestionsFit'
  BY DEF QuestionsFit, ObjectsApart, Owners!Found
<1>4. EntriesFit'
  BY DEF EntriesFit, ObjectsApart, QuestionsFit
<1>5. TokensApart'
  BY DEF TokensApart, ObjectsApart, QuestionsFit, EntriesFit, Owners!Found
<1>6. PlansFit'
  BY DEF PlansFit, QuestionsFit
<1>7. Owners!NoInheritedPlan'
  BY DEF Owners!NoInheritedPlan, QuestionsFit, PlansFit, TokensApart
<1>8. FewRemain'
  <2>1. Remains' \subseteq Remains
    BY DEF Remains, ObjectsApart, QuestionsFit, EntriesFit
  <2> QED BY <2>1, RemainsShrink
<1> QED BY <1>1, <1>2, <1>3, <1>4, <1>5, <1>6, <1>7, <1>8

\* A provider dies: with its callback, or with no entry left to it.
LEMMA CollectOwners ==
  ASSUME OwnersIInv, NEW t \in Askers, NEW p \in Providers, Owners!Collect(t, p)
  PROVE  OwnersIInv'
<1> USE OwnersAssumption DEF OwnersIInv, Owners!TypeOK, Owners!Collect, Owners!Registered,
            Owners!threadVars, Owners!historyVars
<1>1. Owners!TypeOK'
  OBVIOUS
<1>2. ObjectsApart'
  BY DEF ObjectsApart, QuestionsFit, Occupies
<1>3. QuestionsFit'
  BY DEF QuestionsFit, ObjectsApart, Owners!Found
<1>4. EntriesFit'
  BY DEF EntriesFit, ObjectsApart, QuestionsFit
<1>5. TokensApart'
  BY DEF TokensApart, ObjectsApart, QuestionsFit, EntriesFit, Owners!Found
<1>6. PlansFit'
  BY DEF PlansFit, QuestionsFit
<1>7. Owners!NoInheritedPlan'
  BY DEF Owners!NoInheritedPlan, QuestionsFit, PlansFit, TokensApart
<1>8. FewRemain'
  <2>1. Remains' \subseteq Remains
    BY DEF Remains, ObjectsApart, QuestionsFit, EntriesFit
  <2> QED BY <2>1, RemainsShrink
<1> QED BY <1>1, <1>2, <1>3, <1>4, <1>5, <1>6, <1>7, <1>8

\* The entry of the dead provider goes.
LEMMA CleanupOwners ==
  ASSUME OwnersIInv, NEW t \in Askers, Owners!Cleanup(t)
  PROVE  OwnersIInv'
<1> USE OwnersAssumption DEF OwnersIInv, Owners!TypeOK, Owners!Cleanup, Owners!CleanupDone,
            Owners!threadVars, Owners!historyVars,
      Owners!Removed, Owners!Registered
<1>1. Owners!TypeOK'
  OBVIOUS
<1>2. ObjectsApart'
  BY DEF ObjectsApart, QuestionsFit, Occupies
<1>3. QuestionsFit'
  BY DEF QuestionsFit, ObjectsApart, Owners!Found
<1>4. EntriesFit'
  BY DEF EntriesFit, ObjectsApart, QuestionsFit
<1>5. TokensApart'
  BY DEF TokensApart, ObjectsApart, QuestionsFit, EntriesFit, Owners!Found
<1>6. PlansFit'
  BY DEF PlansFit, QuestionsFit
<1>7. Owners!NoInheritedPlan'
  BY DEF Owners!NoInheritedPlan, QuestionsFit, PlansFit, TokensApart
<1>8. FewRemain'
  <2>1. Remains' \subseteq Remains
    BY DEF Remains, ObjectsApart, QuestionsFit, EntriesFit
  <2> QED BY <2>1, RemainsShrink
<1> QED BY <1>1, <1>2, <1>3, <1>4, <1>5, <1>6, <1>7, <1>8

\* At most one entry remains, and one more failure.
LEMMA CleanupRaisesOwners ==
  ASSUME OwnersIInv, NEW t \in Askers, Owners!CleanupRaises(t)
  PROVE  OwnersIInv'
<1> USE OwnersAssumption DEF OwnersIInv, Owners!TypeOK, Owners!CleanupRaises, Owners!CleanupDone,
            Owners!threadVars, Owners!historyVars
<1>1. Owners!TypeOK'
  OBVIOUS
<1>2. ObjectsApart'
  BY DEF ObjectsApart, QuestionsFit, Occupies
<1>3. QuestionsFit'
  BY DEF QuestionsFit, ObjectsApart, Owners!Found
<1>4. EntriesFit'
  BY DEF EntriesFit, ObjectsApart, QuestionsFit
<1>5. TokensApart'
  BY DEF TokensApart, ObjectsApart, QuestionsFit, EntriesFit, Owners!Found
<1>6. PlansFit'
  BY DEF PlansFit, QuestionsFit
<1>7. Owners!NoInheritedPlan'
  BY DEF Owners!NoInheritedPlan, QuestionsFit, PlansFit, TokensApart
<1>8. FewRemain'
  <2> DEFINE a == id[cleaning[t]]
  <2>1. Remains' \subseteq Remains \cup {a}
    BY DEF Remains, EntriesFit
  <2>2. IsFiniteSet(Remains \cup {a}) /\ Cardinality(Remains \cup {a}) <= raised + 1
    <3>1. IsFiniteSet(Remains) /\ Cardinality(Remains) <= raised /\ Cardinality(Remains) \in Nat
      BY FS_CardinalityType DEF FewRemain
    <3>2. /\ IsFiniteSet(Remains \cup {a})
          /\ Cardinality(Remains \cup {a}) \in {Cardinality(Remains), Cardinality(Remains) + 1}
      BY <3>1, FS_AddElement
    <3> QED BY <3>1, <3>2
  <2>3. IsFiniteSet(Remains') /\ Cardinality(Remains') <= Cardinality(Remains \cup {a})
    BY <2>1, <2>2, FS_Subset
  <2>4. Cardinality(Remains') \in Nat /\ Cardinality(Remains \cup {a}) \in Nat
    BY <2>2, <2>3, FS_CardinalityType
  <2> QED BY <2>2, <2>3, <2>4 DEF FewRemain
<1> QED BY <1>1, <1>2, <1>3, <1>4, <1>5, <1>6, <1>7, <1>8

\* A call begins about a live provider.
LEMMA BeginOwners ==
  ASSUME OwnersIInv, NEW t \in Askers, Owners!Begin(t)
  PROVE  OwnersIInv'
<1> USE OwnersAssumption DEF OwnersIInv, Owners!TypeOK, Owners!Begin, Owners!At,
            Owners!objectVars, Owners!historyVars
<1>1. Owners!TypeOK'
  OBVIOUS
<1>2. ObjectsApart'
  BY DEF ObjectsApart, QuestionsFit, Occupies
<1>3. QuestionsFit'
  BY DEF QuestionsFit, ObjectsApart, Owners!Found
<1>4. EntriesFit'
  BY DEF EntriesFit, ObjectsApart, QuestionsFit
<1>5. TokensApart'
  BY DEF TokensApart, ObjectsApart, QuestionsFit, EntriesFit, Owners!Found
<1>6. PlansFit'
  BY DEF PlansFit, QuestionsFit
<1>7. Owners!NoInheritedPlan'
  BY DEF Owners!NoInheritedPlan, QuestionsFit, PlansFit, TokensApart
<1>8. FewRemain'
  <2>1. Remains' \subseteq Remains
    BY DEF Remains, ObjectsApart, QuestionsFit, EntriesFit
  <2> QED BY <2>1, RemainsShrink
<1> QED BY <1>1, <1>2, <1>3, <1>4, <1>5, <1>6, <1>7, <1>8

\* The lock was free, so nobody is past it.
LEMMA LockOwners ==
  ASSUME OwnersIInv, NEW t \in Askers, Owners!Lock(t)
  PROVE  OwnersIInv'
<1> USE OwnersAssumption DEF OwnersIInv, Owners!TypeOK, Owners!Lock, Owners!At, Owners!LockFree,
            Owners!objectVars, Owners!historyVars
<1>1. Owners!TypeOK'
  OBVIOUS
<1>2. ObjectsApart'
  BY DEF ObjectsApart, QuestionsFit, Occupies
<1>3. QuestionsFit'
  BY DEF QuestionsFit, ObjectsApart, Owners!Found
<1>4. EntriesFit'
  BY DEF EntriesFit, ObjectsApart, QuestionsFit
<1>5. TokensApart'
  BY DEF TokensApart, ObjectsApart, QuestionsFit, EntriesFit, Owners!Found
<1>6. PlansFit'
  BY DEF PlansFit, QuestionsFit
<1>7. Owners!NoInheritedPlan'
  BY DEF Owners!NoInheritedPlan, QuestionsFit, PlansFit, TokensApart
<1>8. FewRemain'
  <2>1. Remains' \subseteq Remains
    BY DEF Remains, ObjectsApart, QuestionsFit, EntriesFit
  <2> QED BY <2>1, RemainsShrink
<1> QED BY <1>1, <1>2, <1>3, <1>4, <1>5, <1>6, <1>7, <1>8

\* The entry found is the provider's own, so its token is.
LEMMA KnownOwners ==
  ASSUME OwnersIInv, NEW t \in Askers, Owners!Known(t)
  PROVE  OwnersIInv'
<1> USE OwnersAssumption DEF OwnersIInv, Owners!TypeOK, Owners!Known, Owners!At, Owners!Found,
            Owners!Answer, Owners!Released, Owners!objectVars
<1>1. Owners!TypeOK'
  <2>1. /\ entries[id[using[t]]] \in [owner : Providers, token : 1..tokens]
        /\ using[t] \in Providers
    BY DEF QuestionsFit, ObjectsApart
  <2>2. token' \in [Askers -> 0..tokens'] /\ answers' \in [Providers -> SUBSET (1..tokens')]
    BY <2>1
  <2> QED BY <2>2
<1>2. ObjectsApart'
  BY DEF ObjectsApart, QuestionsFit, Occupies
<1>3. QuestionsFit'
  BY DEF QuestionsFit, ObjectsApart
<1>4. EntriesFit'
  BY DEF EntriesFit, ObjectsApart, QuestionsFit
<1>5. TokensApart'
  BY DEF TokensApart, ObjectsApart, QuestionsFit, EntriesFit
<1>6. PlansFit'
  BY DEF PlansFit, QuestionsFit
<1>7. Owners!NoInheritedPlan'
  BY DEF Owners!NoInheritedPlan, QuestionsFit, PlansFit, TokensApart
<1>8. FewRemain'
  <2>1. Remains' \subseteq Remains
    BY DEF Remains, ObjectsApart, QuestionsFit, EntriesFit
  <2> QED BY <2>1, RemainsShrink
<1> QED BY <1>1, <1>2, <1>3, <1>4, <1>5, <1>6, <1>7, <1>8

\* What is not found under the lock stays missing.
LEMMA UnknownOwners ==
  ASSUME OwnersIInv, NEW t \in Askers, Owners!Unknown(t)
  PROVE  OwnersIInv'
<1> USE OwnersAssumption DEF OwnersIInv, Owners!TypeOK, Owners!Unknown, Owners!At, Owners!Found,
            Owners!objectVars, Owners!historyVars
<1>1. Owners!TypeOK'
  OBVIOUS
<1>2. ObjectsApart'
  BY DEF ObjectsApart, QuestionsFit, Occupies
<1>3. QuestionsFit'
  BY DEF QuestionsFit, ObjectsApart
<1>4. EntriesFit'
  BY DEF EntriesFit, ObjectsApart, QuestionsFit
<1>5. TokensApart'
  BY DEF TokensApart, ObjectsApart, QuestionsFit, EntriesFit
<1>6. PlansFit'
  BY DEF PlansFit, QuestionsFit
<1>7. Owners!NoInheritedPlan'
  BY DEF Owners!NoInheritedPlan, QuestionsFit, PlansFit, TokensApart
<1>8. FewRemain'
  <2>1. Remains' \subseteq Remains
    BY DEF Remains, ObjectsApart, QuestionsFit, EntriesFit
  <2> QED BY <2>1, RemainsShrink
<1> QED BY <1>1, <1>2, <1>3, <1>4, <1>5, <1>6, <1>7, <1>8

\* The provider had no token and gets a fresh one.
LEMMA RegisterOwners ==
  ASSUME OwnersIInv, NEW t \in Askers, Owners!Register(t)
  PROVE  OwnersIInv'
<1> USE OwnersAssumption DEF OwnersIInv, Owners!TypeOK, Owners!Register, Owners!At,
            Owners!FreshToken, Owners!Answer, Owners!Released,
      Owners!objectVars
<1>1. Owners!TypeOK'
  <2>1. using[t] \in Providers /\ tokens' = tokens + 1
    BY DEF QuestionsFit
  <2>2. entries' \in [Addresses -> {None} \cup [owner : Providers, token : 1..tokens']]
    <3>1. [owner |-> using[t], token |-> tokens + 1] \in [owner : Providers, token : 1..tokens']
      BY <2>1
    <3>2. \A a \in Addresses : entries[a] \in {None} \cup [owner : Providers, token : 1..tokens']
      BY <2>1
    <3> QED BY <3>1, <3>2
  <2>3. answers' \in [Providers -> SUBSET (1..tokens')]
    BY <2>1
  <2>4. token' \in [Askers -> 0..tokens']
    BY <2>1
  <2>5. cached' \subseteq [key : 1..tokens', for : Providers]
    BY <2>1
  <2> QED BY <2>1, <2>2, <2>3, <2>4, <2>5
<1>2. ObjectsApart'
  BY DEF ObjectsApart, QuestionsFit, Occupies
<1>3. QuestionsFit'
  BY DEF QuestionsFit, ObjectsApart, Owners!Found
<1>4. EntriesFit'
  BY DEF EntriesFit, ObjectsApart, QuestionsFit
<1>5. TokensApart'
  <2> DEFINE p == using[t]
  <2>1. /\ p \in Providers /\ life[p] = "live" /\ id[p] \in Addresses /\ answers[p] = {}
        /\ \A q \in Providers : answers[q] \subseteq 1..tokens /\ tokens + 1 \notin answers[q]
    BY DEF QuestionsFit, ObjectsApart, TokensApart, Owners!Found
  <2>2. /\ answers' = [answers EXCEPT ![p] = {tokens + 1}]
        /\ entries' = [entries EXCEPT ![id[p]] = [owner |-> p, token |-> tokens + 1]]
        /\ UNCHANGED <<life, id>>
    BY <2>1
  <2>3. \A q, s \in Providers : \A k \in answers'[q] : k \in answers'[s] => q = s
    BY <2>1, <2>2 DEF TokensApart
  <2>4. \A q \in Providers : \A k, l \in answers'[q] : k = l
    BY <2>1, <2>2 DEF TokensApart
  <2>5. \A q \in Providers : life'[q] = "unborn" => answers'[q] = {}
    BY <2>1, <2>2 DEF TokensApart
  <2>6. ASSUME NEW q \in Providers, life'[q] \in {"live", "garbage"}, answers'[q] # {}
        PROVE  Owners!Found(q)'
    <3>1. CASE q = p
      BY <2>1, <2>2, <3>1 DEF Owners!Found
    <3>2. CASE q # p
      <4>1. id[q] # id[p] /\ Owners!Found(q)
        BY <2>1, <2>2, <2>6, <3>2 DEF ObjectsApart, Occupies, TokensApart
      <4> QED BY <2>1, <2>2, <4>1 DEF Owners!Found
    <3> QED BY <3>1, <3>2
  <2> QED BY <2>3, <2>4, <2>5, <2>6 DEF TokensApart
<1>6. PlansFit'
  BY DEF PlansFit, QuestionsFit
<1>7. Owners!NoInheritedPlan'
  BY DEF Owners!NoInheritedPlan, QuestionsFit, PlansFit, TokensApart
<1>8. FewRemain'
  <2>1. Remains' \subseteq Remains
    BY DEF Remains, ObjectsApart, QuestionsFit, EntriesFit
  <2> QED BY <2>1, RemainsShrink
<1> QED BY <1>1, <1>2, <1>3, <1>4, <1>5, <1>6, <1>7, <1>8

\* A plan under the provider's token was made for it.
LEMMA PrepareOwners ==
  ASSUME OwnersIInv, NEW t \in Askers, Owners!Prepare(t)
  PROVE  OwnersIInv'
<1> USE OwnersAssumption DEF OwnersIInv, Owners!TypeOK, Owners!Prepare, Owners!At,
            Owners!PlanKey, Owners!objectVars
<1>1. Owners!TypeOK'
  <2>1. using[t] \in Providers /\ token[t] \in 1..tokens
    BY DEF QuestionsFit
  <2>2. cached' \subseteq [key : 1..tokens, for : Providers]
    <3>1. cached' \subseteq cached \cup {[key |-> token[t], for |-> using[t]]}
      OBVIOUS
    <3> QED BY <2>1, <3>1
  <2>3. served' \subseteq Providers \X Providers
    BY <2>1
  <2> QED BY <2>2, <2>3
<1>2. ObjectsApart'
  BY DEF ObjectsApart, QuestionsFit, Occupies
<1>3. QuestionsFit'
  BY DEF QuestionsFit, ObjectsApart, Owners!Found
<1>4. EntriesFit'
  BY DEF EntriesFit, ObjectsApart, QuestionsFit
<1>5. TokensApart'
  BY DEF TokensApart, ObjectsApart, QuestionsFit, EntriesFit, Owners!Found
<1>6. PlansFit'
  BY DEF PlansFit, QuestionsFit
<1>7. Owners!NoInheritedPlan'
  BY DEF Owners!NoInheritedPlan, QuestionsFit, PlansFit, TokensApart
<1>8. FewRemain'
  <2>1. Remains' \subseteq Remains
    BY DEF Remains, ObjectsApart, QuestionsFit, EntriesFit
  <2> QED BY <2>1, RemainsShrink
<1> QED BY <1>1, <1>2, <1>3, <1>4, <1>5, <1>6, <1>7, <1>8

\* A stuttering step changes nothing.
LEMMA StutterOwners == ASSUME OwnersIInv, UNCHANGED Owners!vars PROVE OwnersIInv'
<1> USE DEF Owners!vars, Owners!objectVars, Owners!threadVars, Owners!historyVars
<1>1. Remains' = Remains
  BY DEF Remains
<1>2. FewRemain'
  BY <1>1 DEF OwnersIInv, FewRemain
<1> QED
  BY <1>2 DEF OwnersIInv, Owners!TypeOK, ObjectsApart, QuestionsFit, EntriesFit, TokensApart,
              PlansFit,
              Owners!NoInheritedPlan, Occupies, Owners!Found

\* No step disturbs the inductive invariant.
LEMMA NextOwners == ASSUME OwnersIInv, [Owners!Next]_Owners!vars PROVE OwnersIInv'
<1>1. CASE UNCHANGED Owners!vars
  BY <1>1, StutterOwners
<1>2. ASSUME NEW p \in Providers, Owners!New(p) \/ Owners!Drop(p) PROVE OwnersIInv'
  BY <1>2, NewOwners, DropOwners
<1>3. ASSUME NEW t \in Askers, NEW p \in Providers, Owners!Collect(t, p) PROVE OwnersIInv'
  BY <1>3, CollectOwners
<1>4. ASSUME NEW t \in Askers, Owners!Begin(t) \/ Owners!CleanupRaises(t) PROVE OwnersIInv'
  BY <1>4, BeginOwners, CleanupRaisesOwners
<1>5. ASSUME NEW t \in Askers, Owners!Step(t) PROVE OwnersIInv'
  BY <1>5, LockOwners, KnownOwners, UnknownOwners, RegisterOwners, PrepareOwners,
      CleanupOwners DEF Owners!Step
<1> QED BY <1>1, <1>2, <1>3, <1>4, <1>5 DEF Owners!Next

\* The inductive invariant implies that generations are kept.
LEMMA OwnersKept == ASSUME OwnersIInv PROVE Owners!GenerationsKept
<1>1. ASSUME NEW p \in Providers PROVE Cardinality(answers[p]) <= 1
  <2>1. CASE answers[p] = {}
    BY <2>1, FS_EmptySet
  <2>2. CASE answers[p] # {}
    <3>1. PICK k \in answers[p] : answers[p] = {k}
      BY <2>2 DEF OwnersIInv, TokensApart
    <3>2. Cardinality({k}) = 1
      BY FS_Singleton
    <3> QED BY <3>1, <3>2
  <2> QED BY <2>1, <2>2
<1>2. Cardinality(Remains) <= raised
  BY DEF OwnersIInv, FewRemain
<1> QED BY <1>1, <1>2 DEF Owners!GenerationsKept, Remains, Owners!Cardinality, Cardinality

-----------------------------------------------------------------------------
(***************************************************************************)
(* The process: each scene takes the steps of its module and touches none  *)
(* of the state of the other.                                              *)
(***************************************************************************)
\* The process starts as OwnerGenerations does.
LEMMA ThreadsInitIInv == ASSUME ThreadsInit PROVE OwnersIInv
BY InitOwners DEF ThreadsInit

\* No step of either scene disturbs the invariant of OwnerGenerations.
LEMMA ThreadsNextIInv ==
  ASSUME OwnersIInv, [ThreadsNext]_<<launching, owning>>
  PROVE  OwnersIInv'
<1>1. [Owners!Next]_Owners!vars
  BY DEF ThreadsNext, owning, launching, Owners!vars, Owners!objectVars, Owners!threadVars,
         Owners!historyVars
<1> QED BY <1>1, NextOwners

\* No step of either scene disturbs the invariant of KernelLaunch.
LEMMA ThreadsKeepIInv == IInv /\ [ThreadsNext]_<<launching, owning>> => IInv'
<1>1. ASSUME [ThreadsNext]_<<launching, owning>> PROVE [Next]_vars
  BY <1>1 DEF ThreadsNext, launching
<1> QED BY <1>1, NextIInv

\* In the process every variable of both scenes keeps its kind.
THEOREM ThreadsTypes == ThreadsSpec => []TypesOK
<1>1. ThreadsInit => IInv
  BY InitIInv DEF ThreadsInit
<1>2. IInv /\ OwnersIInv => TypesOK
  BY DEF IInv, OwnersIInv, TypesOK
<1> QED BY ThreadsInitIInv, ThreadsNextIInv, ThreadsKeepIInv, <1>1, <1>2, PTL DEF ThreadsSpec

\* In the process nothing is launched unverified, and threads share one
\* verification and one compilation (_verify_partitioned_source).
THEOREM ThreadsLaunch == ThreadsSpec => [](LaunchesVerified /\ WorkShared)
<1>1. ThreadsInit => IInv
  BY InitIInv DEF ThreadsInit
<1>2. IInv => LaunchesVerified /\ WorkShared
  BY DEF IInv, Counted, BuiltOnce, WorkShared
<1> QED BY ThreadsKeepIInv, <1>1, <1>2, PTL DEF ThreadsSpec

\* In the process, with any number of threads that ask about any providers, a
\* provider has one generation and the registry keeps entries of dead providers
\* only for callbacks that raised (_owner_identity and its cleanup).
THEOREM ThreadsKeepGenerations ==
  ThreadsSpec => []GenerationsKept
<1>1. OwnersIInv => GenerationsKept
  BY OwnersKept DEF GenerationsKept
<1> QED BY ThreadsInitIInv, ThreadsNextIInv, <1>1, PTL DEF ThreadsSpec

\* In the process, no provider is served a plan made for another (prepare and
\* preprocess_digest).
THEOREM ThreadsInheritNoPlan ==
  ThreadsSpec => []NoInheritedPlan
<1>1. OwnersIInv => NoInheritedPlan
  BY DEF OwnersIInv, NoInheritedPlan
<1> QED BY ThreadsInitIInv, ThreadsNextIInv, <1>1, PTL DEF ThreadsSpec
=============================================================================
