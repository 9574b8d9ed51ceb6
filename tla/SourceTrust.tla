---------------------------- MODULE SourceTrust -----------------------------
(***************************************************************************)
(* What the verification of the packaged kernel source promises a sampling *)
(* request (docs/REQUEST_SOURCE_VERIFICATION.md): whether a kernel call    *)
(* may run is one atomic decision.  The call runs on the trust its request *)
(* has in its identity, or on a verification of its own, which is the only *)
(* thing that changes that trust.                                          *)
(***************************************************************************)
CONSTANTS
  Threads,      \* threads that make kernel calls
  Requests,     \* sampling requests
  Identities,   \* (SOURCE, REVISION, CONTRACT, verify_source)
  None

VARIABLES
  trusted,    \* the identity each request trusts, or None
  asked,      \* the identity a thread's undecided call has, or None
  owner       \* the request of that call

vars == <<trusted, asked, owner>>

Init ==
  /\ trusted = [r \in Requests |-> None]
  /\ asked = [t \in Threads |-> None]
  /\ owner = [t \in Threads |-> None]

Ask(t, r, i) ==
  /\ asked[t] = None
  /\ asked' = [asked EXCEPT ![t] = i]
  /\ owner' = [owner EXCEPT ![t] = r]
  /\ UNCHANGED trusted

Decided(t) ==
  /\ asked[t] # None
  /\ asked' = [asked EXCEPT ![t] = None]
  /\ owner' = [owner EXCEPT ![t] = None]

\* The request trusts this identity already.
Share(t) ==
  /\ Decided(t)
  /\ trusted[owner[t]] = asked[t]
  /\ UNCHANGED trusted

\* A verification that succeeds, and one that fails.
Verify(t) ==
  /\ Decided(t)
  /\ trusted[owner[t]] # asked[t]
  /\ \/ trusted' = [trusted EXCEPT ![owner[t]] = asked[t]]
     \/ trusted' = [trusted EXCEPT ![owner[t]] = None]

Next ==
  \E t \in Threads :
    \/ \E r \in Requests, i \in Identities : Ask(t, r, i)
    \/ Share(t) \/ Verify(t)

Spec == Init /\ [][Next]_vars
=============================================================================
