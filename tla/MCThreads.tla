----------------------------- MODULE MCThreads -----------------------------
(***************************************************************************)
(* The locks of the process under its threads.  A behaviour is one of two  *)
(* scenes, which have no state in common: kernel calls of three threads,   *)
(* two of which can share a request, with two source identities and one    *)
(* kernel to compile; or two threads that ask for the generations of three *)
(* providers, of which one can be replaced at its address.                 *)
(***************************************************************************)
EXTENDS KernelLaunch

CONSTANTS Askers, Providers, Addresses, MaxQuestions, MaxFailures, CollectWhileLocked

\* Python's None is no provider, no entry, and no thread.
ASSUME OwnersAssumption ==
  /\ None \notin Providers \cup Addresses \cup Askers \cup [owner : Providers, token : Nat]
  /\ {MaxQuestions, MaxFailures} \subseteq Nat

VARIABLES
  scene,
  life, id, entries, lock, place, using, token, cleaning, cached, asked, raised, tokens,
  answers, served   \* see OwnerGenerations

Owners == INSTANCE OwnerGenerations WITH
  Threads <- Askers, MaxCalls <- MaxQuestions,
  pc <- place, plans <- cached, calls <- asked, failures <- raised

launching == <<vars, scene>>
owning ==
  <<life, id, entries, lock, place, using, token, cleaning, cached, asked, raised, tokens,
    answers, served>>

\* The identities are alike, so that the process may start under any of them.
ThreadsInit ==
  /\ Init /\ current = CHOOSE i \in Identities : TRUE
  /\ Owners!Init
  /\ scene \in {"launch", "owners"}

ThreadsNext ==
  \/ scene = "launch" /\ Next /\ UNCHANGED <<owning, scene>>
  \/ scene = "owners" /\ Owners!Next /\ UNCHANGED launching

ThreadsSpec ==
  /\ ThreadsInit /\ [][ThreadsNext]_<<launching, owning>>
  /\ \A t \in Threads : WF_vars(scene = "launch" /\ Step(t) /\ UNCHANGED <<owning, scene>>)
  /\ \A t \in Askers : WF_owning(scene = "owners" /\ Owners!Step(t) /\ UNCHANGED launching)

\* Every variable of both scenes holds a value of its kind.
TypesOK == TypeOK /\ Owners!TypeOK

\* A provider has one generation, and the registry does not grow with the dead
\* (_owner_identity; see OwnerGenerations).
GenerationsKept == Owners!GenerationsKept

\* A replacement never inherits the plan of the provider it replaced
\* (preprocess_digest; see OwnerGenerations).
NoInheritedPlan == Owners!NoInheritedPlan

\* Only a callback inside the lock can hang a call (_owner_identity; see
\* OwnerGenerations).
OnlyCollectionBlocks == Owners!OnlyCollectionBlocks
=============================================================================
