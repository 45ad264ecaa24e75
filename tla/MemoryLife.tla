----------------------------- MODULE MemoryLife -----------------------------
(***************************************************************************)
(* What the daemon promises about the life of a memory, whatever requests  *)
(* run concurrently: it is stored once, may be archived to a stub, may be  *)
(* superseded, may lose one conflict, and disappears only by deletion;     *)
(* none of this is ever undone and a deleted memory does not come back.    *)
(***************************************************************************)
CONSTANTS Id, NoId

VARIABLES
    phase,        \* "unborn", "full", "stub" or "deleted"
    superseded,   \* the ids marked superseded
    verdict       \* the memory that won the conflict this one lost

lifeVars == <<phase, superseded, verdict>>

Present == {i \in Id : phase[i] \in {"full", "stub"}}

LifeInit ==
    /\ phase = [i \in Id |-> "unborn"]
    /\ superseded = {}
    /\ verdict = [i \in Id |-> NoId]

Born(i) ==
    /\ phase[i] = "unborn"
    /\ phase' = [phase EXCEPT ![i] = "full"]
    /\ UNCHANGED <<superseded, verdict>>

Archive(S) ==
    /\ S \subseteq Present
    /\ phase' = [i \in Id |-> IF i \in S THEN "stub" ELSE phase[i]]
    /\ UNCHANGED <<superseded, verdict>>

Forget(S) ==
    /\ S \subseteq Present
    /\ phase' = [i \in Id |-> IF i \in S THEN "deleted" ELSE phase[i]]
    /\ superseded' = superseded \ S
    /\ verdict' = [i \in Id |-> IF i \in S THEN NoId ELSE verdict[i]]

Supersede(S) ==
    /\ S \subseteq Present
    /\ superseded' = superseded \cup S
    /\ UNCHANGED <<phase, verdict>>

\* A conflict is lost at most once, to another memory, and only by a
\* memory that nothing had superseded.
Judge(S) ==
    /\ S \subseteq Present \ superseded
    /\ superseded' = superseded \cup S
    /\ \A i \in S : verdict[i] = NoId /\ verdict'[i] \in Id \ {i}
    /\ \A i \in Id \ S : verdict'[i] = verdict[i]
    /\ DOMAIN verdict' = Id
    /\ UNCHANGED phase

LifeNext ==
    \/ \E i \in Id : Born(i)
    \/ \E S \in SUBSET Id : Archive(S) \/ Forget(S) \/ Supersede(S) \/ Judge(S)

LifeSpec == LifeInit /\ [][LifeNext]_lifeVars
=============================================================================
