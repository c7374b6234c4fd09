----------------------------- MODULE AuditTrail ------------------------------
(***************************************************************************)
(* What the audit logger promises, with no transactions, locks or hashes:  *)
(* the trail only grows, and a call to Log puts its own entry at the end   *)
(* of it once, or not at all.  AuditChain is shown to implement it.        *)
(***************************************************************************)
EXTENDS Sequences

CONSTANTS
    Writer,      \* goroutines that call Log
    TrailEntry,  \* what may be logged
    NoCall       \* not an entry

VARIABLES
    trail,       \* the entries recorded so far, oldest first
    call         \* the entry each writer is logging

trailVars == <<trail, call>>

TrailInit ==
    /\ trail \in Seq(TrailEntry)
    /\ call = [w \in Writer |-> NoCall]

Begin(w) ==
    /\ call[w] = NoCall
    /\ \E e \in TrailEntry : call' = [call EXCEPT ![w] = e]
    /\ UNCHANGED trail

\* The entry is recorded and the call is over: it cannot record it again.
Record(w) ==
    /\ call[w] # NoCall
    /\ trail' = Append(trail, call[w])
    /\ call' = [call EXCEPT ![w] = NoCall]

\* A call that fails leaves no trace; a crash fails them all.
Fail(W) ==
    /\ call' = [w \in Writer |-> IF w \in W THEN NoCall ELSE call[w]]
    /\ UNCHANGED trail

TrailNext ==
    \/ \E w \in Writer : Begin(w) \/ Record(w)
    \/ \E W \in SUBSET Writer : Fail(W)

TrailSpec == TrailInit /\ [][TrailNext]_trailVars
=============================================================================
