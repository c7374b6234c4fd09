---------------------------- MODULE MCAuthSessions ----------------------------
(***************************************************************************)
(* Small instances of the user sessions for TLC.                           *)
(***************************************************************************)
EXTENDS AuthSessionsProps, TLC

Used(id, row) == {i \in id : row[i].state # "none"}

FactorOff ==
    /\ \A u \in User : account[u].factor = 0 /\ ~account[u].setup
    /\ \A h \in Worker : worker[h].pc # "saveSetup"
WithoutReset == Used(ResetToken, reset) = {}

\* Bound: a behaviour is followed while it is about logins and refreshes, about
\* resets with up to three sessions, or about the second factor with up to two.
Focus ==
    \/ FactorOff /\ WithoutReset
    \/ FactorOff /\ Cardinality(Used(Token, token)) <= 2
    \/ WithoutReset /\ Cardinality(Used(Token, token)) <= 1

Symmetry == Permutations(Worker) \cup Permutations(Token)
=============================================================================
