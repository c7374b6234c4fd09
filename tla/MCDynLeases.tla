----------------------------- MODULE MCDynLeases -----------------------------
(***************************************************************************)
(* Small instances of the dynamic leases for TLC.                          *)
(***************************************************************************)
EXTENDS DynLeasesProps

CONSTANTS u1, p1

\* In time with the server, or half a second ahead of it.
Clocks == {0, 1}

\* A member is demoted and promoted again.
Memberships == {"owner", "viewer"}
Users == {u1}
Providers == {p1}
=============================================================================
