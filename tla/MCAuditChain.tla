----------------------------- MODULE MCAuditChain -----------------------------
(***************************************************************************)
(* Small instances of the audit chain for TLC.                             *)
(***************************************************************************)
EXTENDS AuditChainProps

CONSTANTS lower, upper, header, rendered, mixed, netip, inet

\* One UUID in the database's spelling and in another.
MCUuidText == [a \in Id |-> IF a = upper THEN lower ELSE a]

\* A header's address and the text that inet renders for it; an IPv6 address with
\* IPv4 inside and its two renderings.  What has a prefix length is junk in a header.
MCCanonicalIP == [i \in IP |-> CASE i = header -> rendered [] i = mixed -> netip [] OTHER -> None]
MCInet == [i \in IP |-> CASE i = header -> rendered [] i \in {mixed, netip} -> inet [] OTHER -> i]

\* Months of two days and of one stand for those of 31 and 28: the last day of a long
\* month does not exist in a short one.
MCMonthLen == <<2, 1, 2, 1, 2>>
MCStartDates == {[month |-> 1, day |-> 2]}
MCNoMonth == {}
=============================================================================
