----------------------------- MODULE MCListing -----------------------------
(* Every kind of source for TLC: three accounts, two leads at most, three    *)
(* pages of a feed and four feeds.                                           *)
EXTENDS Listing

CONSTANTS a1, a2, a3, c1, c2, c3

MCAccount == {a1, a2, a3}
MCCursor == {c1, c2, c3}
=============================================================================
