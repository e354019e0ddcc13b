----------------------------- MODULE MCAppTabs -----------------------------
(* AppTabs on a small instance: one connection is listed at first.         *)
EXTENDS AppTabs

CONSTANTS c1, c2

MCConns  == {c1, c2}
MCListed == <<c1>>
=============================================================================
