---------------------------- MODULE MCAppShutdown ----------------------------
(* Small instances of AppShutdown.                                         *)
EXTENDS AppShutdown

CONSTANTS h1, h2, c1, c2

MCWriter == {Main} \cup Handler \cup Cron
==============================================================================
