---------------------------- MODULE MCConnection ----------------------------
(* Small instance of Connection for TLC: one plan per group of interacting *)
(* features, so that each gets the depth it needs.                         *)
EXTENDS Connection

Plan(r, g, k, n, p, t) == [reqs |-> r, gens |-> g, socks |-> k, notes |-> n, pings |-> p, toggles |-> t]

\* Two incarnations of a stream; requests across a reconnect; notifications
\* across a reconnect; the heartbeat across a reconnect.
MCPlans == {Plan(1, 2, 0, 0, 0, 0), Plan(2, 0, 1, 0, 0, 0), Plan(0, 0, 1, 2, 0, 0), Plan(0, 0, 1, 1, 1, 1)}
=============================================================================
