-------------------------- MODULE MCTriChatTimeline --------------------------
(* Instances of the timeline for TLC. *)
EXTENDS TriChatTimeline, TLC

CONSTANTS p1, p2, c1, c2, a1, a2, a3, x, y

Symmetry == Permutations({p1, p2}) \cup Permutations({a1, a2, a3}) \cup Permutations({x, y})

EventTypes == {"trichat.message_post", "consensus.alert", "trichat.turn", "adapter"}

\* One client takes everything, one the alerts and adapter events.
SomeWants == (c1 :> {}) @@ (c2 :> {"consensus.alert", "adapter"})

Bound(ps, cs, posts, publishes, controls, prunes, m, turns) ==
    [procs |-> ps, clients |-> cs, posts |-> posts, publishes |-> publishes, controls |-> controls,
     prunes |-> prunes, mishaps |-> m, turns |-> turns]

\* A long thread on one process, short ones on two, and events on one and two processes that
\* start, stop and die under their subscribers.
FewBudgets ==
    {Bound({p1}, {}, 4, 1, 0, 1, 0, TRUE), Bound({p1, p2}, {}, 4, 0, 0, 0, 0, TRUE),
     Bound({p1, p2}, {}, 3, 0, 0, 0, 1, TRUE),
     Bound({p1}, {c1, c2}, 0, 3, 1, 0, 1, FALSE), Bound({p1}, {c2}, 1, 2, 1, 0, 2, FALSE),
     Bound({p1, p2}, {c1}, 0, 2, 2, 0, 1, FALSE), Bound({p1, p2}, {c1}, 0, 3, 0, 0, 1, FALSE)}
=============================================================================
