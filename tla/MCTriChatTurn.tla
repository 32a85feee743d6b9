---------------------------- MODULE MCTriChatTurn ----------------------------
(* Instances of the turn state machine for TLC. *)
EXTENDS TriChatTurn, TLC

Symmetry == Permutations(Procs) \cup Permutations(TurnIds)

Ask(status, phase, phase_status, skip) ==
    [Nothing EXCEPT !.status = status, !.phase = phase,
                    !.phase_status = phase_status, !.skip = skip]

\* What clients of the repository ask for, and what validation has to refuse: a phase
\* with its status, the ends of a turn, the last phase closed while still running, and an
\* empty summary.
FewAdvances ==
    {Ask(Keep, ph, "completed", FALSE) : ph \in {Propose, Critique, Merge}}
    \cup {Ask("running", Execute, "running", TRUE), Ask("completed", Summarize, "completed", FALSE),
          Ask(Keep, Summarize, "completed", TRUE), Ask("cancelled", Keep, "failed", FALSE),
          [Nothing EXCEPT !.summary = FALSE]}

TwoAdvances ==
    {Ask(Keep, Propose, "completed", FALSE), Ask("cancelled", Keep, "failed", FALSE)}
=============================================================================
