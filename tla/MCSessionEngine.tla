-------------------------- MODULE MCSessionEngine --------------------------
(* Instances of SessionEngine small enough for TLC. *)
EXTENDS SessionEngine, TLC

\* A prompt, then a wait, then an event: every kind of checkpoint follows
\* another kind.
KindMixed == <<"input", "timer", "event">>
KindPrompts == <<"input", "input">>
KindPoll == <<"event", "poll">>
KindTimerFirst == <<"timer", "input">>
============================================================================
