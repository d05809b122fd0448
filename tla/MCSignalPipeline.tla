-------------------------- MODULE MCSignalPipeline --------------------------
(* Instances of SignalPipeline for TLC.                                     *)
EXTENDS SignalPipeline

CONSTANTS smc, agent, classic, c1, c2, c3, p1, p2, d1

Enter(action, stop) ==
  [action |-> action, dedup |-> NoKey, cools |-> TRUE, confident |-> TRUE,
   part |-> FALSE, qty |-> 0, stop |-> stop, target |-> TRUE]
Exit(action) ==
  [Enter(action, 0) EXCEPT !.cools = FALSE, !.target = FALSE]

\* Two evaluations of the SMC strategy, which close with a cooldown, and the
\* agent, which closes without one, partly under a key of its own.
DuelOffers ==
  [s \in {smc, agent} |->
     IF s = smc
     THEN {[Enter("OPEN_LONG", 9) EXCEPT !.target = FALSE], [Exit("CLOSE_LONG") EXCEPT !.cools = TRUE]}
     ELSE {Enter("OPEN_LONG", 0), Exit("CLOSE_LONG"),
           [Exit("CLOSE_LONG") EXCEPT !.part = TRUE, !.dedup = d1]}]
DuelStrategyOf == [c \in {c1, c2, c3} |-> IF c = c3 THEN agent ELSE smc]
=============================================================================
