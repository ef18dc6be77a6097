---------------------------- MODULE MCAutopilot ----------------------------
(***************************************************************************)
(* The autopilot on small boards.                                          *)
(***************************************************************************)
EXTENDS Autopilot, TLC

Symmetry == Permutations(Cards)

Some(n) == {ts \in SUBSET Cards : Cardinality(ts) = n}

BoardWeathers ==
  UNION {[cards : Some(2), may : {{"press", "failed", "cancelled"}}],
         [cards : Some(2), may : {{"cancelled", "failed", "quit", "crash", "boards"}}],
         [cards : Some(2), may : {{"chat", "cancelled", "breaker", "failed"}}],
         [cards : Some(1), may : {{"press", "declare", "drag", "shells", "failed", "boards", "cancelled"}}],
         [cards : Some(1), may : {{"press", "delete", "chat", "cancelled", "boards", "drag", "failed"}}],
         [cards : Some(1), may : {{"press", "retarget", "boards", "cancelled", "failed", "drag"}}],
         [cards : Some(1), may : {{"press", "declare", "chat", "crash", "quit", "breaker", "cancelled", "shells"}}],
         [cards : Some(1), may : {{"drag", "quit", "crash", "failed", "declare", "boards", "press"}}]}

=============================================================================
