---------------------------- MODULE MCCallBroker ----------------------------
(* Instances of CallBroker for TLC. *)
EXTENDS CallBroker, TLC

Symmetry == Permutations(Requests)

\* One behaviour keeps to one of these.
CallWeathers ==
  {{"deep", "async", "cancel"}, {"wide", "sync"}, {"wide", "async", "expire", "threads"},
   {"sync", "async", "threads", "nosession"}, {"sync", "async", "queued", "user", "stop", "fire"},
   {"sync", "async", "startfail", "backtoback"}}
=============================================================================
