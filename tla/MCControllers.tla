---------------------------- MODULE MCControllers ----------------------------
(* An instance of Controllers. *)
EXTENDS Controllers

\* a usual job, one without a front, one with nothing to run, two that fail, and a proxy
Usual == [mirror |-> TRUE, upstream |-> TRUE, image |-> TRUE, frontMode |-> TRUE, disableFront |-> FALSE,
          rsync |-> FALSE, size |-> TRUE]
JobSpecsHere ==
  {Usual, [Usual EXCEPT !.disableFront = TRUE, !.rsync = TRUE],
   [Usual EXCEPT !.frontMode = FALSE, !.image = FALSE],
   [Usual EXCEPT !.upstream = FALSE], [Usual EXCEPT !.size = FALSE], [Usual EXCEPT !.mirror = FALSE]}
=============================================================================
