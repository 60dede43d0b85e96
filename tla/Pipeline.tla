------------------------------ MODULE Pipeline ------------------------------
(* What the pipelines of passes have in common, of functions and of modules: *)
(* passes are run one after the other, and what they compute with are words. *)
EXTENDS Integers

CONSTANTS
  Modulus,   \* integers are numbers modulo 2^width
  MaxPasses, \* bound: passes in the pipeline
  None       \* no result is cached, no pass was run, nothing is loaded

ASSUME WidthAssumption == Modulus \in Nat \ {0}

VARIABLE passes  \* how many passes were run
=============================================================================
