-------------------------- MODULE MCPlayerLifecycle --------------------------
(***************************************************************************)
(* PlayerLifecycle for TLC.  The constraints end a behaviour at the races  *)
(* a run is not about: a property of the form "unless Raced" holds in a    *)
(* state with a race, which therefore needs no successors.                 *)
(***************************************************************************)
EXTENDS PlayerLifecycle

UntilRaced == ~Raced
OnlySecondStop == mishaps \subseteq {"second_stop"}

=============================================================================
