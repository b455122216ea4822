---------------------------- MODULE MCHumanInput ----------------------------
(* Two selectors; boxes above, inside and below the viewport, one out of the
   wheel's reach and one too tall; the page may start at either end. *)
EXTENDS HumanInput

MCSelectors == <<".cf-turnstile", "#challenge-stage">>

At(top, height) == [top |-> top, height |-> height]
MCBoxes == {At(1, 2), At(7, 2), At(5, 5)}
=============================================================================
