----------------------------- MODULE MCKeyboard -----------------------------
(* Two keys, a queue of two and four inputs: enough to fill the queue while *)
(* a delivery is under way, drop twice and saturate the counter.            *)
EXTENDS Keyboard

MCKeys == {11, 12}
=============================================================================
