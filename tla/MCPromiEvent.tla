---------------------------- MODULE MCPromiEvent ----------------------------
(* A listener of each kind for each event, those that throw told apart.     *)
EXTENDS PromiEvent

CONSTANTS done, doneThrows, error, errorThrows, settled, settledThrows

MCListeners == {done, doneThrows, error, errorThrows, settled, settledThrows}
MCThrowing == {doneThrows, errorThrows, settledThrows}

MCEvent == [l \in MCListeners |->
              CASE l \in {done, doneThrows} -> "done"
                [] l \in {error, errorThrows} -> "error"
                [] OTHER -> "settled"]
=============================================================================
