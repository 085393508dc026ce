------------------------------ MODULE Display -------------------------------
(***************************************************************************)
(* What the renderer promises the decoder, without threads or a bound: the *)
(* pictures shown are pictures submitted, in the order of submission.      *)
(* Some are skipped, but never the one submitted last: it is pending until *)
(* it is shown or the display is given up.                                 *)
(*                                                                         *)
(* VideoRenderer (module Renderer) implements this display.                *)
(***************************************************************************)
EXTENDS Integers, Sequences

CONSTANTS
    Pictures,
    None              \* no picture

VARIABLES
    pending,          \* the pictures submitted and not yet shown or skipped
    newest,           \* the picture submitted last
    shown,            \* the picture in the window
    open              \* FALSE once the display has been given up

vars == <<pending, newest, shown, open>>

Init ==
    /\ pending = <<>>
    /\ newest = None
    /\ shown = None
    /\ open = TRUE

(* The pictures of s at the places kept, in order. *)
Thinned(s, t) ==
    \E place \in [1..Len(t) -> 1..Len(s)] :
        /\ \A i, j \in 1..Len(t) : i < j => place[i] < place[j]
        /\ \A i \in 1..Len(t) : t[i] = s[place[i]]

(* The new picture comes last; of the others some may be skipped for it. *)
Submit(p) ==
    /\ newest' = p
    /\ pending' \in Seq(Pictures) \ {<<>>}
    /\ pending'[Len(pending')] = p
    /\ Thinned(pending, SubSeq(pending', 1, Len(pending') - 1))
    /\ UNCHANGED <<shown, open>>

Show ==
    /\ open
    /\ pending # <<>>
    /\ shown' = Head(pending)
    /\ pending' = Tail(pending)
    /\ UNCHANGED <<newest, open>>

(* The display is given up, perhaps with the picture it could not show. *)
Close ==
    /\ open
    /\ open' = FALSE
    /\ \/ pending' = pending
       \/ pending # <<>> /\ shown = None /\ pending' = Tail(pending)
    /\ UNCHANGED <<newest, shown>>

(* What was not shown before the end never is. *)
Discard ==
    /\ ~ open
    /\ pending' = <<>>
    /\ UNCHANGED <<newest, shown, open>>

Next == (\E p \in Pictures : Submit(p)) \/ Show \/ Close \/ Discard

Spec == Init /\ [][Next]_vars

-----------------------------------------------------------------------------
(* As long as the display is not given up, the picture submitted last is    *)
(* the last one pending or the one in the window, whatever was skipped.     *)
NewestKept ==
    (open /\ newest # None) =>
        newest = IF pending = <<>> THEN shown ELSE pending[Len(pending)]
=============================================================================
