-------------------------------- MODULE Dial --------------------------------
(***************************************************************************)
(* What an absolute encoder promises, without a decoder: a dial with two   *)
(* marks per tooth, turned a mark at a time, and a position that is read   *)
(* off it to the nearest tooth.                                            *)
(*                                                                         *)
(* The dial is read from time to time.  A turn of more than one mark       *)
(* between two readings is more than a reader can follow, and so is a      *)
(* change of the number of teeth: either may lose the angle.  Nothing else *)
(* may, and a reading neither turns the dial nor shows a wrong position.   *)
(***************************************************************************)
EXTENDS Integers

CONSTANT Encoders   \* the dials, which share one number of teeth

VARIABLES
    teeth,      \* the number of teeth
    moved,      \* per dial, the marks it was turned since it was read
    angle,      \* per dial, the mark it stands at, or Lost
    position    \* per dial, the tooth that was read

vars == <<teeth, moved, angle, position>>

Lost   == -1
Marks  == 2 * teeth
Angles == {Lost} \cup 0 .. Marks - 1

\* The position p is the tooth of mark a: one of its marks, or half way.
Shows(a, p) == (a - 2 * p) % Marks \in {0, 1, Marks - 1}
-----------------------------------------------------------------------------
Init ==
    /\ teeth \in Nat
    /\ moved = [e \in Encoders |-> 0]
    /\ position = [e \in Encoders |-> 0]
    /\ angle \in [Encoders -> Angles]
    /\ \A e \in Encoders : angle[e] # Lost => Shows(angle[e], 0)

Turn(e, d) ==
    /\ moved' = [moved EXCEPT ![e] = @ + d]
    /\ angle' \in [Encoders -> Angles]
    /\ \A f \in Encoders \ {e} : angle'[f] = angle[f]
    /\ angle[e] # Lost =>
           angle'[e] = IF moved'[e] \in -1..1 THEN (angle[e] + d) % Marks ELSE Lost
    /\ UNCHANGED <<teeth, position>>

Read ==
    /\ moved' = [e \in Encoders |-> 0]
    /\ angle' \in [Encoders -> Angles]
    /\ position' \in [Encoders -> Nat]
    /\ \A e \in Encoders :
           angle[e] # Lost => angle'[e] = angle[e] /\ Shows(angle[e], position'[e])
    /\ UNCHANGED teeth

Adjust ==
    /\ teeth' \in Nat \ {teeth}
    /\ angle' \in [Encoders -> Angles']
    /\ UNCHANGED <<moved, position>>

Next ==
    \/ \E e \in Encoders, d \in {-1, 1} : Turn(e, d)
    \/ Read
    \/ Adjust

Spec == Init /\ [][Next]_vars
=============================================================================
