---------------------------- MODULE MCActivity ------------------------------
(* A small instance of Activity: two members of one year, both subscribed; *)
(* a creator who is no administrator; one group.                           *)
EXTENDS Activity, TLC

CONSTANTS u1, u2, y1

MCUsers == {u1, u2}
MCYearOf == [u \in MCUsers |-> y1]

Symmetry == Permutations(MCUsers) \union Permutations(Broadcasters)
=============================================================================
