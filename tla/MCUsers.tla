------------------------------- MODULE MCUsers -------------------------------
(* Constants for model-checking Users.tla.                                 *)
EXTENDS Users, TLC

CONSTANTS aClass, aWord, y22, y2022

MCYearOf   == aClass :> y22
Message    == [explicit |-> <<>>, ids |-> {}, classes |-> {}, names |-> {}, rest |-> FALSE]
MCMessages == {[Message EXCEPT !.ids = {y22}, !.classes = {aWord}, !.explicit = "year" :> y2022],
               [Message EXCEPT !.names = {Name}, !.classes = {aClass}],
               [Message EXCEPT !.names = {Name}, !.rest = TRUE]}
MCSymmetry == Permutations(Users) \cup Permutations(Qqs) \cup Permutations(Codes \ LowerCodes)
=============================================================================
