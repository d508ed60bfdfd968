-------------------------- MODULE MCSpeakingGrade --------------------------
(***************************************************************************)
(* Small instances of SpeakingGrade: the talk and one answer of Part 1,    *)
(* with measurements on both sides of every threshold.                     *)
(***************************************************************************)
EXTENDS SpeakingGrade

CONSTANTS talk, interview

PartOfAnswer == [a \in Answers |-> IF a = talk THEN 2 ELSE 1]

Fluent == [words |-> 40, talk |-> 600, pauses |-> 600, rate |-> 700, clear |-> 85, pitch |-> 15]

Recordings ==
    {Fluent,
     [Fluent EXCEPT !.words = 0, !.talk = 0, !.rate = 0],
     [Fluent EXCEPT !.words = 39],
     [Fluent EXCEPT !.talk = 0],
     [Fluent EXCEPT !.talk = 449, !.clear = 59], [Fluent EXCEPT !.talk = 450, !.clear = 60],
     [Fluent EXCEPT !.talk = 599, !.clear = 74], [Fluent EXCEPT !.pauses = 601, !.clear = 75],
     [Fluent EXCEPT !.pauses = 1000, !.clear = 84], [Fluent EXCEPT !.pauses = 1001, !.pitch = 14],
     [Fluent EXCEPT !.rate = 499, !.pitch = 1], [Fluent EXCEPT !.rate = 500, !.pitch = 0],
     [Fluent EXCEPT !.rate = 699]}

=============================================================================
