----------------------------- MODULE MCDispatch -----------------------------
(***************************************************************************)
(* Two cartridges that listen to x.  1 declares it and may stop listening, *)
(* 2 needs it.                                                             *)
(***************************************************************************)
EXTENDS Dispatch, TLC

CONSTANTS tool, x, b1

Declares(events, needs, listen) ==
    [events |-> events, needs |-> needs, optional |-> {}, glob |-> {},
     listen |-> listen, build |-> b1]

Owner1 == {Declares({x}, {}, {x}), Declares({x}, {}, {})}
Needs2 == {Declares({}, {x}, {x})}

Pair == <<Owner1, Needs2>>
=============================================================================
