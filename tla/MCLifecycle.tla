---------------------------- MODULE MCLifecycle ----------------------------
(***************************************************************************)
(* Small compositions for TLC.                                             *)
(***************************************************************************)
EXTENDS Lifecycle, TLC

CONSTANTS tool, x, y, b1, b2

Declares(events, needs, optional, glob, build) ==
    [events |-> events, needs |-> needs, optional |-> optional,
     glob |-> glob, listen |-> events, build |-> build]

Provider == Declares({x}, {}, {}, {}, b1)
RebuiltProvider == Declares({x}, {}, {}, {}, b2)
WiderProvider == Declares({x, y}, {}, {}, {}, b1)
NeedsX == Declares({y}, {x}, {}, {}, b1)
AsksX == Declares({y}, {}, {x}, {}, b1)
TakesAll == Declares({}, {tool}, {}, {x, y}, b1)
DeclaresYToo == Declares({y}, {tool}, {}, {}, b1)

\* Three in a row: 1 offers x, 2 needs x or only asks for it and offers y, 3
\* takes all it finds or claims y for itself.
Chain == <<{Provider, Broken}, {NeedsX, AsksX},
           {TakesAll, DeclaresYToo}>>

\* Two that may come to declare the same event.
Rivals == <<{Provider, RebuiltProvider, WiderProvider},
            {NeedsX, Declares({y}, {}, {}, {}, b1)}>>
=============================================================================
