--------------------------- MODULE MCClassManager ---------------------------
(* Model checking of ClassManager: a1 and a2 set the same property, as the foreign
   class f does; b and the foreign class g are on their own. *)
EXTENDS ClassManager, TLC

CONSTANTS a1, a2, b, f, g

MCGroup == [c \in Class |-> IF c \in {a1, a2, f} THEN a1 ELSE c]
MCPalettes == {{}, {a1}, {a2, b}}
MCInitially == [s \in Source |-> IF s = 1 THEN {a1} ELSE {a2, b}]
MCHostClasses == {{}, {f, b}}

=============================================================================
