------------------------------ MODULE MCImports ------------------------------
EXTENDS Imports

MCSectionOf == [s \in Slots |-> IF s = 1 THEN "gap" ELSE ".rdata"]

\* Three modules with an export each; also one address under two names, an
\* export forwarded to another module's of its name, and one whose code jumps to another
Entry(m, a, n) == [mod |-> m, at |-> a, name |-> n, ord |-> FALSE, fwd |-> <<>>, stub |-> 0]
Base == {Entry(1, 1, 1), Entry(2, 2, 2), Entry(3, 3, 3)}
Optional == {Entry(2, 3, 4), [Entry(1, 11, 2) EXCEPT !.fwd = <<2, 2>>],
             [Entry(2, 12, 6) EXCEPT !.stub = 3]}
Ordinal == [Entry(3, 3, 7) EXCEPT !.ord = TRUE]

MCWorlds == {Base \union w : w \in SUBSET Optional}
\* The worlds in which OrdinalsSurvive fails
MCOrdinalWorlds == {w \union {Ordinal} : w \in MCWorlds}
\* What the names lead to in them does not depend on the module
ASSUME MCWorldsAgree == \A w \in MCWorlds : Agreeing(Seen(w))

MCHome == 1 :> 1 @@ 2 :> 2 @@ 3 :> 3 @@ 9 :> 0 @@ 11 :> 1 @@ 12 :> 2
MCPriority == <<100, 0, 0>>
MCScore == <<9, 0, 0>>
=============================================================================
