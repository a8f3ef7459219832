---------------------------- MODULE MCHeadersSync ----------------------------
(* HeadersSync for TLC.  Chain m of rising difficulty, and two branches of it: *)
(* x keeps the low difficulty longer, y changes it where no adjustment is due.        *)
EXTENDS HeadersSync, TLC

CONSTANTS m1, m2, m3, m4, m5, m6, m7, m8, x3, x4, x5, x6, x7, x8, y3

MCPathM == <<m1, m2, m3, m4, m5, m6, m7, m8>>
MCPathX == <<m1, m2, x3, x4, x5, x6, x7, x8>>
MCPathY == <<m1, m2, y3>>

MCPath ==
    [h \in Headers |->
        LET p == CHOOSE p \in {MCPathM, MCPathX, MCPathY} : h \in ToSet(p)
        IN SubSeq(p, 1, CHOOSE i \in DOMAIN p : p[i] = h)]

MCnBits ==
    [h \in Headers |-> CASE h \in {m4, m5, m6, m7, y3} -> 2
                         [] h \in {m8, x8}             -> 4
                         [] OTHER                      -> 1]

\* On the commitments of m and x a salted hash agrees, differs at one height, or
\* differs everywhere.
MCSalts == {{}, {x3}, {x4}, {x5}, {x6}, {x7}, {x3, x4, x5, x6, x7, x8}}
=============================================================================
