--------------------------- MODULE MCBrowserCalls ---------------------------
(***************************************************************************)
(* Small instances of BrowserCalls for TLC.                                *)
(***************************************************************************)
EXTENDS BrowserCalls, TLC

CONSTANTS c1, c2, c3, t1, t2, p1, p2, o1, o2, k1

OneTask       == [c \in Calls |-> k1]
OriginPerPage == [p \in Pages |-> IF p = p1 THEN o1 ELSE o2]
OnThePage     == [c \in Calls |-> OriginPerPage]
\* c2 is a browser_navigate to o2.
SecondGoesToO2 == [c \in Calls |-> IF c = c2 THEN [p \in Pages |-> o2] ELSE OriginPerPage]
NoPairs       == {}
SecondOnP2    == {<<c2, p2>>}

\* Tabs differ in nothing but their names.
SameTabs == Permutations(Tabs)
=============================================================================
