----------------------------- MODULE MCJobCheckout -----------------------------
(* Small instances of JobCheckout for TLC.                                 *)
EXTENDS JobCheckout

CONSTANTS page, draft, main, mine, theme, stray

MCPaths == {page, draft}
MCNewDirs == {draft}
Anywhere == {main, mine, stray}
===============================================================================
