--------------------------- MODULE MCBrowserAccess ---------------------------
(* Instances of BrowserAccess: codes, tokens, tabs and sources only differ by *)
(* their identity.                                                            *)
EXTENDS BrowserAccess, TLC

Symmetry ==
  Permutations(Codes) \cup Permutations(Sessions) \cup Permutations(Tabs)
    \cup Permutations(Sources)

=============================================================================
