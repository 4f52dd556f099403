--------------------------- MODULE TransitionLog ----------------------------
(***************************************************************************)
(* The transition log of the store as its readers see it (store.ts,        *)
(* transitionsAfter): a high-water cursor that only grows, and a limit on  *)
(* how far behind it a reader may start.  The hub (TransitionHub) and the  *)
(* page (WorkspaceClient) read the same log.                               *)
(***************************************************************************)
CONSTANTS
  ReplayLimit, \* EVENT_REPLAY_LIMIT
  MaxCursor    \* bound: the log stops growing here

VARIABLE high  \* high-water cursor: MAX(seq) of the table events

=============================================================================
