--------------------------- MODULE MCPromptServer ---------------------------
(***************************************************************************)
(* PromptServer with three clients: one sends two commands with an element *)
(* between them that is skipped, one a single command, one an empty body.  *)
(***************************************************************************)
EXTENDS PromptServer

CONSTANTS c1, c2, c3

Messages ==
  [c \in Clients |->
     CASE c = c1 -> [len |-> 2, commands |-> <<"known", "skipped", "known">>]
       [] c = c2 -> [len |-> 1, commands |-> <<"known">>]
       [] OTHER  -> [len |-> 0, commands |-> <<>>]]
=============================================================================
