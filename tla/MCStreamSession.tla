--------------------------- MODULE MCStreamSession ---------------------------
(* Small instance of StreamSession for TLC: a byte limit of three, and the
   fragments that make the parser and the loop take every path. *)
EXTENDS StreamSession

MCFragments ==
    { [bytes |-> 0, events |-> <<>>],
      [bytes |-> 1, events |-> <<"chunk">>],
      [bytes |-> 1, events |-> <<"done">>],
      [bytes |-> 1, events |-> <<"invalid">>],
      [bytes |-> 2, events |-> <<"chunk", "chunk">>],
      [bytes |-> 2, events |-> <<"chunk", "usage", "done">>],
      [bytes |-> 2, events |-> <<"chunk", "done", "error">>],
      [bytes |-> 3, events |-> <<"usage", "chunk", "undeclared">>] }
==============================================================================
