---------------------------- MODULE MCAsyncAgent -----------------------------
(* Three items through a queue of one, two streams that fail.              *)
EXTENDS AsyncAgent
=============================================================================
