---------------------------- MODULE RequestThreads ----------------------------
(***************************************************************************)
(* The threads of the server and what each is serving, as every model of   *)
(* requests that overlap has them.  A request is loaded with what its      *)
(* handler has read, and answered by the step that commits what it writes  *)
(* or by the one that gives it up.                                         *)
(***************************************************************************)

CONSTANTS
    Workers,        \* request threads
    NoRow,          \* no row in a table
    Idle            \* no request

VARIABLE
    req             \* the request each thread is serving

Serving(w, ops) == req[w] # Idle /\ req[w].op \in ops

Answer(w) == req' = [req EXCEPT ![w] = Idle]

\* What an UPDATE leaves in a column, as in FormWorkflow.
Column(current, loaded, new) == IF new = loaded THEN current ELSE new
===============================================================================
