---------------------------- MODULE MCHttpClient ----------------------------
(* Instances of HttpClient for TLC. *)
EXTENDS HttpClient

\* A plain and a chunked answer, an error answer, one whose status is out of
\* range and one whose first line is not HTTP.
Answers ==
    { [status |-> 200, chunked |-> FALSE, units |-> 2],
      [status |-> 200, chunked |-> TRUE,  units |-> 1],
      [status |-> 404, chunked |-> FALSE, units |-> 1],
      [status |-> 100, chunked |-> FALSE, units |-> 0],
      [status |-> 0,   chunked |-> FALSE, units |-> 1] }

OneAnswer == { [status |-> 200, chunked |-> FALSE, units |-> 1] }

=============================================================================
