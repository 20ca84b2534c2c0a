------------------------------- MODULE MCToolbox -------------------------------
(* Values for model checking: a request with no identity and two whose user *)
(* identities would name the same parent directory or a nested path; answers *)
(* of the search service on both sides of every limit of its two readers.    *)
EXTENDS Toolbox, TLC

MCHeaders == {<<<<>>, <<>>>>, <<<<>>, <<".", "/">>>>, <<<<".", ".">>, <<"a">>>>}

Listed(status, body, results, n) ==
    [status |-> status, body |-> body, results |-> results, n |-> n]

MCAnswers ==
    {Listed("ok", 1, "decoded", n) : n \in {4, 11}}
    \union {Listed(status, 1, "decoded", 4) : status \in {"success", "failure"}}
    \union {Listed("ok", body, "decoded", 10) : body \in {2, 3, 5}}
    \union {Listed("ok", 1, results, 11) : results \in {"undecoded", "other", "none", "invalid"}}

\* The nested path is only looked up: containers of one key are enough to meet.
MCBlocked == {<<".", "_">>}
================================================================================
