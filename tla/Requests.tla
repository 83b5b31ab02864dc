------------------------------ MODULE Requests ------------------------------
(* The concurrent API requests of the back office, each one database       *)
(* transaction.  A row another transaction locked FOR UPDATE is waited for. *)
CONSTANTS
    Request,  \* concurrent requests
    None      \* no request, no row, no value

\* What a session writes when it commits: the columns it changed of a row ...
Changed(from, to) == [c \in {d \in DOMAIN to : to[d] # from[d]} |-> to[c]]

\* ... over the row as it is by then.
Overwritten(row, columns) ==
    [c \in DOMAIN row |-> IF c \in DOMAIN columns THEN columns[c] ELSE row[c]]
=============================================================================
