---------------------------- MODULE MCTargetLadder ----------------------------
(* Ladders of up to three entries over two models: an entry without options, one that is retried on
   its statuses, one with a key of its own and a code, and one that fails the validation. *)
EXTENDS TargetLadder

CONSTANTS A, B, x, y, c

Plain == [target |-> A, place |-> x, valid |-> TRUE, retryOn |-> {}, retry |-> NoRetry,
          otac |-> NoCode, egress |-> FALSE]
Retried == [Plain EXCEPT !.place = y, !.retryOn = {429, 502}, !.retry = 2]
Coded == [Plain EXCEPT !.target = B, !.retryOn = {400}, !.otac = c, !.egress = TRUE]
Invalid == [Plain EXCEPT !.valid = FALSE]
Entries == {Plain, Retried, Coded, Invalid}
MCBodies == {<<e, f, g>> : e, f, g \in Entries}
MCStatuses == {200, 304, 400, 429}
MCErrorStatuses == {0, 502}
=============================================================================
