------------------------------- MODULE MCProcess -------------------------------
(* A small instance of Process for TLC. *)
EXTENDS Process, TLC

CONSTANTS x, xy, long, no, vin, model, subj, v1, v2, unit, other

\* The string xy has a line break in it, long is one line.
TwoLines == x :> <<x>> @@ xy :> <<x, x>> @@ long :> <<long>>

\* Lists of no, one and two strings, one that is refused half way, one that the
\* file cannot hold and one that it cannot give back.
SomeLists == {<<>>, <<x>>, <<x, x>>, <<x, no>>, <<xy>>, <<x, long>>}

\* The VIN comes first, so that a later New may fail after it was made up.
VinFirst == <<vin, subj, model>>

\* A VIN is random; there is one default unit model and perhaps another one.
Held == vin :> {v1, v2} @@ model :> {unit, other}
MadeUp == vin :> {v1, v2} @@ model :> {unit}
=============================================================================
