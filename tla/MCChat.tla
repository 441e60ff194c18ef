-------------------------------- MODULE MCChat --------------------------------
(* Chat for TLC.                                                              *)
EXTENDS Chat, TLC

CONSTANTS h1, h2

B(requests, time, sent, attachments, faults) ==
    [requests |-> requests, time |-> time, messages |-> sent,
     attachments |-> attachments, faults |-> faults]

\* One request at a time for two messages; two requests that overlap and may fail;
\* and two that are answered.
MCBounds ==
    {B({h1}, 1, 2, {TRUE}, FALSE), B({h1, h2}, 1, 1, {TRUE}, TRUE),
     B({h1, h2}, 1, 1, {FALSE}, FALSE)}

SerialBounds == {B({h1}, 2, 1, {FALSE}, FALSE)}
=============================================================================
