------------------------- MODULE MCOperationService -------------------------
EXTENDS OperationService, TLC

CONSTANTS c1, c2, send, s1, s2, stop

Collectors == {c1, c2}
Steers == {<<s1, 1>>, <<s1, 2>>, <<s2, 1>>}
Stops == {<<stop, 1>>, <<stop, 2>>}
Actions == {send} \cup Steer \cup Stop

\* One request repeated and another beside it; two collectors beside a control.
Controlled == {{c1} \cup Steers, {c1, <<s1, 1>>, <<stop, 1>>},
               {c1, c2, <<s1, 1>>}, {c1, c2, <<stop, 1>>}}
Steered == {{c1} \cup Steers}
StoppedTwice == {{c1} \cup Stops}
=============================================================================
