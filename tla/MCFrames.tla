-------------------------------- MODULE MCFrames --------------------------------
EXTENDS Frames

\* Numbers of several bytes, none of which repeats; -1 is kInvalidAddress.
MCStamps  == {66051, 16909060}
MCHere    == {-1, 262}
MCHosts   == {262, 65801, 16909061}
\* Doubles that are floats, and such that are not.
MCMotions == {<<<<1, 0>>, <<256, 1>>, <<65536, 0>>, <<8388607, 1>>, <<8388608, 0>>, <<2139095039, 1>>>>}
\* A UDP header, its length 11, and three bytes.
MCPayloads == {[i \in 1 .. 11 |-> IF i = 5 THEN 0 ELSE IF i = 6 THEN 11 ELSE 100 + i]}

\* Source routes of one, three and ten links: the last has more nodes than slots.
MCRoutes == {[i \in 1 .. n |-> 65536 * n + 256 * i + 7] : n \in {2, 4, 11}}

=============================================================================
