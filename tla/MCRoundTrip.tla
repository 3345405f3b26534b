----------------------------- MODULE MCRoundTrip -----------------------------
(* A capture with a gap, an unknown identifier and an outage, for TLC.      *)
EXTENDS RoundTrip

CONSTANTS Vcan0

Line(time, channel, digits, id, payload) ==
    [matches |-> TRUE, at |-> time * Microsecond, channel |-> channel,
     digits |-> digits, id |-> id, payload |-> payload]

\* Six bytes, of which the last is the counter.
DataLine(time, high, low) ==
    Line(time, Vcan0, 3, DataId, <<0, 0, 0, 0, 0, 0, 0, 0, 0, 0, high, low>>)

\* Counters 254, 0 and 1.  The second line is malformed.
ShortCapture ==
    <<DataLine(0, 15, 14),
      [DataLine(0, 15, 15) EXCEPT !.payload = Append(@, 0)],
      DataLine(0, 0, 0),
      Line(6, Can0, 8, 100000, <<10, 10>>),
      DataLine(6, 0, 1)>>

\* Traffic of others that could pass for a frame of the capture.
OtherFrames == {Parsed(DataLine(0, 0, 0))}
=============================================================================
