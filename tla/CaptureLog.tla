------------------------------ MODULE CaptureLog ------------------------------
(****************************************************************************)
(* logfile.py: captures as lines of text, candump's "(time) channel id#hex".*)
(*                                                                          *)
(* A line that matches LOG_LINE_PATTERN is known by its groups: the time,   *)
(* the channel, the digits of the identifier and the hexadecimal digits of  *)
(* the payload.  Times are in nanoseconds; a float has a finer one.         *)
(****************************************************************************)
EXTENDS Integers, Sequences

CONSTANTS Channels,   \* names of channels
          NoChannel,  \* the empty one
          Can0        \* the name that is written in its place

MaxPayloadBytes == 8
MaxStandardId   == 2047
MaxExtendedId   == 536870911
Microsecond     == 1000

Byte  == 0 .. 255
Digit == 0 .. 15

\* CanFrame
CanFrame ==
    {f \in [at       : Nat,
            channel  : Channels \cup {NoChannel},
            id       : 0 .. MaxExtendedId,
            extended : BOOLEAN,
            data     : Seq(Byte)] :
        /\ ~f.extended => f.id <= MaxStandardId
        /\ Len(f.data) <= MaxPayloadBytes}

\* A line, known by its groups.
LogLine ==
    [matches : BOOLEAN,
     at      : Nat,
     channel : Channels \cup {NoChannel, Can0},
     digits  : Nat,
     id      : Nat,
     payload : Seq(Digit)]

-----------------------------------------------------------------------------
(* parse_log_line                                                           *)

\* The line is a frame, and not a MalformedLine.
WellFormed(line) ==
    /\ line.matches
    /\ Len(line.payload) % 2 = 0
    /\ Len(line.payload) <= 2 * MaxPayloadBytes
    /\ line.digits <= 3 => line.id <= MaxStandardId

Bytes(payload) ==
    [i \in 1 .. Len(payload) \div 2 |->
        16 * payload[2 * i - 1] + payload[2 * i]]

Parsed(line) ==
    [at       |-> line.at,
     channel  |-> line.channel,
     id       |-> line.id,
     extended |-> line.digits > 3,
     data     |-> Bytes(line.payload)]

-----------------------------------------------------------------------------
(* format_log_line                                                          *)

\* Six decimals, a tie to the even one.
Rounded(time) ==
    LET below == time \div Microsecond
        rest  == time % Microsecond
        up    == 2 * rest > Microsecond
                 \/ (2 * rest = Microsecond /\ below % 2 = 1)
    IN  Microsecond * (IF up THEN below + 1 ELSE below)

Digits(data) ==
    [i \in 1 .. 2 * Len(data) |->
        IF i % 2 = 1 THEN data[(i + 1) \div 2] \div 16
                     ELSE data[i \div 2] % 16]

\* Mutant: every identifier is written with three digits, or as many as it has.
FormattedShort(frame) ==
    [matches |-> TRUE,
     at      |-> Rounded(frame.at),
     channel |-> IF frame.channel = NoChannel THEN Can0 ELSE frame.channel,
     digits  |-> 3,
     id      |-> frame.id,
     payload |-> Digits(frame.data)]

Formatted(frame) ==
    [matches |-> TRUE,
     at      |-> Rounded(frame.at),
     channel |-> IF frame.channel = NoChannel THEN Can0 ELSE frame.channel,
     digits  |-> IF frame.extended THEN 8 ELSE 3,
     id      |-> frame.id,
     payload |-> Digits(frame.data)]

-----------------------------------------------------------------------------
\* LogReadResult.frames of read_log: malformed lines are left out.
ReadLog(lines) ==
    LET read[n \in 0 .. Len(lines)] ==
            IF n = 0 THEN <<>>
            ELSE IF WellFormed(lines[n])
                 THEN Append(read[n - 1], Parsed(lines[n]))
                 ELSE read[n - 1]
    IN  read[Len(lines)]

\* What write_log leaves in the file.
WriteLog(frames) == [i \in DOMAIN frames |-> Formatted(frames[i])]
=============================================================================
