---------------------------- MODULE FrameStream ----------------------------
(***************************************************************************)
(* What the parser of a connection promises to the code it hands packets   *)
(* to: each packet of the stream once, in the order of the stream, none    *)
(* before its last byte has come, none taken back, with what the listener  *)
(* is to be told of that packet and no other; and that it waits for more   *)
(* bytes only when all packets that are whole were handed over.            *)
(* A parser may be excused, for reasons of its own, to the end of the      *)
(* connection.                                                             *)
(***************************************************************************)
EXTENDS Integers, Sequences

VARIABLES frames,   \* packets sent: <<bytes before it, bytes to its end, what is
                    \* told of it>>
          base,     \* where the connection's stream begins
          arrived,  \* bytes that have come end here
          given,    \* packets handed over
          waits,    \* the parser waits for more bytes
          excused   \* the parser owes nothing on this connection

vars == <<frames, base, arrived, given, waits, excused>>

\* Where the packet after the last one handed over begins.
NextAt == IF given = <<>> THEN base ELSE given[Len(given)][2]

WholeFrames == {f \in frames : f[1] = NextAt /\ f[2] <= arrived}

NoneKept == waits => WholeFrames = {}

Init == /\ arrived = base
        /\ given = <<>>
        /\ NoneKept
        /\ ~ excused

\* The peer sends packets behind all bytes that have come.
Send == /\ frames \subseteq frames'
        /\ \A f \in frames' \ frames : f[1] >= arrived
        /\ UNCHANGED <<base, arrived, given, excused>>

Arrive == /\ waits
          /\ arrived' > arrived
          /\ UNCHANGED <<frames, base, given, excused>>

Give == /\ \E f \in WholeFrames : given' = Append(given, f)
        /\ UNCHANGED <<frames, base, arrived, excused>>

\* Another connection, whose stream is told from the one before.
Connect == /\ base' > arrived /\ arrived' = base'
           /\ given' = <<>>

\* The parser looks at bytes it has.
Work == UNCHANGED <<frames, base, arrived, given, excused>>

Excused == excused'

Next == \/ /\ Send \/ Arrive \/ Give \/ Connect \/ Work
           /\ NoneKept'
        \/ Excused

Spec == Init /\ [][Next]_vars

=============================================================================
