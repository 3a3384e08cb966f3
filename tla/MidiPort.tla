-------------------------------- MODULE MidiPort --------------------------------
(***************************************************************************)
(* What an MPU-401 UART port promises the rawmidi core, with no interrupt  *)
(* handler and no locks: two substreams that open and close, a UART that   *)
(* is in UART mode while any of them is open and reset when the last one   *)
(* closes, interrupt sources armed only for open substreams, and an output *)
(* queue whose bytes leave it only by being sent while the transmitter is  *)
(* armed, or by being dropped.  EmuMidi is checked to implement it.         *)
(***************************************************************************)
EXTENDS Integers

CONSTANT MaxPending   \* bound on the bytes the core queues for output

VARIABLES
    open,      \* the substreams the core has open
    uart,      \* "uart" or "intelligent"
    enabled,   \* the interrupt sources armed
    queue      \* bytes waiting in the output substream

avars == <<open, uart, enabled, queue>>

Dirs == {"in", "out"}

AInit ==
    /\ open = {}
    /\ uart = "intelligent"
    /\ enabled = {}
    /\ queue = 0

\* the first opener puts the UART into UART mode; later ones keep it there
AOpen(d) ==
    /\ d \notin open
    /\ open' = open \cup {d}
    /\ uart' = "uart"
    /\ UNCHANGED <<enabled, queue>>

\* a close disarms its source and drops its data; the last one resets
AClose(d) ==
    /\ d \in open
    /\ open' = open \ {d}
    /\ enabled' = enabled \ {d}
    /\ uart' = IF open' = {} THEN "intelligent" ELSE uart
    /\ queue' = IF d = "out" THEN 0 ELSE queue

\* the input substream arms or disarms the receiver
AListen(up) ==
    /\ "in" \in open
    /\ enabled' = IF up THEN enabled \cup {"in"} ELSE enabled \ {"in"}
    /\ UNCHANGED <<open, uart, queue>>

\* the core drops the output data and the transmitter is disarmed
ADrop ==
    /\ "out" \in open
    /\ enabled' = enabled \ {"out"}
    /\ queue' = 0
    /\ UNCHANGED <<open, uart>>

\* the core queues a byte and the port sends some of the queue at once;
\* whatever it leaves queued, it leaves the transmitter armed for
AWrite ==
    /\ "out" \in open /\ queue < MaxPending
    /\ queue' \in 0 .. queue + 1
    /\ enabled' \in {enabled, enabled \cup {"out"}}
    /\ queue' > 0 => "out" \in enabled'
    /\ UNCHANGED <<open, uart>>

\* the armed transmitter sends one queued byte
ASend ==
    /\ "out" \in enabled /\ queue > 0
    /\ queue' = queue - 1
    /\ UNCHANGED <<open, uart, enabled>>

\* the transmitter finds nothing to send and disarms itself
ATxIdle ==
    /\ queue = 0
    /\ enabled' = enabled \ {"out"}
    /\ UNCHANGED <<open, uart, queue>>

ANext ==
    \/ \E d \in Dirs : AOpen(d) \/ AClose(d)
    \/ \E up \in BOOLEAN : AListen(up)
    \/ ADrop \/ AWrite \/ ASend \/ ATxIdle

(* A queued byte on an armed transmitter is sent unless the queue is       *)
(* dropped or the substream closed first.                                  *)
ASpec == AInit /\ [][ANext]_avars /\ WF_avars(ASend)
================================================================================
