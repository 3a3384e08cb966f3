-------------------------------- MODULE EmuMidi --------------------------------
(***************************************************************************)
(* The MPU-401 UART of the EMU10K1 (sound/pci/emu10k1/emumpu401.c).  One  *)
(* emu10k1_midi_t is shared by an input and an output rawmidi substream.   *)
(* The rawmidi core serializes the open and close callbacks; each holds   *)
(* open_lock while it updates midi_mode and the substream pointer, then    *)
(* sends its UART commands, so each is one action here.  The output       *)
(* trigger holds output_lock per byte and is one action.  The interrupt    *)
(* handler runs on another CPU and takes neither open_lock nor the close   *)
(* path's locks, so it is split at its reads and uses of the substream    *)
(* pointers.                                                               *)
(***************************************************************************)
EXTENDS Integers

CONSTANTS
    MaxPending,   \* bound on the bytes queued in the output substream
    TxBurst       \* bytes the output trigger sends before it yields (max = 4)

Dirs == {"in", "out"}
Other(d) == IF d = "in" THEN "out" ELSE "in"
IrqPcs == {"idle", "rx_test", "rx_use", "tx_test", "tx_use"}
Faults == {"none", "null", "closed"}

VARIABLES
    core,     \* the rawmidi core's view of each substream: "closed" / "open"
    mode,     \* midi->midi_mode as the set of its EMU10K1_MIDI_MODE_* bits
    sub,      \* midi->substream_input / substream_output are non-NULL
    uart,     \* the MPU-401: "intelligent" after a reset, "uart" after 0x3f
    inte,     \* rx_enable / tx_enable set in the card's INTE register
    pending,  \* bytes queued in the output substream's buffer
    irq,      \* do_emu10k1_midi_interrupt(): step under way, pointer it read
    fault     \* a substream pointer the interrupt dereferenced wrongly

vars == <<core, mode, sub, uart, inte, pending, irq, fault>>

(* emu10k1_midi_init() and snd_emu10k1_midi(): no substream open, the     *)
(* MPU-401 as the card left it, no MIDI interrupt enabled.                *)
Init ==
    /\ core = [d \in Dirs |-> "closed"]
    /\ mode = {}
    /\ sub = [d \in Dirs |-> FALSE]
    /\ uart = "intelligent"
    /\ inte = {}
    /\ pending = 0
    /\ irq = [pc |-> "idle", v |-> FALSE]
    /\ fault = "none"

-----------------------------------------------------------------------------
\* snd_emu10k1_midi_input_open() / _output_open(): set the mode bit and the
\* substream; the first opener resets the MPU (0xff) and enters UART mode (0x3f)
MidiOpen(d) ==
    /\ core[d] = "closed"
    /\ mode' = mode \cup {d}
    /\ sub' = [sub EXCEPT ![d] = TRUE]
    /\ uart' = IF Other(d) \in mode THEN uart ELSE "uart"
    /\ core' = [core EXCEPT ![d] = "open"]
    /\ UNCHANGED <<inte, pending, irq, fault>>

\* a close that resets the MPU although the other direction is still open
MidiCloseAlwaysReset(d) ==
    /\ core[d] = "open"
    /\ inte' = inte \ {d}
    /\ mode' = mode \ {d}
    /\ sub' = [sub EXCEPT ![d] = FALSE]
    /\ uart' = "intelligent"
    /\ core' = [core EXCEPT ![d] = "closed"]
    /\ pending' = IF d = "out" THEN 0 ELSE pending
    /\ UNCHANGED <<irq, fault>>

\* a close that leaves its interrupt source enabled
MidiCloseKeepingIrq(d) ==
    /\ core[d] = "open"
    /\ mode' = mode \ {d}
    /\ sub' = [sub EXCEPT ![d] = FALSE]
    /\ uart' = IF Other(d) \in mode THEN uart ELSE "intelligent"
    /\ core' = [core EXCEPT ![d] = "closed"]
    /\ pending' = IF d = "out" THEN 0 ELSE pending
    /\ UNCHANGED <<inte, irq, fault>>

\* snd_emu10k1_midi_input_close() / _output_close(): disable the
\* direction's interrupt, clear the mode bit and the substream; the last
\* closer resets the MPU.  The closed substream's buffer goes with it.
MidiClose(d) ==
    /\ core[d] = "open"
    /\ inte' = inte \ {d}
    /\ mode' = mode \ {d}
    /\ sub' = [sub EXCEPT ![d] = FALSE]
    /\ uart' = IF Other(d) \in mode THEN uart ELSE "intelligent"
    /\ core' = [core EXCEPT ![d] = "closed"]
    /\ pending' = IF d = "out" THEN 0 ELSE pending
    /\ UNCHANGED <<irq, fault>>

\* snd_emu10k1_midi_input_trigger(): enable or disable rx_enable
MidiInputTrigger(up) ==
    /\ core["in"] = "open"
    /\ inte' = IF up THEN inte \cup {"in"} ELSE inte \ {"in"}
    /\ UNCHANGED <<core, mode, sub, uart, pending, irq, fault>>

\* snd_emu10k1_midi_output_trigger(substream, 0), which the rawmidi core
\* calls when it drops the output buffer
MidiOutputTriggerDown ==
    /\ core["out"] = "open"
    /\ inte' = inte \ {"out"}
    /\ pending' = 0
    /\ UNCHANGED <<core, mode, sub, uart, irq, fault>>

\* an output trigger that enables the tx interrupt only after a full burst,
\* not when it stops on a busy UART
MidiOutputWriteNoEnableOnBusy ==
    /\ core["out"] = "open" /\ pending < MaxPending
    /\ \E r \in 0..TxBurst :
         LET n == pending + 1
             sent == IF r < n THEN r ELSE n
         IN  /\ pending' = n - sent
             /\ inte' = IF r = TxBurst /\ n >= TxBurst THEN inte \cup {"out"} ELSE inte
    /\ UNCHANGED <<core, mode, sub, uart, irq, fault>>

(* A write to the output substream queues a byte and calls               *)
(* snd_emu10k1_midi_output_trigger(substream, 1).  The UART is ready for  *)
(* the first r of its TxBurst iterations.  A ready iteration sends a byte *)
(* or, on an empty buffer, returns at once; after a busy iteration, or    *)
(* TxBurst bytes, it enables tx_enable for the interrupt to go on.        *)
MidiOutputWrite ==
    /\ core["out"] = "open" /\ pending < MaxPending
    /\ \E r \in 0..TxBurst :
         LET n == pending + 1
             sent == IF r < n THEN r ELSE n
         IN  /\ pending' = n - sent
             /\ inte' = IF r >= n + 1 THEN inte ELSE inte \cup {"out"}
    /\ UNCHANGED <<core, mode, sub, uart, irq, fault>>

-----------------------------------------------------------------------------
(* do_emu10k1_midi_interrupt(), step by step.                              *)

\* entry: an enabled source raised the interrupt; under input_lock the
\* status says whether a byte was received (read from the data port)
IrqEntry ==
    /\ irq.pc = "idle" /\ inte # {}
    /\ \E rx \in BOOLEAN : irq' = [pc |-> IF rx THEN "rx_test" ELSE "tx_test", v |-> FALSE]
    /\ UNCHANGED <<core, mode, sub, uart, inte, pending, fault>>

\* after spin_unlock(input_lock): if (midi->substream_input)
IrqRxTest ==
    /\ irq.pc = "rx_test"
    /\ irq' = IF sub["in"] THEN [pc |-> "rx_use", v |-> TRUE] ELSE [pc |-> "tx_test", v |-> FALSE]
    /\ UNCHANGED <<core, mode, sub, uart, inte, pending, fault>>

\* what dereferencing pointer p of direction d does; the pointer passed to
\* snd_rawmidi_receive() / _transmit() is the value tested or a fresh load
\* of the field (no barrier or volatile), so the actions take either
Deref(p, d) ==
    fault' = CASE ~p                 -> "null"
               [] core[d] # "open"   -> "closed"
               [] OTHER              -> fault

\* snd_rawmidi_receive(midi->substream_input, &byte, 1)
IrqRxUse ==
    /\ irq.pc = "rx_use"
    /\ \E p \in BOOLEAN : /\ p \in {irq.v, sub["in"]}
                          /\ Deref(p, "in")
    /\ irq' = [pc |-> "tx_test", v |-> FALSE]
    /\ UNCHANGED <<core, mode, sub, uart, inte, pending>>

\* a tx interrupt whose else branch also disarms tx_enable on a busy UART
IrqTxTestDisableWhenBusy ==
    /\ irq.pc = "tx_test"
    /\ \E ready \in BOOLEAN :
         \/ ~ready /\ irq' = [pc |-> "idle", v |-> FALSE] /\ inte' = inte \ {"out"}
         \/ ready /\ sub["out"] /\ irq' = [pc |-> "tx_use", v |-> TRUE] /\ UNCHANGED inte
         \/ ready /\ ~sub["out"] /\ irq' = [pc |-> "idle", v |-> FALSE]
                  /\ inte' = inte \ {"out"}
    /\ UNCHANGED <<core, mode, sub, uart, pending, fault>>

\* under output_lock: when the UART can take a byte and a tx interrupt is
\* latched, test midi->substream_output; without one, disable tx_enable
IrqTxTest ==
    /\ irq.pc = "tx_test"
    /\ \E ready \in BOOLEAN :
         \/ ~ready /\ irq' = [pc |-> "idle", v |-> FALSE] /\ UNCHANGED inte
         \/ ready /\ sub["out"] /\ irq' = [pc |-> "tx_use", v |-> TRUE] /\ UNCHANGED inte
         \/ ready /\ ~sub["out"] /\ irq' = [pc |-> "idle", v |-> FALSE]
                  /\ inte' = inte \ {"out"}
    /\ UNCHANGED <<core, mode, sub, uart, pending, fault>>

\* a tx interrupt that sends without checking what snd_rawmidi_transmit()
\* returned
IrqTxUseIgnoringResult ==
    /\ irq.pc = "tx_use"
    /\ \E p \in BOOLEAN : /\ p \in {irq.v, sub["out"]}
                          /\ Deref(p, "out")
    /\ pending' = pending - 1
    /\ irq' = [pc |-> "idle", v |-> FALSE]
    /\ UNCHANGED <<core, mode, sub, uart, inte>>

\* snd_rawmidi_transmit(midi->substream_output, &byte, 1) == 1 ? outb :
\* disable tx_enable
IrqTxUse ==
    /\ irq.pc = "tx_use"
    /\ \E p \in BOOLEAN : /\ p \in {irq.v, sub["out"]}
                          /\ Deref(p, "out")
    /\ IF pending > 0
         THEN pending' = pending - 1 /\ UNCHANGED inte
         ELSE inte' = inte \ {"out"} /\ UNCHANGED pending
    /\ irq' = [pc |-> "idle", v |-> FALSE]
    /\ UNCHANGED <<core, mode, sub, uart>>

-----------------------------------------------------------------------------
Next ==
    \/ \E d \in Dirs : MidiOpen(d) \/ MidiClose(d)
    \/ \E up \in BOOLEAN : MidiInputTrigger(up)
    \/ MidiOutputTriggerDown
    \/ MidiOutputWrite
    \/ IrqEntry \/ IrqRxTest \/ IrqRxUse \/ IrqTxTest \/ IrqTxUse

Spec == Init /\ [][Next]_vars

(* Fairness: a started interrupt handler runs to its end; the chip keeps   *)
(* raising the interrupt while a source is enabled; and the UART's        *)
(* transmitter, though busy at times, is not busy forever.                 *)
FairSpec ==
    /\ Spec
    /\ WF_vars(IrqEntry) /\ WF_vars(IrqRxTest) /\ WF_vars(IrqRxUse)
    /\ WF_vars(IrqTxTest) /\ WF_vars(IrqTxUse)
    /\ SF_vars(IrqTxTest /\ irq'.pc = "tx_use")

-----------------------------------------------------------------------------
TypeOK ==
    /\ core \in [Dirs -> {"closed", "open"}]
    /\ mode \subseteq Dirs
    /\ sub \in [Dirs -> BOOLEAN]
    /\ uart \in {"intelligent", "uart"}
    /\ inte \subseteq Dirs
    /\ pending \in 0..MaxPending
    /\ irq \in [pc : IrqPcs, v : BOOLEAN]
    /\ fault \in Faults

(* The MPU-401 is in UART mode whenever a substream is open: only the    *)
(* first open sends reset + UART-mode and only the last close resets, as   *)
(* the open and close callbacks decide from the other direction's         *)
(* midi_mode bit.                                                          *)
UartModeWhileOpen ==
    (\E d \in Dirs : core[d] = "open") => uart = "uart"

(* A MIDI interrupt source is enabled only for a substream that is open:   *)
(* the close callbacks disable their own source, the trigger callbacks    *)
(* run only on open substreams, and the interrupt only disables.           *)
EnabledOnlyWhileOpen ==
    \A d \in inte : core[d] = "open"

(* Bytes queued on an open output substream are eventually transmitted:   *)
(* the trigger either sends them or leaves tx_enable set, and the          *)
(* interrupt then reaches snd_rawmidi_transmit() with the UART ready.      *)
TxDrains ==
    (core["out"] = "open" /\ pending > 0)
        ~> (pending = 0 \/ core["out"] = "closed" \/ (irq.pc = "tx_use" /\ irq.v))

(* EmuMidi implements MidiPort: with the substreams the core has open,   *)
(* the UART mode, the INTE bits and the queued bytes as the abstract state, *)
(* every step of the callbacks and of the interrupt handler is a step of  *)
(* the port or leaves that state alone.  It says that the UART mode and    *)
(* the interrupt sources follow the opens and closes, that bytes leave the *)
(* queue only through an armed transmitter or a drop, that a write leaving *)
(* bytes queued arms the transmitter, and, under FairSpec, that an armed   *)
(* transmitter with bytes queued sends one.                                *)
MP == INSTANCE MidiPort WITH
        open <- {d \in Dirs : core[d] = "open"},
        uart <- uart, enabled <- inte, queue <- pending
MidiPortRefined == MP!ASpec

(* The interrupt hands snd_rawmidi_receive() and snd_rawmidi_transmit()    *)
(* only a substream that is open: the pointer it tested is never NULL or   *)
(* closed by the time it is used.                                         *)
NoStaleSubstream ==
    fault = "none"
=============================================================================
