------------------------------ MODULE Stac92xx ------------------------------
(***************************************************************************)
(* The SigmaTel STAC92xx codec driver (patch_sigmatel.c): its own         *)
(* auto-configuration of the DAC table and mixer controls from the parsed *)
(* pin configuration, and its runtime: the codec init, headphone detection *)
(* through unsolicited events, resume, and the "Line In / Mic as Output", *)
(* "Swap Center/LFE" and "Analog Loopback" switches.                      *)
(*                                                                         *)
(* A codec is a record: dacs (the analog DAC widgets), conn (each widget's *)
(* connection list), unsol (pins with AC_WCAP_UNSOL_CAP), lrswap (DACs     *)
(* with AC_WCAP_LR_SWAP), vref (pins whose stac92xx_get_vref() is not 0),  *)
(* line_outs, hp_pins, speaker_pins and input_pins (indexed by AUTO_PIN_*  *)
(* type + 1, 0 for none) as snd_hda_parse_pin_def_config() left them,     *)
(* mux_nids, gpio_mute and aloopback (the board's mixer has the Analog     *)
(* Loopback switch).  A pin control is the set of its enable bits.        *)
(***************************************************************************)
EXTENDS Integers, Sequences, FiniteSets
LOCAL INSTANCE SequencesExt
LOCAL INSTANCE FiniteSetsExt
LOCAL INSTANCE Functions

CONSTANTS
    Codecs,     \* the codecs a probe may find
    BiosPinctl  \* the pin controls the BIOS may leave at probe

\* AUTO_PIN_MIC, AUTO_PIN_FRONT_MIC, AUTO_PIN_LINE as indexes of input_pins
AutoPinMic == 1
AutoPinFrontMic == 2
AutoPinLine == 3

PinBits == {"in", "out", "hp", "vref"}
NoFn == [x \in {} |-> 0]

(***************************************************************************)
(* The parse.                                                              *)
(***************************************************************************)

\* stac92xx_add_dyn_out_pins(): with one to three line-outs, the line-in
\* and the mic jack become extra outputs when the codec has DACs to spare
AddDynOutPins(c) ==
    LET numDacs == Cardinality(c.dacs)
        n == Len(c.line_outs)
        line == c.input_pins[AutoPinLine]
        mic == c.input_pins[AutoPinMic]
        addLine == line # 0 /\ n \in 1..3 /\ numDacs > n
        addMic == mic # 0 /\ n \in 1..2 /\ numDacs > n + 1
    IN  [line_outs   |-> c.line_outs \o (IF addLine THEN <<line>> ELSE <<>>)
                                     \o (IF addMic THEN <<mic>> ELSE <<>>),
         line_switch |-> addLine,
         mic_switch  |-> addMic]

\* is_in_dac_nids()
IsInDacNids(s, nid) == Contains(s.dac_nids, nid)

\* stac92xx_auto_fill_dac_nids(): each line-out pin takes the first DAC of
\* its connections that no earlier pin took, and selects it when it has a
\* choice; a pin without one cuts line_outs back to the pins served, or
\* fails the parse when it is the first
RECURSIVE FillDacNids(_, _, _)
FillDacNids(c, s, i) ==
    IF i > Len(s.line_outs) THEN s
    ELSE LET pin == s.line_outs[i]
             free == {j \in DOMAIN c.conn[pin] :
                        c.conn[pin][j] \in c.dacs /\ ~IsInDacNids(s, c.conn[pin][j])}
         IN  IF free = {}
             THEN IF s.dac_nids # <<>>
                  THEN [s EXCEPT !.line_outs = SubSeq(@, 1, Len(s.dac_nids))]
                  ELSE [s EXCEPT !.err = TRUE]
             ELSE FillDacNids(c,
                    [s EXCEPT !.dac_nids = Append(@, c.conn[pin][Min(free)]),
                              !.conn_sel = IF Len(c.conn[pin]) > 1
                                           THEN (pin :> Min(free) - 1) @@ @ ELSE @],
                    i + 1)

\* stac92xx_auto_create_multi_out_ctls(): the controls with a put handler
\* of this driver: Swap Center/LFE on the third DAC if it can swap, and
\* the two "as Output" switches
MultiOutCtls(c, s) ==
    (IF Len(s.line_outs) >= 3 /\ Len(s.dac_nids) >= 3 /\ s.dac_nids[3] \in c.lrswap
     THEN {"clfe"} ELSE {})
    \cup (IF s.line_switch THEN {"line_io"} ELSE {})
    \cup (IF s.mic_switch THEN {"mic_io"} ELSE {})

\* (mutant) check_in_dac_nids() without the hp_nid test
CheckInDacNidsNoHp(s, nid) == IsInDacNids(s, nid)

\* check_in_dac_nids()
CheckInDacNids(s, nid) == IsInDacNids(s, nid) \/ s.hp_nid = nid

\* add_spec_dacs(): the first extra DAC is the headphone's, the others
\* extend dac_nids[5] while there is room
AddSpecDacs(s, nid) ==
    IF s.hp_nid = 0 THEN [s EXCEPT !.hp_nid = nid]
    ELSE IF Len(s.dac_nids) > 4 THEN s
    ELSE [s EXCEPT !.dac_nids = Append(@, nid)]

\* AC_VERB_GET_CONNECT_LIST & 0xff: the first entry of the pin's list
FirstConn(c, pin) == IF c.conn[pin] = <<>> THEN 0 ELSE c.conn[pin][1]

\* stac92xx_auto_create_hp_ctls(): hp_detect when an HP pin can report
\* jacks; each HP, speaker and line-out pin's first connection is added as
\* a DAC unless known; n_extra counts the DACs that get a speaker label
HpCtls(c, s) ==
    LET add(x, pin) == IF FirstConn(c, pin) = 0 \/ CheckInDacNids(x, FirstConn(c, pin))
                       THEN x ELSE AddSpecDacs(x, FirstConn(c, pin))
        s1 == [s EXCEPT !.hp_detect = \E i \in DOMAIN c.hp_pins : c.hp_pins[i] \in c.unsol]
        s2 == FoldLeft(add, s1, c.hp_pins \o c.speaker_pins \o s.line_outs)
    IN  [s2 EXCEPT !.n_extra = Len(s2.dac_nids) - Len(s.dac_nids)]

\* the index of an input pin in the first mux that connects it, or -1
MuxIndex(c, pin) ==
    LET js == {j \in DOMAIN c.mux_nids : Contains(c.conn[c.mux_nids[j]], pin)}
        m == c.conn[c.mux_nids[Min(js)]]
    IN  IF js = {} THEN -1 ELSE Min({k \in DOMAIN m : m[k] = pin}) - 1

\* stac92xx_auto_create_analog_input_ctls(): an imux item per input pin a
\* mux connects, and every mux set to the first item's index
AnalogInputCtls(c, s) ==
    LET imux == FoldLeft(LAMBDA acc, pin :
                           IF pin = 0 \/ MuxIndex(c, pin) < 0 THEN acc
                           ELSE Append(acc, MuxIndex(c, pin)),
                         <<>>, c.input_pins)
    IN  [s EXCEPT !.imux = imux,
                  !.mux_sel = IF imux = <<>> THEN NoFn
                              ELSE [m \in ToSet(c.mux_nids) |-> imux[1]]]

\* stac92xx_parse_auto_config(), for a codec whose pin configuration has a
\* line-out and no preset DAC table, digital pins or digital mics
ParseAutoConfig(c) ==
    LET d == AddDynOutPins(c)
        s0 == [line_outs |-> d.line_outs, line_switch |-> d.line_switch,
               mic_switch |-> d.mic_switch, dac_nids |-> <<>>, conn_sel |-> NoFn,
               hp_nid |-> 0, hp_detect |-> FALSE, n_extra |-> 0, ctls |-> {},
               imux |-> <<>>, mux_sel |-> NoFn, max_channels |-> 0, err |-> FALSE]
        s1 == FillDacNids(c, s0, 1)
        s2 == HpCtls(c, [s1 EXCEPT !.ctls = MultiOutCtls(c, s1)])
        s3 == AnalogInputCtls(c, s2)
    IN  IF s1.err THEN s1
        ELSE [s3 EXCEPT !.max_channels = 2 * Len(s3.dac_nids)]

(***************************************************************************)
(* The runtime.  The pin controls are written through the codec's command  *)
(* cache, which resume replays, so one map stands for both.  Unsolicited   *)
(* events are queued per pin and run by the event work one at a time.     *)
(***************************************************************************)
VARIABLES
    codec,      \* the codec the probe found
    spec,       \* what stac92xx_parse_auto_config() built
    pinctl,     \* each pin's widget control bits
    jack,       \* the presence sense of each HP pin, set by the user
    pending,    \* HP pins with an unsolicited event not handled yet
    unsol_en,   \* pins whose unsolicited responses are enabled
    io_switch,  \* spec->io_switch[0..1]: line-in and mic as output
    clfe_swap,  \* spec->clfe_swap, mirrored in the third DAC's EAPD
    aloopback,  \* spec->aloopback, mirrored in the DAC mode bit 0x40
    power,      \* snd_hda_power_up() references the loopback holds
    gpio,       \* GPIO lines driven high (unmuted)
    phase       \* "probe" before stac92xx_init(), then "run"/"suspended"

vars == <<codec, spec, pinctl, jack, pending, unsol_en, io_switch, clfe_swap,
          aloopback, power, gpio, phase>>

Pins(c) == (ToSet(c.line_outs) \cup ToSet(c.hp_pins) \cup ToSet(c.speaker_pins)
            \cup ToSet(c.input_pins)) \ {0}
LineIn == codec.input_pins[AutoPinLine]
MicPin == codec.input_pins[AutoPinMic]
\* the switchable jacks stac92xx_set_pinctl() leaves alone while inputs
SharedJack(p) == (p = LineIn /\ spec.line_switch) \/ (p = MicPin /\ spec.mic_switch)
\* the controls with a put handler of this driver
Controls == spec.ctls \cup (IF codec.aloopback THEN {"aloopback"} ELSE {})

\* stac92xx_get_vref(), as "vref" when the pin has a VREF capability
GetVref(p) == IF p \in codec.vref THEN {"vref"} ELSE {}

\* (mutant) stac92xx_set_pinctl() without its shared-input test
SetPinctlNoGuard(p, v, flag) ==
    (IF flag \cap {"in", "out"} # {} THEN v \ {"in", "out"} ELSE v) \cup flag

\* stac92xx_set_pinctl(): read the pin control; a switchable jack that is
\* an input is left alone; direction bits are cleared before a direction
\* is set
SetPinctl(p, v, flag) ==
    IF "in" \in v /\ SharedJack(p) THEN v
    ELSE (IF flag \cap {"in", "out"} # {} THEN v \ {"in", "out"} ELSE v) \cup flag

\* stac92xx_reset_pinctl()
ResetPinctl(v, flag) == v \ flag

\* get_pin_presence() over cfg->hp_pins[], stopping at the first present
HpPresent == \E i \in DOMAIN codec.hp_pins : jack[codec.hp_pins[i]]

\* the pins stac92xx_hp_detect() switches: line-outs and speakers
AutoMuted == ToSet(spec.line_outs) \cup ToSet(codec.speaker_pins)

\* (mutant) stac92xx_hp_detect() that senses only the first HP pin
HpDetectFirstOnly(pc) ==
    [p \in DOMAIN pc |->
        IF p \notin AutoMuted THEN pc[p]
        ELSE IF jack[codec.hp_pins[1]] THEN ResetPinctl(pc[p], {"out"})
        ELSE SetPinctl(p, pc[p], {"out"})]

\* stac92xx_hp_detect(): with a headphone present the line-outs and
\* speakers lose OUT_EN, else they get it back
HpDetect(pc) ==
    [p \in DOMAIN pc |->
        IF p \notin AutoMuted THEN pc[p]
        ELSE IF HpPresent THEN ResetPinctl(pc[p], {"out"})
        ELSE SetPinctl(p, pc[p], {"out"})]

\* stac92xx_auto_init_multi_out()
InitMultiOut(pc) == [p \in DOMAIN pc |-> IF p \in ToSet(spec.line_outs) THEN {"out"} ELSE pc[p]]

\* stac92xx_auto_init_hp_out()
InitHpOut(pc) ==
    [p \in DOMAIN pc |-> IF p \in ToSet(codec.hp_pins) THEN {"out", "hp"}
                         ELSE IF p \in ToSet(codec.speaker_pins) THEN {"out"}
                         ELSE pc[p]]

\* the input pins loop of stac92xx_init(): IN_EN, with VREF on the mics
InitInputs(pc) ==
    [p \in DOMAIN pc |->
        IF \E i \in DOMAIN codec.input_pins : codec.input_pins[i] = p
        THEN {"in"} \cup (IF \E i \in {AutoPinMic, AutoPinFrontMic} : codec.input_pins[i] = p
                          THEN GetVref(p) ELSE {})
        ELSE pc[p]]

\* stac922x_gpio_mute(codec, 0, 0) and (codec, 1, 0)
GpioUnmute == IF codec.gpio_mute THEN gpio \cup {0, 1} ELSE gpio

\* enable_pin_detect() on each HP pin
DetectEnabled == {p \in ToSet(codec.hp_pins) : p \in codec.unsol}

\* stac92xx_init(), run once when the codec is built: with hp_detect the
\* first line-out is enabled and a fake HP event sets up the others
CodecInit ==
    /\ phase = "probe"
    /\ pinctl' = InitInputs(
          IF spec.hp_detect
          THEN HpDetect(InitHpOut([pinctl EXCEPT ![spec.line_outs[1]] = {"out"}]))
          ELSE InitHpOut(InitMultiOut(pinctl)))
    /\ unsol_en' = IF spec.hp_detect THEN DetectEnabled ELSE {}
    /\ gpio' = GpioUnmute
    /\ phase' = "run"
    /\ UNCHANGED <<codec, spec, jack, pending, io_switch, clfe_swap, aloopback, power>>

\* a headphone is plugged or pulled; the codec reports it if enabled and
\* powered
JackChange(p) ==
    /\ jack' = [jack EXCEPT ![p] = ~@]
    /\ pending' = IF phase = "run" /\ p \in unsol_en THEN pending \cup {p} ELSE pending
    /\ UNCHANGED <<codec, spec, pinctl, unsol_en, io_switch, clfe_swap, aloopback,
                   power, gpio, phase>>

\* stac92xx_unsol_event() for STAC_HP_EVENT
UnsolEvent(p) ==
    /\ phase = "run"
    /\ p \in pending
    /\ pending' = pending \ {p}
    /\ pinctl' = HpDetect(pinctl)
    /\ UNCHANGED <<codec, spec, jack, unsol_en, io_switch, clfe_swap, aloopback,
                   power, gpio, phase>>

\* system suspend: the codec is powered off and reports nothing
Suspend ==
    /\ phase = "run"
    /\ phase' = "suspended"
    /\ pending' = {}
    /\ UNCHANGED <<codec, spec, pinctl, jack, unsol_en, io_switch, clfe_swap,
                   aloopback, power, gpio>>

\* (mutant) stac92xx_resume() without the fake HP event
ResumeNoHpEvent ==
    /\ phase = "suspended"
    /\ phase' = "run"
    /\ gpio' = GpioUnmute
    /\ UNCHANGED <<codec, spec, pinctl, jack, pending, unsol_en, io_switch, clfe_swap,
                   aloopback, power>>

\* stac92xx_resume(): init verbs, GPIO unmute, the amp and command caches
\* replayed, then a fake HP event for the jacks that changed meanwhile
Resume ==
    /\ phase = "suspended"
    /\ phase' = "run"
    /\ gpio' = GpioUnmute
    /\ pinctl' = IF spec.hp_detect THEN HpDetect(pinctl) ELSE pinctl
    /\ UNCHANGED <<codec, spec, jack, pending, unsol_en, io_switch, clfe_swap,
                   aloopback, power>>

\* stac92xx_io_switch_put(): "Line In as Output" (idx 0) or "Mic as
\* Output" (idx 1) sets the jack to OUT_EN, or back to IN_EN with the
\* mic's VREF
IoSwitchPut(idx, val) ==
    LET pin == IF idx = 0 THEN LineIn ELSE MicPin IN
    /\ phase = "run"
    /\ (IF idx = 0 THEN "line_io" ELSE "mic_io") \in Controls
    /\ io_switch' = [io_switch EXCEPT ![idx] = val]
    /\ pinctl' = [pinctl EXCEPT ![pin] =
                    IF val # 0 THEN {"out"}
                    ELSE {"in"} \cup (IF idx # 0 THEN GetVref(pin) ELSE {})]
    /\ UNCHANGED <<codec, spec, jack, pending, unsol_en, clfe_swap, aloopback,
                   power, gpio, phase>>

\* stac92xx_clfe_switch_put(): a change of the swap is written to the
\* third DAC's EAPD
ClfeSwitchPut(val) ==
    /\ phase = "run"
    /\ "clfe" \in Controls
    /\ clfe_swap # val
    /\ clfe_swap' = val
    /\ UNCHANGED <<codec, spec, pinctl, jack, pending, unsol_en, io_switch,
                   aloopback, power, gpio, phase>>

\* (mutant) stac92xx_aloopback_put() without its no-change return
AloopbackPutNoCheck(val) ==
    /\ phase = "run"
    /\ "aloopback" \in Controls
    /\ aloopback' = val
    /\ power' = IF val # 0 THEN power + 1 ELSE power - 1
    /\ UNCHANGED <<codec, spec, pinctl, jack, pending, unsol_en, io_switch,
                   clfe_swap, gpio, phase>>

\* stac92xx_aloopback_put(): a change sets or clears the loopback bit of
\* the DAC mode and takes or drops a power reference
AloopbackPut(val) ==
    /\ phase = "run"
    /\ "aloopback" \in Controls
    /\ aloopback # val
    /\ aloopback' = val
    /\ power' = IF val # 0 THEN power + 1 ELSE power - 1
    /\ UNCHANGED <<codec, spec, pinctl, jack, pending, unsol_en, io_switch,
                   clfe_swap, gpio, phase>>

\* the probe: the pin controls are what the BIOS left
Init ==
    /\ codec \in Codecs
    /\ spec = ParseAutoConfig(codec)
    /\ pinctl \in [Pins(codec) -> BiosPinctl]
    /\ jack \in [ToSet(codec.hp_pins) -> BOOLEAN]
    /\ pending = {}
    /\ unsol_en = {}
    /\ io_switch = [i \in 0..1 |-> 0]
    /\ clfe_swap = 0
    /\ aloopback = 0
    /\ power = 0
    /\ gpio = {}
    /\ phase = "probe"

\* the user's control writes carry the values the controls' info declares
Next ==
    \/ CodecInit
    \/ \E p \in ToSet(codec.hp_pins) : JackChange(p)
    \/ \E p \in pending : UnsolEvent(p)
    \/ Suspend
    \/ Resume
    \/ \E idx \in 0..1, val \in 0..1 : IoSwitchPut(idx, val)
    \/ \E val \in 0..1 : ClfeSwitchPut(val)
    \/ \E val \in 0..1 : AloopbackPut(val)

\* the unsolicited-event work handles every queued event
Fairness == \A p \in UNION {ToSet(c.hp_pins) : c \in Codecs} : WF_vars(UnsolEvent(p))

Spec == Init /\ [][Next]_vars /\ Fairness

-----------------------------------------------------------------------------
TypeOK ==
    /\ codec \in Codecs
    /\ pinctl \in [Pins(codec) -> SUBSET PinBits]
    /\ jack \in [ToSet(codec.hp_pins) -> BOOLEAN]
    /\ pending \subseteq unsol_en
    /\ unsol_en \subseteq codec.unsol
    /\ io_switch \in [0..1 -> 0..1]
    /\ clfe_swap \in 0..1 /\ aloopback \in 0..1 /\ power \in 0..1
    /\ gpio \subseteq {0, 1}
    /\ phase \in {"probe", "run", "suspended"}

(* The DAC table: stac92xx_auto_fill_dac_nids() gives every line-out pin  *)
(* kept a DAC on its own connection list, and with the speaker/HP DACs    *)
(* stac92xx_auto_create_hp_ctls() adds, no DAC is listed twice and the    *)
(* headphone DAC is not also a line-out or speaker DAC (is_in_dac_nids()  *)
(* and check_in_dac_nids() across the two passes).                       *)
DacTableSound ==
    /\ IsInjective(spec.dac_nids)
    /\ spec.hp_nid \notin ToSet(spec.dac_nids)
    /\ \A i \in DOMAIN spec.line_outs :
          Contains(codec.conn[spec.line_outs[i]], spec.dac_nids[i])

(* A jack the line-in or mic "as Output" switch controls is an input      *)
(* exactly while its switch is off, whatever headphone events, resumes    *)
(* and switch writes came in between: stac92xx_hp_detect() must not turn  *)
(* such an input into an output (the shared-input test in                 *)
(* stac92xx_set_pinctl()) and init must leave the switches' state true.   *)
SharedJackFollowsSwitch ==
    phase # "probe" =>
        \A idx \in 0..1 :
            LET pin == IF idx = 0 THEN LineIn ELSE MicPin
                sw == IF idx = 0 THEN spec.line_switch ELSE spec.mic_switch
            IN  sw => IF io_switch[idx] = 0
                      THEN "in" \in pinctl[pin] /\ "out" \notin pinctl[pin]
                      ELSE "in" \notin pinctl[pin]

(* HP auto-mute: with the codec running and no HP event pending, each     *)
(* line-out and speaker pin (the switchable jacks apart) drives its output *)
(* exactly when no headphone is plugged, or always without hp_detect:     *)
(* init's fake event, the events of plugs and pulls, and resume's fake    *)
(* event after jacks changed in suspend keep the pins in step.           *)
QuiescentOutputsFollowHp ==
    phase = "run" /\ pending = {} =>
        \A p \in AutoMuted :
            ~SharedJack(p) => ("out" \in pinctl[p] <=> ~(spec.hp_detect /\ HpPresent))

(* Plugging a headphone while the codec runs eventually silences the      *)
(* line-outs and speakers (the switchable jacks apart), unless it is      *)
(* pulled or the system suspends first.                                  *)
HpPlugMutesOutputs ==
    (phase = "run" /\ spec.hp_detect /\ HpPresent)
        ~> (phase # "run" \/ ~HpPresent
            \/ \A p \in AutoMuted : ~SharedJack(p) => "out" \notin pinctl[p])
=============================================================================
