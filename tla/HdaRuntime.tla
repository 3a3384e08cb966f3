----------------------------- MODULE HdaRuntime -----------------------------
(***************************************************************************)
(* The Path Activation Engine and the runtime handlers of the HD-Audio     *)
(* generic parser (hda_generic.c): snd_hda_activate_path(), the codec      *)
(* init, the "Loopback Mixing", "Input Source" and "Auto-Mute Mode"        *)
(* controls, and the jack callbacks for HP auto-mute, line-out auto-mute   *)
(* and mic auto-switch, over the paths the parser built.                   *)
(*                                                                         *)
(* The codec-side state is one record, so that a handler that calls other  *)
(* handlers (init calls the auto-mute and auto-switch helpers, the         *)
(* auto-switch calls mux_select()) is a composition of operators on it:    *)
(*   paths   spec->paths (only the active flags change at run time)        *)
(*   amp     the amp cache, "none" until snd_hda_codec_amp_init() ran      *)
(*   sel     the connection select of every selector                       *)
(*   pinctl  the pin widget control of every pin                           *)
(*   cur_mux, aamix_mode, automute_speaker, automute_lo,                   *)
(*   hp_jack_present, line_jack_present: the hda_gen_spec fields.          *)
(***************************************************************************)
EXTENDS HdaPath
LOCAL INSTANCE SequencesExt

CONSTANTS
    MixerNid,       \* spec->mixer_nid
    Paths0,         \* spec->paths as the parser left them
    OutPaths,       \* spec->out_paths[]: handles, one per line-out pin
    HpPaths,        \* spec->hp_paths[]
    SpkPaths,       \* spec->speaker_paths[]
    AamixOutPaths,  \* spec->aamix_out_paths[0..2]
    InputPaths,     \* spec->input_paths[imux][0], one ADC
    LoopbackPaths,  \* spec->loopback_paths[], one per input pin
    LineOutType,    \* cfg->line_out_type: "line", "speaker" or "hp"
    LineOutPins,    \* cfg->line_out_pins[]
    HpPinsCfg,      \* cfg->hp_pins[] as parsed
    SpkPinsCfg,     \* cfg->speaker_pins[] as parsed
    InputPins,      \* cfg->inputs[].pin
    JackPins,       \* the pins is_jack_detectable() accepts
    AutoMicPins,    \* check_auto_mic_availability() accepts the input pins
    AmEntry         \* spec->am_entry[]: [pin, idx], sorted by attribute

AmpStates == {"none", "off", "on"}
PinCtls == {"none", "off", "out", "hp", "in"}
Pins == {n \in Nodes : WType[n] = "Pin"}
Selectors == {n \in Nodes : Len(Conn[n]) > 1}

\* every amp of the codec: (nid, dir, idx)
AmpKeys ==
    {AmpVal(n, 0, HDA_OUTPUT) : n \in {m \in Nodes : HasOutAmpCap(m)}}
    \cup UNION {{AmpVal(n, k, HDA_INPUT) : k \in 0..(IF Len(Conn[n]) = 0 THEN 0 ELSE Len(Conn[n]) - 1)} :
                n \in {m \in Nodes : HasInAmpCap(m)}}

Elem(s) == {s[k] : k \in DOMAIN s}

\* F applied to the value of e, e evaluated once (the handlers below take
\* the codec state through it so that a composed handler costs no more
\* than its parts)
Eval(e, F(_)) == CHOOSE y \in {F(x) : x \in {e}} : TRUE

(***************************************************************************)
(* check_auto_mute_availability(): the pin arrays after its copies and the *)
(* auto-mute flags it derives                                              *)
(***************************************************************************)
OutTypes == (IF HpPinsCfg # <<>> THEN 1 ELSE 0) + (IF LineOutPins # <<>> THEN 1 ELSE 0)
            + (IF SpkPinsCfg # <<>> THEN 1 ELSE 0)
AutomuteAvail == OutTypes >= 2
\* the copies of the line-outs are made only past the two-types check
SpeakerPins == IF AutomuteAvail /\ SpkPinsCfg = <<>> /\ LineOutType = "speaker"
               THEN LineOutPins ELSE SpkPinsCfg
HpPins == IF AutomuteAvail /\ HpPinsCfg = <<>> /\ LineOutType = "hp"
          THEN LineOutPins ELSE HpPinsCfg
DetectHp == AutomuteAvail /\ \E p \in Elem(HpPins) : p \in JackPins
DetectLo == AutomuteAvail /\ LineOutType = "line" /\ SpeakerPins # <<>>
            /\ \E p \in Elem(LineOutPins) : p \in JackPins
AutomuteLoPossible == AutomuteAvail /\ LineOutType = "line" /\ LineOutPins # <<>> /\ DetectHp
AutomuteSpeakerPossible == AutomuteAvail /\ SpeakerPins # <<>> /\ (DetectHp \/ DetectLo)

\* the pins whose unsolicited events have a callback, and which one
HpEventPins == IF DetectHp THEN Elem(HpPins) \cap JackPins ELSE {}
LoEventPins == IF DetectLo THEN Elem(LineOutPins) \cap JackPins ELSE {}
MicEventPins(c) == IF c.auto_mic THEN {AmEntry[i].pin : i \in 2..Len(AmEntry)} ELSE {}
EventPins(c) == HpEventPins \cup LoEventPins \cup MicEventPins(c)

(***************************************************************************)
(* Path activation                                                         *)
(***************************************************************************)

\* has_amp_in() / has_amp_out(): position k (1-based) of the path
HasAmpIn(p, k) == HasInAmpCap(p.path[k]) /\ ~(WType[p.path[k]] = "Pin" /\ k > 1)
HasAmpOut(p, k) == HasOutAmpCap(p.path[k]) /\ ~(WType[p.path[k]] = "Pin" /\ k = 1)

\* is_active_nid(codec, nid, idx, dir): some active path passes nid, for an
\* input amp at that index
IsActiveNid(paths, nid, idx, dir) ==
    \E i \in DOMAIN paths :
        /\ paths[i].active
        /\ \E k \in DOMAIN paths[i].path :
              /\ paths[i].path[k] = nid
              /\ dir = HDA_OUTPUT \/ paths[i].idx[k] = idx

\* get_amp_val_to_activate(): 0dB and unmuted, or muted and zero gain
AmpValToActivate(enable) == IF enable THEN "on" ELSE "off"

\* (mutant) activate_amp() without its is_ctl_associated() test
ActivateAmpSkipsOnlyActive(paths, nid, dir, idx, enable) ==
    ~enable /\ IsActiveNid(paths, nid, dir, idx)

\* activate_amp(codec, nid, dir, idx, enable): leaves an amp a ctl owns, and
\* on disable one an active path still uses.  The code passes (dir, idx)
\* to is_active_nid(), whose parameters are (idx, dir).
ActivateAmpSkips(paths, nid, dir, idx, enable) ==
    \/ IsCtlAssociated(paths, nid, dir, idx)
    \/ ~enable /\ IsActiveNid(paths, nid, dir, idx)

\* activate_amp_in(): the input amps of position k, the one at the path's
\* index (index 0 of a pin) and, with add_aamix, the ones fed by the mixer
InAmpIdx(p, k) == IF WType[p.path[k]] = "Pin" THEN 0 ELSE p.idx[k]
InAmpNums(p, k) == IF WType[p.path[k]] = "Pin" THEN 1 ELSE Len(Conn[p.path[k]])
InAmpsTouched(p, k, addAamix) ==
    {n \in 0..(InAmpNums(p, k) - 1) :
        n = InAmpIdx(p, k) \/ (addAamix /\ Conn[p.path[k]][n + 1] = MixerNid)}

\* the amps that snd_hda_activate_path() initialises and the ones it sets
InitKeys(p) ==
    UNION {{AmpVal(p.path[k], n, HDA_INPUT) : n \in 0..(InAmpNums(p, k) - 1)} :
           k \in {j \in DOMAIN p.path : HasAmpIn(p, j)}}
    \cup {AmpVal(p.path[k], 0, HDA_OUTPUT) : k \in {j \in DOMAIN p.path : HasAmpOut(p, j)}}
SetKeys(paths, p, enable, addAamix) ==
    {a \in UNION {{AmpVal(p.path[k], n, HDA_INPUT) : n \in InAmpsTouched(p, k, addAamix)} :
                  k \in {j \in DOMAIN p.path :
                           HasAmpIn(p, j) /\
                           ~IsCtlAssociated(paths, p.path[j], HDA_INPUT, InAmpIdx(p, j))}}
          \cup {AmpVal(p.path[k], 0, HDA_OUTPUT) : k \in {j \in DOMAIN p.path : HasAmpOut(p, j)}} :
        ~ActivateAmpSkips(paths, a.nid, a.dir, a.idx, enable)}

\* (mutant) the connect-select write dropped from snd_hda_activate_path()
ActivatePathNoSelect(c0, i, enable, addAamix) ==
    Eval(c0, LAMBDA c :
        LET ps == IF enable THEN c.paths ELSE [c.paths EXCEPT ![i].active = FALSE]
            p == ps[i]
        IN  [c EXCEPT
               !.paths = IF enable THEN [ps EXCEPT ![i].active = TRUE] ELSE ps,
               !.amp = [a \in AmpKeys |->
                          IF a \in SetKeys(ps, p, enable, addAamix) THEN AmpValToActivate(enable)
                          ELSE IF a \in InitKeys(p) /\ c.amp[a] = "none" THEN "off"
                          ELSE c.amp[a]]])

(***************************************************************************)
(* snd_hda_activate_path(codec, path, enable, add_aamix): clear the active *)
(* flag first on disable; from the pin end write the connect-selects of    *)
(* the path (on enable), init then set its amps; set the flag last on      *)
(* enable.                                                                 *)
(***************************************************************************)
ActivatePath(c0, i, enable, addAamix) ==
    Eval(c0, LAMBDA c :
        LET ps == IF enable THEN c.paths ELSE [c.paths EXCEPT ![i].active = FALSE]
            p == ps[i]
            sets == SetKeys(ps, p, enable, addAamix)
            inits == InitKeys(p)
            selw == {k \in DOMAIN p.path : enable /\ p.multi[k]}
        IN  [c EXCEPT
               !.paths = IF enable THEN [ps EXCEPT ![i].active = TRUE] ELSE ps,
               !.amp = [a \in AmpKeys |->
                          IF a \in sets THEN AmpValToActivate(enable)
                          ELSE IF a \in inits /\ c.amp[a] = "none" THEN "off"
                          ELSE c.amp[a]],
               !.sel = [n \in Selectors |->
                          IF \E k \in selw : p.path[k] = n
                          THEN p.idx[CHOOSE k \in selw : p.path[k] = n]
                          ELSE c.sel[n]]])

\* snd_hda_get_path_from_idx(): a handle names a path only inside the store
PathOf(c, h) == IF h \in DOMAIN c.paths THEN h ELSE 0
\* snd_hda_set_pin_ctl_cache()
SetPinCtl(c, pin, v) == [c EXCEPT !.pinctl[pin] = v]

\* set_output_and_unmute(): the pin control of the path's pin, then the
\* path re-activated in its own state with the mixer inputs
SetOutputAndUnmute(c0, pinType, h) ==
    Eval(c0, LAMBDA c :
        IF PathOf(c, h) = 0 \/ c.paths[h].path = <<>> THEN c
        ELSE ActivatePath(SetPinCtl(c, PathTail(c.paths[h]), pinType), h,
                          c.paths[h].active, TRUE))

\* init_multi_out() and init_extra_out()
InitOutputs(c) ==
    LET outType == IF LineOutType = "hp" THEN "hp" ELSE "out"
        c1 == FoldLeft(LAMBDA x, h : SetOutputAndUnmute(x, outType, h), c, OutPaths)
        c2 == IF LineOutType # "hp"
              THEN FoldLeft(LAMBDA x, h : SetOutputAndUnmute(x, "hp", h), c1, HpPaths)
              ELSE c1
    IN  IF LineOutType # "speaker"
        THEN FoldLeft(LAMBDA x, h : SetOutputAndUnmute(x, "out", h), c2, SpkPaths)
        ELSE c2

\* init_analog_input(): every input pin set to input, its loopback path
\* re-activated in its own state
InitAnalogInput(c) ==
    FoldLeft(LAMBDA x, i :
                Eval(SetPinCtl(x, InputPins[i], "in"), LAMBDA x1 :
                    LET h == LoopbackPaths[i]
                    IN  IF MixerNid # 0 /\ PathOf(x1, h) # 0
                        THEN ActivatePath(x1, h, x1.paths[h].active, FALSE)
                        ELSE x1),
             c, [i \in DOMAIN InputPins |-> i])

\* init_input_src(): every input path re-activated in its own state, the
\* one of cur_mux switched on
InitInputSrc(c) ==
    FoldLeft(LAMBDA x0, i :
                Eval(x0, LAMBDA x :
                    LET h == InputPaths[i]
                    IN  IF PathOf(x, h) = 0 THEN x
                        ELSE ActivatePath(x, h, x.paths[h].active \/ i - 1 = x.cur_mux, FALSE)),
             c, [i \in DOMAIN InputPaths |-> i])

\* detect_jacks(): is any of the pins plugged?
DetectJacks(jack, pins) == \E p \in Elem(pins) : p \in JackPins /\ jack[p]

\* do_automute(): the pins' controls set to off, or to HP / OUT
DoAutomute(c0, pins, mute, hpOut) ==
    Eval(c0, LAMBDA c :
        [c EXCEPT !.pinctl = [n \in Pins |->
            IF n \in Elem(pins) THEN (IF mute THEN "off" ELSE IF hpOut THEN "hp" ELSE "out")
            ELSE c.pinctl[n]]])

\* snd_hda_gen_update_outputs(), with master_mute off and no shared mic/HP
UpdateOutputs(c0) ==
    Eval(c0, LAMBDA c :
        LET c1 == DoAutomute(c, HpPins, FALSE, TRUE)
            spkOn == c.automute_speaker /\ (c.hp_jack_present \/ c.line_jack_present)
            c2 == DoAutomute(c1, SpeakerPins, spkOn, FALSE)
            loCopy == LineOutPins # <<>> /\
                      (  (HpPins # <<>> /\ LineOutPins[1] = HpPins[1])
                      \/ (SpeakerPins # <<>> /\ LineOutPins[1] = SpeakerPins[1]))
        IN  IF loCopy THEN c2
            ELSE DoAutomute(c2, LineOutPins, c.automute_lo /\ c.hp_jack_present, FALSE))

\* (mutant) hp_automute() that acts on the cached hp_jack_present
HpAutomuteStale(c0, jack) ==
    Eval(c0, LAMBDA c :
        IF ~DetectHp \/ (~c.automute_speaker /\ ~c.automute_lo) THEN c
        ELSE UpdateOutputs(c))

\* (mutant) hp_automute() whose early return needs both auto-mute flags
HpAutomuteNeedsBoth(c0, jack) ==
    Eval(c0, LAMBDA c :
        LET c1 == [c EXCEPT !.hp_jack_present = DetectJacks(jack, HpPins)]
        IN  IF ~DetectHp \/ ~c.automute_speaker \/ ~c.automute_lo THEN c1
            ELSE UpdateOutputs(c1))

\* snd_hda_gen_hp_automute()
HpAutomute(c0, jack) ==
    Eval(c0, LAMBDA c :
        LET c1 == [c EXCEPT !.hp_jack_present = DetectJacks(jack, HpPins)]
        IN  IF ~DetectHp \/ (~c.automute_speaker /\ ~c.automute_lo) THEN c1
            ELSE UpdateOutputs(c1))

\* snd_hda_gen_line_automute()
LineAutomute(c0, jack) ==
    Eval(c0, LAMBDA c :
        IF LineOutType = "speaker" THEN c
        ELSE IF LineOutPins # <<>> /\ HpPins # <<>> /\ LineOutPins[1] = HpPins[1] THEN c
        ELSE LET c1 == [c EXCEPT !.line_jack_present = DetectJacks(jack, LineOutPins)]
             IN  IF ~c.automute_speaker \/ ~DetectLo THEN c1 ELSE UpdateOutputs(c1))

\* (mutant) mux_select() that leaves the old capture path on
MuxSelectKeepingOld(c0, idx0) ==
    Eval(c0, LAMBDA c :
        LET n == Len(InputPaths)
            idx == IF idx0 >= n THEN n - 1 ELSE idx0
            old == PathOf(c, InputPaths[c.cur_mux + 1])
            c2 == [c EXCEPT !.cur_mux = idx]
            new == PathOf(c2, InputPaths[idx + 1])
        IN  IF n = 0 \/ c.cur_mux = idx THEN c
            ELSE IF old = 0 THEN c
            ELSE IF new = 0 \/ c2.paths[new].active THEN c2
            ELSE ActivatePath(c2, new, TRUE, FALSE))

\* (mutant) mux_select() without the clamp of the item to num_items - 1;
\* get_input_path() then reads past input_paths[] (taken as no path)
MuxSelectUnclamped(c0, idx0) ==
    Eval(c0, LAMBDA c :
        LET n == Len(InputPaths)
            old == PathOf(c, InputPaths[c.cur_mux + 1])
            c1 == IF c.paths[old].active THEN ActivatePath(c, old, FALSE, FALSE) ELSE c
            c2 == [c1 EXCEPT !.cur_mux = idx0]
            new == IF idx0 < n THEN PathOf(c2, InputPaths[idx0 + 1]) ELSE 0
        IN  IF n = 0 \/ c.cur_mux = idx0 THEN c
            ELSE IF old = 0 THEN c
            ELSE IF new = 0 \/ c2.paths[new].active THEN c2
            ELSE ActivatePath(c2, new, TRUE, FALSE))

(***************************************************************************)
(* mux_select(codec, 0, idx): clamp the item; nothing to do if it is the   *)
(* current one; give up if the current item has no path; switch the old   *)
(* path off, record the item, switch its path on unless it is on already. *)
(***************************************************************************)
MuxSelect(c0, idx0) ==
    Eval(c0, LAMBDA c :
        LET n == Len(InputPaths)
            idx == IF idx0 >= n THEN n - 1 ELSE idx0
            old == PathOf(c, InputPaths[c.cur_mux + 1])
            c1 == IF c.paths[old].active THEN ActivatePath(c, old, FALSE, FALSE) ELSE c
            c2 == [c1 EXCEPT !.cur_mux = idx]
            new == PathOf(c2, InputPaths[idx + 1])
        IN  IF n = 0 \/ c.cur_mux = idx THEN c
            ELSE IF old = 0 THEN c
            ELSE IF new = 0 \/ c2.paths[new].active THEN c2
            ELSE ActivatePath(c2, new, TRUE, FALSE))

\* snd_hda_gen_mic_autoswitch(): the plugged entry of the highest
\* attribute, else the first entry
MicAutoswitch(c0, jack) ==
    Eval(c0, LAMBDA c :
        LET plugged == {i \in 2..Len(AmEntry) : AmEntry[i].pin \in JackPins /\ jack[AmEntry[i].pin]}
        IN  IF ~c.auto_mic THEN c
            ELSE IF plugged # {}
                 THEN MuxSelect(c, AmEntry[CHOOSE i \in plugged : \A j \in plugged : j <= i].idx)
            ELSE MuxSelect(c, AmEntry[1].idx))

\* snd_hda_gen_init(): outputs, inputs, capture sources, then the jack
\* helpers run once to pick up the current jack state
GenInit(c, jack) ==
    MicAutoswitch(LineAutomute(HpAutomute(
        InitInputSrc(InitAnalogInput(InitOutputs(c))), jack), jack), jack)

\* update_aamix_paths(): switch from the plain path to the one through the
\* mixer or back, the old one off first
UpdateAamixPaths(c0, doMix, nomix, mix) ==
    Eval(c0, LAMBDA c :
        IF PathOf(c, nomix) = 0 \/ PathOf(c, mix) = 0 THEN c
        ELSE IF doMix THEN ActivatePath(ActivatePath(c, nomix, FALSE, TRUE), mix, TRUE, TRUE)
        ELSE ActivatePath(ActivatePath(c, mix, FALSE, TRUE), nomix, TRUE, TRUE))

First(s) == IF s = <<>> THEN 0 ELSE s[1]

\* loopback_mixing_put()
LoopbackMixingPut(c0, val) ==
    Eval(c0, LAMBDA c :
        IF val = c.aamix_mode THEN c
        ELSE LET c1 == [c EXCEPT !.aamix_mode = val]
                 c2 == UpdateAamixPaths(c1, val = 1, First(OutPaths), AamixOutPaths[1])
                 c3 == UpdateAamixPaths(c2, val = 1, First(HpPaths), AamixOutPaths[2])
             IN  UpdateAamixPaths(c3, val = 1, First(SpkPaths), AamixOutPaths[3]))

\* automute_mode_put(): the new (speaker, line-out) flags, or unchanged on
\* a no-op or an error, then the outputs updated
AutomuteModePut(c0, v) ==
    Eval(c0, LAMBDA c :
        LET sp == c.automute_speaker  lo == c.automute_lo
            Set(s, l) == UpdateOutputs([c EXCEPT !.automute_speaker = s, !.automute_lo = l])
        IN  CASE v = 0 -> IF ~sp /\ ~lo THEN c ELSE Set(FALSE, FALSE)
              [] v = 1 -> IF AutomuteSpeakerPossible
                          THEN IF ~lo /\ sp THEN c ELSE Set(TRUE, FALSE)
                          ELSE IF AutomuteLoPossible
                          THEN IF lo THEN c ELSE Set(sp, TRUE)
                          ELSE c
              [] v = 2 -> IF ~AutomuteLoPossible \/ ~AutomuteSpeakerPossible THEN c
                          ELSE IF sp /\ lo THEN c ELSE Set(TRUE, TRUE)
              [] OTHER -> c)

(***************************************************************************)
(* The capture switch.  create_capture_mixers() makes one "Capture Switch" *)
(* for the ADC: a plain one on the mute ctl all imux items' paths share,   *)
(* or, when they differ, a bound one whose put (cap_put_caller) writes the *)
(* mute ctl of every item's path.  Either way a put sets every mute ctl    *)
(* of the input paths (multi_cap_vol is a codec-driver choice, left out).  *)
(***************************************************************************)
CapSwAmps(c) ==
    {c.paths[InputPaths[i]].ctls.mute :
        i \in {j \in DOMAIN InputPaths : PathOf(c, InputPaths[j]) # 0}} \ {NoCtl}

\* cap_sw_put() / snd_hda_mixer_amp_switch_put(): unmute or mute
CapSwPut(c, on) ==
    [c EXCEPT !.amp = [a \in AmpKeys |->
                         IF a \in CapSwAmps(c) THEN (IF on THEN "on" ELSE "off")
                         ELSE c.amp[a]]]

\* check_auto_mic_availability(): a codec driver may have set
\* suppress_auto_mic; else auto-mic is on when the pins allow it
AutoMicOn(suppress) == AutoMicPins /\ ~suppress

\* the codec state right after parsing, before the first init; with
\* auto-mic the mux starts at its first entry
Codec0(suppress) ==
    LET autoMic == AutoMicOn(suppress) IN
    [paths |-> Paths0,
     amp |-> [a \in AmpKeys |-> "none"],
     sel |-> [n \in Selectors |-> 0],
     pinctl |-> [n \in Pins |-> "none"],
     cur_mux |-> IF autoMic THEN AmEntry[1].idx ELSE 0,
     auto_mic |-> autoMic,
     aamix_mode |-> 0,
     automute_speaker |-> AutomuteSpeakerPossible,
     automute_lo |-> AutomuteLoPossible,
     hp_jack_present |-> FALSE,
     line_jack_present |-> FALSE]
=============================================================================
