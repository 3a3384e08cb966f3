----------------------------- MODULE MCHdaAssign -----------------------------
(***************************************************************************)
(* parse_output_paths() on one codec graph for several BIOS pin           *)
(* configurations.  Converters 2, 3, 4, 5; the analog mixer 11 mixes 2, 3 *)
(* and the mic jack; selector 12 feeds the HP from 2 or 3.  Line-out jacks *)
(* 20 (front: DAC 2 or the mixer), 21 and 22 (hardwired to DAC 2), 23     *)
(* (DAC 3); the HP 24 (selector 12 or the mixer); the speaker 25 (DAC 4); *)
(* the rear mic 26 (DAC 3 or 4) and line-ins 27 (DAC 4) and 28 (DAC 5)    *)
(* are jacks that can also output, so they are multi-io candidates.        *)
(* Capture: ADC 8 takes line-in 28 or the HP jack 24; ADCs 9 and 10 share  *)
(* selector 13 over the mic 26, line-in 27 and the internal mic 29, a      *)
(* fixed pin that makes the lone HP jack a shared mic/HP input.            *)
(***************************************************************************)
EXTENDS HdaAssign

McNodes == {2, 3, 4, 5, 8, 9, 10, 11, 12, 13, 20, 21, 22, 23, 24, 25, 26, 27, 28, 29}
McWType == [n \in McNodes |->
               CASE n \in 2..5    -> "AudOut"
                 [] n \in 8..10   -> "AudIn"
                 [] n = 11        -> "AudMix"
                 [] n \in {12, 13} -> "AudSel"
                 [] OTHER         -> "Pin"]
McConn == [n \in McNodes |->
               CASE n = 8  -> <<28, 24>>
                 [] n = 9  -> <<13>>
                 [] n = 10 -> <<13>>
                 [] n = 11 -> <<2, 3, 26>>
                 [] n = 12 -> <<2, 3>>
                 [] n = 13 -> <<26, 27, 29>>
                 [] n = 20 -> <<2, 11>>
                 [] n = 21 -> <<2>>
                 [] n = 22 -> <<2>>
                 [] n = 23 -> <<3>>
                 [] n = 24 -> <<12, 11>>
                 [] n = 25 -> <<4>>
                 [] n = 26 -> <<3, 4>>
                 [] n = 27 -> <<4>>
                 [] n = 28 -> <<5>>
                 [] OTHER  -> <<>>]
\* volume on the converters, mute on the pins, both on the selector's
\* output and the mixer's inputs
McOutAmp == [n \in McNodes |->
               CASE n \in 2..5 -> {"vol"}
                 [] n = 12     -> {"vol", "mute"}
                 [] n \in {8, 9, 10, 11, 13} -> {}
                 [] OTHER      -> {"mute"}]
McInAmp == [n \in McNodes |-> IF n = 11 THEN {"vol", "mute"} ELSE {}]

\* rear jacks (location 1) are port-complex; the HP is a front jack
\* (location 2); the speaker and the internal mic are fixed; every pin but
\* the mic can output; the HP, the mic and the rear input jacks can input
McPinDef == [n \in McNodes |->
               [complex |-> n \notin {25, 29},
                location |-> CASE n = 24 -> 2 [] n \in {25, 29} -> 0 [] OTHER -> 1,
                out |-> n # 29,
                in |-> n \in {24, 26, 27, 28, 29}]]

Mic(p) == [pin |-> p, type |-> AUTO_PIN_MIC]
LineIn(p) == [pin |-> p, type |-> AUTO_PIN_LINE_IN]

\* the pins of the roles: line-out groups (front first), HP jacks, the
\* speaker, and the input jacks
McLines == {<<>>, <<20>>, <<20, 23>>, <<20, 23, 22>>, <<24, 23>>, <<20, 21, 22, 23>>}
McHps == {<<>>, <<24>>, <<21>>}
McSpks == {<<>>, <<25>>, <<25, 22>>}
McInputs == {<<>>, <<Mic(26)>>, <<Mic(29)>>, <<Mic(26), LineIn(27)>>,
             <<Mic(26), LineIn(27), LineIn(28)>>}
McPinSet(s) == {s[k] : k \in DOMAIN s}

\* what snd_hda_parse_pin_defcfg() makes of them: with no line-out jack the
\* speakers, else the HPs, become the line-outs and give the type
McParsed(l, h, k, in) ==
    CASE l # <<>> -> [type |-> AUTO_PIN_LINE_OUT, line |-> l, hp |-> h, spk |-> k, inputs |-> in]
      [] k # <<>> -> [type |-> AUTO_PIN_SPEAKER_OUT, line |-> k, hp |-> h, spk |-> <<>>, inputs |-> in]
      [] OTHER    -> [type |-> AUTO_PIN_HP_OUT, line |-> h, hp |-> <<>>, spk |-> <<>>, inputs |-> in]

\* every combination with distinct pins and at least one output
McPinConfigs ==
    {McParsed(l, h, k, in) :
        <<l, h, k, in>> \in {t \in McLines \X McHps \X McSpks \X McInputs :
                                /\ McPinSet(t[1]) \cap McPinSet(t[2]) = {}
                                /\ McPinSet(t[1]) \cap McPinSet(t[3]) = {}
                                /\ t[1] # <<>> \/ t[2] # <<>> \/ t[3] # <<>>}}
====
