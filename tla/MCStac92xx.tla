---------------------------- MODULE MCStac92xx ----------------------------
(***************************************************************************)
(* Two STAC92xx boards.  A desktop 3-stack: line-out 10 on DAC 2, a rear  *)
(* and a front-panel headphone (11, 15) on DAC 5, the line-in 12 and the   *)
(* mic 13 able to drive DACs 3 and 4 as surround and center/LFE (DAC 4    *)
(* can swap), mux 20 for capture.  A laptop: line-out 10 on DAC 2, a      *)
(* speaker 14 and a headphone 11 sharing DAC 5, and a mic jack 13 that    *)
(* connects only to DAC 2, so the mic the parser adds as an output is     *)
(* dropped again; GPIO 0/1 mute its amplifier.                            *)
(***************************************************************************)
EXTENDS Stac92xx, TLC

Desktop ==
    [dacs |-> {2, 3, 4, 5},
     conn |-> (10 :> <<2>>) @@ (11 :> <<5, 2>>) @@ (15 :> <<5>>) @@ (12 :> <<2, 3>>)
              @@ (13 :> <<4>>) @@ (20 :> <<13, 12, 11>>),
     unsol |-> {11, 15}, lrswap |-> {4}, vref |-> {13},
     line_outs |-> <<10>>, hp_pins |-> <<11, 15>>, speaker_pins |-> <<>>,
     input_pins |-> <<13, 0, 12, 0, 0, 0>>, mux_nids |-> <<20>>,
     gpio_mute |-> FALSE, aloopback |-> TRUE]

Laptop ==
    [dacs |-> {2, 3, 5},
     conn |-> (10 :> <<2>>) @@ (11 :> <<5>>) @@ (14 :> <<5>>) @@ (13 :> <<2>>)
              @@ (20 :> <<13>>),
     unsol |-> {11}, lrswap |-> {}, vref |-> {13},
     line_outs |-> <<10>>, hp_pins |-> <<11>>, speaker_pins |-> <<14>>,
     input_pins |-> <<13, 0, 0, 0, 0, 0>>, mux_nids |-> <<20>>,
     gpio_mute |-> TRUE, aloopback |-> FALSE]

McCodecs == {Desktop, Laptop}
McBiosPinctl == {{}, {"in"}, {"out"}}

\* both boards parse: the desktop keeps line-in and mic as outputs, the
\* laptop's mic is cut from line_outs but keeps its switch
ASSUME ParsedAsDescribed ==
    /\ ParseAutoConfig(Desktop).line_outs = <<10, 12, 13>>
    /\ ParseAutoConfig(Desktop).hp_nid = 5
    /\ ParseAutoConfig(Desktop).ctls = {"clfe", "line_io", "mic_io"}
    /\ ParseAutoConfig(Laptop).line_outs = <<10>>
    /\ ParseAutoConfig(Laptop).mic_switch
    /\ ParseAutoConfig(Laptop).hp_nid = 5
====
