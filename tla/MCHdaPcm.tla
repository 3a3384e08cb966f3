------------------------------- MODULE MCHdaPcm -------------------------------
(***************************************************************************)
(* A codec with dynamic ADC switching: two capture inputs, each reachable  *)
(* only through its own ADC (nids 8 and 9), so check_dyn_adc_switch() set  *)
(* dyn_adc_idx = <<0, 1>>; and an HP DAC (3) that create_indep_hp_ctls()   *)
(* took for the Independent HP stream.  Two writers of the Input Source    *)
(* control call mux_select().                                              *)
(***************************************************************************)
EXTENDS HdaPcm, TLC

McAdcNids == 0 :> 8 @@ 1 :> 9
McDynAdcIdx == 0 :> 0 @@ 1 :> 1
\* the Input Source put may write an out-of-range item (clamped)
McPutValues == {0, 1, 2}
=============================================================================
