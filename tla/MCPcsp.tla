---------------------------------- MODULE MCPcsp ----------------------------------
(***************************************************************************)
(* Two buffer layouts the core may choose, both of two periods: 16 bytes  *)
(* of 8-byte periods and 32 bytes of 16-byte periods, so that a new        *)
(* hw_params changes the period as well as the buffer.  With U8 and       *)
(* S16_LE samples and PCSP_MAX_TREBLE = 1 the callback steps 1, 2 or 4     *)
(* bytes.  As with the driver's period_bytes_min of 64, every period is   *)
(* longer than the largest step.                                           *)
(***************************************************************************)
EXTENDS Pcsp

McSetups == {[buffer |-> 16, period |-> 8], [buffer |-> 32, period |-> 16]}

ASSUME \A s \in McSetups, f \in {1, 2} : IndexInc(0) * f < s.period
================================================================================
