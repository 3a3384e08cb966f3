-------------------------------- MODULE HdaPcm --------------------------------
(***************************************************************************)
(* The PCM callbacks of the generic parser (hda_generic.c 3341-3661), the  *)
(* Independent HP switch (1611-1663) and the capture source mux_select()   *)
(* (2671-2710) as the steps in which they really run.                     *)
(*                                                                         *)
(* The callbacks that take spec->pcm_mutex for their whole body            *)
(* (playback/alt-playback open and close, indep_hp_put) are each one       *)
(* action.  The dynamic-ADC capture callbacks and mux_select() take no     *)
(* lock and sleep inside their verb writes, so each is split at the points *)
(* where it reads or writes spec->cur_mux and spec->cur_adc.  mux_select() *)
(* is called by the "Input Source" put (mux_enum_put); the control core   *)
(* holds controls_rwsem only for reading around a put, so two writes of   *)
(* the control can run it at once.  (The mic auto-switch, its other       *)
(* caller, exists only when that control does not.)                      *)
(***************************************************************************)
EXTENDS Integers, FiniteSets

CONSTANTS
    NumItems,     \* spec->input_mux.num_items
    AdcNids,      \* spec->adc_nids[], a function on 0..#adcs-1
    DynAdcIdx,    \* spec->dyn_adc_idx[], a function on 0..NumItems-1
    AltDac,       \* spec->alt_dac_nid (the HP DAC of create_indep_hp_ctls)
    MuxActors,    \* the callers of mux_select()
    PutValues,    \* enum values user space may write to Input Source
    HookBound,    \* bound on the OPEN calls the playback hook may see
    Serialized    \* TRUE: a handler starts only when no other is under way

Items == 0..NumItems - 1
Streams == {"multi", "alt"}            \* the analog and alt playback PCMs
PcmStates == {"closed", "open", "prepared"}
MuxPcs == {"idle", "store", "resetup", "activate"}
CapPcs == {"none", "prepare", "cleanup"}

VARIABLES
    active_streams,    \* spec->active_streams as the set of its bits
    indep_hp_enabled,  \* spec->indep_hp_enabled
    hp_out_nid0,       \* spec->multiout.hp_out_nid[0]
    pcm,               \* the PCM core's state of each playback substream
    hook,              \* OPEN minus CLOSE calls of the playback hook, per stream
    cur_mux,           \* spec->cur_mux[0]
    in_active,         \* imux items whose input path is active
    cur_adc,           \* spec->cur_adc (0: no capture stream set up)
    running,           \* ADC converters set up with a stream tag
    cap,               \* the capture substream: state, step under way, cur_mux read
    mux                \* each mux_select() caller: step under way and its index

vars == <<active_streams, indep_hp_enabled, hp_out_nid0, pcm, hook,
          cur_mux, in_active, cur_adc, running, cap, mux>>
pbVars == <<active_streams, indep_hp_enabled, hp_out_nid0, pcm, hook>>
capVars == <<cur_mux, in_active, cur_adc, running, cap, mux>>

\* spec->adc_nids[spec->dyn_adc_idx[i]]: the ADC that input path i ends at
AdcOf(i) == AdcNids[DynAdcIdx[i]]

\* a handler is under way in some caller
Busy == cap.pc # "none" \/ \E a \in MuxActors : mux[a].pc # "idle"
\* a handler may start now
MayStart == Serialized => ~Busy

(* create_indep_hp_ctls(), after the output parse put the HP DAC in        *)
(* hp_out_nid[0]; init_input_src() has activated the path of item 0.       *)
Init ==
    /\ active_streams = {}
    /\ indep_hp_enabled = FALSE
    /\ hp_out_nid0 = AltDac
    /\ pcm = [s \in Streams |-> "closed"]
    /\ hook = [s \in Streams |-> 0]
    /\ cur_mux = 0
    /\ in_active = {0}
    /\ cur_adc = 0
    /\ running = {}
    /\ cap = [state |-> "idle", pc |-> "none", m |-> 0]
    /\ mux = [a \in MuxActors |-> [pc |-> "idle", idx |-> 0]]

-----------------------------------------------------------------------------
(* Playback callbacks and the Independent HP switch, under pcm_mutex.      *)

\* call_pcm_playback_hook() with HDA_GEN_PCM_ACT_OPEN / _CLOSE
HookOpen(s) == hook' = [hook EXCEPT ![s] = @ + 1]
HookClose(s) == hook' = [hook EXCEPT ![s] = @ - 1]

\* playback_pcm_open(): snd_hda_multi_out_analog_open() succeeds
PlaybackPcmOpen ==
    /\ MayStart /\ pcm["multi"] = "closed" /\ hook["multi"] < HookBound
    /\ active_streams' = active_streams \cup {"MULTI_OUT"}
    /\ HookOpen("multi")
    /\ pcm' = [pcm EXCEPT !["multi"] = "open"]
    /\ UNCHANGED <<indep_hp_enabled, hp_out_nid0>>

\* playback_pcm_close()
PlaybackPcmClose ==
    /\ MayStart /\ pcm["multi"] = "open"
    /\ active_streams' = active_streams \ {"MULTI_OUT"}
    /\ HookClose("multi")
    /\ pcm' = [pcm EXCEPT !["multi"] = "closed"]
    /\ UNCHANGED <<indep_hp_enabled, hp_out_nid0>>

\* alt_playback_pcm_open(): -EBUSY unless Independent HP is on, and the
\* OPEN hook is called either way
AltPlaybackPcmOpen ==
    /\ MayStart /\ pcm["alt"] = "closed" /\ hook["alt"] < HookBound
    /\ IF indep_hp_enabled
         THEN /\ active_streams' = active_streams \cup {"INDEP_HP"}
              /\ pcm' = [pcm EXCEPT !["alt"] = "open"]
         ELSE UNCHANGED <<active_streams, pcm>>
    /\ HookOpen("alt")
    /\ UNCHANGED <<indep_hp_enabled, hp_out_nid0>>

\* alt_playback_pcm_close()
AltPlaybackPcmClose ==
    /\ MayStart /\ pcm["alt"] = "open"
    /\ active_streams' = active_streams \ {"INDEP_HP"}
    /\ HookClose("alt")
    /\ pcm' = [pcm EXCEPT !["alt"] = "closed"]
    /\ UNCHANGED <<indep_hp_enabled, hp_out_nid0>>

\* playback_pcm_prepare() / alt_playback_pcm_prepare() and their cleanup:
\* the stream is set up or torn down; the hook is told PREPARE / CLEANUP
PcmPrepare(s) ==
    /\ MayStart /\ pcm[s] \in {"open", "prepared"}
    /\ pcm' = [pcm EXCEPT ![s] = "prepared"]
    /\ UNCHANGED <<active_streams, indep_hp_enabled, hp_out_nid0, hook>>

PcmCleanup(s) ==
    /\ MayStart /\ pcm[s] = "prepared"
    /\ pcm' = [pcm EXCEPT ![s] = "open"]
    /\ UNCHANGED <<active_streams, indep_hp_enabled, hp_out_nid0, hook>>

\* indep_hp_put() that toggles even while a stream is active
IndepHpPutIgnoringStreams(select) ==
    /\ MayStart
    /\ indep_hp_enabled # select
    /\ indep_hp_enabled' = select
    /\ hp_out_nid0' = IF select THEN 0 ELSE AltDac
    /\ UNCHANGED <<active_streams, pcm, hook>>

\* indep_hp_put(): refused with -EBUSY while any stream is active
IndepHpPut(select) ==
    /\ MayStart
    /\ active_streams = {}
    /\ indep_hp_enabled # select
    /\ indep_hp_enabled' = select
    /\ hp_out_nid0' = IF select THEN 0 ELSE AltDac
    /\ UNCHANGED <<active_streams, pcm, hook>>

-----------------------------------------------------------------------------
(* Dynamic-ADC capture callbacks and mux_select(), step by step.          *)

\* a resetup that sets up the new ADC but leaves the old one running
DynAdcPcmResetupNoCleanup(idx) ==
    LET new == AdcOf(idx) IN
    IF cur_adc # 0 /\ cur_adc # new
      THEN /\ running' = running \cup {new}
           /\ cur_adc' = new
      ELSE UNCHANGED <<running, cur_adc>>

\* dyn_adc_pcm_resetup(codec, idx): swap a running stream to idx's ADC
DynAdcPcmResetup(idx) ==
    LET new == AdcOf(idx) IN
    IF cur_adc # 0 /\ cur_adc # new
      THEN /\ running' = (running \ {cur_adc}) \cup {new}
           /\ cur_adc' = new
      ELSE UNCHANGED <<running, cur_adc>>

\* dyn_adc_capture_pcm_prepare(), first step: read spec->cur_mux[0]
DynAdcCapturePcmPrepareRead ==
    /\ MayStart /\ cap.pc = "none"
    /\ cap' = [cap EXCEPT !.pc = "prepare", !.m = cur_mux]
    /\ UNCHANGED <<cur_mux, in_active, cur_adc, running, mux>>

\* dyn_adc_capture_pcm_prepare(), rest: store cur_adc and set it up
DynAdcCapturePcmPrepareSetup ==
    /\ cap.pc = "prepare"
    /\ cur_adc' = AdcOf(cap.m)
    /\ running' = running \cup {AdcOf(cap.m)}
    /\ cap' = [cap EXCEPT !.pc = "none", !.state = "prepared"]
    /\ UNCHANGED <<cur_mux, in_active, mux>>

\* dyn_adc_capture_pcm_cleanup(), first step: clean up spec->cur_adc
DynAdcCapturePcmCleanupStream ==
    /\ MayStart /\ cap.pc = "none" /\ cap.state = "prepared"
    /\ running' = running \ {cur_adc}
    /\ cap' = [cap EXCEPT !.pc = "cleanup"]
    /\ UNCHANGED <<cur_mux, in_active, cur_adc, mux>>

\* dyn_adc_capture_pcm_cleanup(), rest: spec->cur_adc = 0
DynAdcCapturePcmCleanupReset ==
    /\ cap.pc = "cleanup"
    /\ cur_adc' = 0
    /\ cap' = [cap EXCEPT !.pc = "none", !.state = "idle"]
    /\ UNCHANGED <<cur_mux, in_active, running, mux>>

\* mux_select() without the clamp of idx to num_items - 1
MuxSelectBeginUnclamped(a, v) ==
    /\ MayStart /\ mux[a].pc = "idle"
    /\ cur_mux # v
    /\ in_active' = in_active \ {cur_mux}
    /\ mux' = [mux EXCEPT ![a] = [pc |-> "store", idx |-> v]]
    /\ UNCHANGED <<cur_mux, cur_adc, running, cap>>

\* mux_select(), entry: clamp idx; return if it is already selected;
\* otherwise deactivate the path of the current item
MuxSelectBegin(a, v) ==
    LET idx == IF v >= NumItems THEN NumItems - 1 ELSE v IN
    /\ MayStart /\ mux[a].pc = "idle"
    /\ cur_mux # idx
    /\ in_active' = in_active \ {cur_mux}
    /\ mux' = [mux EXCEPT ![a] = [pc |-> "store", idx |-> idx]]
    /\ UNCHANGED <<cur_mux, cur_adc, running, cap>>

\* mux_select(): spec->cur_mux[adc_idx] = idx
MuxSelectStore(a) ==
    /\ mux[a].pc = "store"
    /\ cur_mux' = mux[a].idx
    /\ mux' = [mux EXCEPT ![a].pc = "resetup"]
    /\ UNCHANGED <<in_active, cur_adc, running, cap>>

\* mux_select(): dyn_adc_pcm_resetup(codec, idx) under dyn_adc_switch
MuxSelectResetup(a) ==
    /\ mux[a].pc = "resetup"
    /\ DynAdcPcmResetup(mux[a].idx)
    /\ mux' = [mux EXCEPT ![a].pc = "activate"]
    /\ UNCHANGED <<cur_mux, in_active, cap>>

\* mux_select(), exit: activate the new item's path unless it is active
MuxSelectActivate(a) ==
    /\ mux[a].pc = "activate"
    /\ in_active' = in_active \cup {mux[a].idx}
    /\ mux' = [mux EXCEPT ![a].pc = "idle"]
    /\ UNCHANGED <<cur_mux, cur_adc, running, cap>>

-----------------------------------------------------------------------------
PlaybackNext ==
    \/ PlaybackPcmOpen \/ PlaybackPcmClose
    \/ AltPlaybackPcmOpen \/ AltPlaybackPcmClose
    \/ \E s \in Streams : PcmPrepare(s) \/ PcmCleanup(s)
    \/ \E b \in BOOLEAN : IndepHpPut(b)

CaptureNext ==
    \/ DynAdcCapturePcmPrepareRead \/ DynAdcCapturePcmPrepareSetup
    \/ DynAdcCapturePcmCleanupStream \/ DynAdcCapturePcmCleanupReset
    \/ \E a \in MuxActors :
          \/ \E v \in PutValues : MuxSelectBegin(a, v)
          \/ MuxSelectStore(a) \/ MuxSelectResetup(a) \/ MuxSelectActivate(a)

Next ==
    \/ PlaybackNext /\ UNCHANGED capVars
    \/ CaptureNext /\ UNCHANGED pbVars

Spec == Init /\ [][Next]_vars

-----------------------------------------------------------------------------
TypeOK ==
    /\ active_streams \subseteq {"MULTI_OUT", "INDEP_HP"}
    /\ indep_hp_enabled \in BOOLEAN
    /\ hp_out_nid0 \in {0, AltDac}
    /\ pcm \in [Streams -> PcmStates]
    /\ hook \in [Streams -> 0..HookBound]
    /\ cur_mux \in Items
    /\ in_active \subseteq Items
    /\ cur_adc \in {0} \cup {AdcOf(i) : i \in Items}
    /\ running \subseteq {AdcOf(i) : i \in Items}
    /\ cap \in [state : {"idle", "prepared"}, pc : CapPcs, m : Items]
    /\ mux \in [MuxActors -> [pc : MuxPcs, idx : Items]]

(* The intent of pcm_mutex (spec, concurrency discipline): the set of      *)
(* active streams cannot change under an Independent-HP toggle.  So the    *)
(* HP DAC is never fed by two streams: while the independent HP stream is  *)
(* open the multi-out does not mirror to it (hp_out_nid[0] = 0), and       *)
(* hp_out_nid[0] is 0 exactly when the switch is on (indep_hp_put,         *)
(* alt_playback_pcm_open).                                                 *)
HpDacSingleOwner ==
    /\ "INDEP_HP" \in active_streams => indep_hp_enabled /\ hp_out_nid0 = 0
    /\ (hp_out_nid0 = 0) <=> indep_hp_enabled

(* When no capture callback and no mux_select() is under way, exactly the *)
(* selected item's input path is active (mux_select).                      *)
MuxExclusive ==
    ~Busy => in_active = {cur_mux}

(* When no capture callback and no mux_select() is under way, the running *)
(* converters are those of the capture stream: while it is prepared, the   *)
(* one ADC that the selected item's path ends at, and that one is         *)
(* spec->cur_adc; while it is not, none (dyn_adc_capture_pcm_prepare,     *)
(* dyn_adc_capture_pcm_cleanup, dyn_adc_pcm_resetup).                      *)
ConverterFollowsMux ==
    ~Busy =>
        IF cap.state = "prepared"
          THEN cur_adc = AdcOf(cur_mux) /\ running = {cur_adc}
          ELSE cur_adc = 0 /\ running = {}

(* The playback hook sees OPEN and CLOSE in pairs: it has had one more     *)
(* OPEN than CLOSE exactly while the PCM core holds the stream open, as    *)
(* playback_pcm_open() guarantees by calling it only on success.           *)
HookBalanced ==
    \A s \in Streams : hook[s] = IF pcm[s] = "closed" THEN 0 ELSE 1
=============================================================================
