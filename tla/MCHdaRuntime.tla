---------------------------- MODULE MCHdaRuntime ----------------------------
(***************************************************************************)
(* A laptop codec under the runtime handlers: a speaker (pin 20) as the    *)
(* line-out and a headphone jack (21) that share DAC 2 through selector    *)
(* 12, a loopback path from DAC 2 to the speaker through the analog mixer  *)
(* 11, a mic jack (24) and an internal mic (25) that reach ADC 8 through   *)
(* the input selector 14 and feed the mixer.  The paths are built by the   *)
(* calls the parser makes for this configuration, in its order.            *)
(*                                                                         *)
(* The handlers run one at a time: the user's control writes, the codec    *)
(* init (at probe and on every resume) and the jack callbacks, which the   *)
(* unsolicited-event work runs for the pins whose jack changed.            *)
(***************************************************************************)
EXTENDS HdaRuntime, TLC

VARIABLES
    codec,      \* the codec-side state (see HdaRuntime)
    jack,       \* the jack sense of each detectable pin, set by the user
    unsol,      \* pins with an unsolicited event not handled yet
    inited      \* snd_hda_gen_init() has run

vars == <<codec, jack, unsol, inited>>

RtNodes == {2, 8, 11, 12, 14, 20, 21, 24, 25}
RtWType == [n \in RtNodes |->
              CASE n = 2                 -> "AudOut"
                [] n = 8                 -> "AudIn"
                [] n = 11                -> "AudMix"
                [] n \in {12, 14}        -> "AudSel"
                [] n \in {20, 21, 24, 25} -> "Pin"]
RtConn == [n \in RtNodes |->
              CASE n = 8  -> <<14>>
                [] n = 11 -> <<2, 24, 25>>
                [] n = 12 -> <<2>>
                [] n = 14 -> <<24, 25, 11>>
                [] n = 20 -> <<12, 11>>
                [] n = 21 -> <<12>>
                [] OTHER  -> <<>>]
RtInAmp == [n \in RtNodes |->
              CASE n = 11 -> {"vol", "mute"}
                [] n = 24 -> {"vol"}
                [] OTHER  -> {}]
RtOutAmp == [n \in RtNodes |->
              CASE n = 2  -> {"vol"}
                [] n = 12 -> {"mute"}
                [] n = 14 -> {"vol", "mute"}
                [] n \in {20, 21} -> {"mute"}
                [] OTHER  -> {}]
RtConnDepth == 10
RtMaxDepth == 10

(***************************************************************************)
(* The parse: map_singles() gives the speaker its single DAC, the HP       *)
(* shares it (try_assign_dacs()), both paths avoid the mixer and get their *)
(* ctls; check_aamix_out_path() adds the speaker's path through the mixer  *)
(* (the HP has none); create_input_ctls() adds for each input pin its      *)
(* loopback path into the mixer and its capture path (avoiding the mixer); *)
(* create_capture_mixers() binds the capture ctls.                         *)
(***************************************************************************)
Activated(r) == [r.store EXCEPT ![r.ret].active = TRUE]
RtSpk == AddNewPath(<<>>, 2, 20, -11)
RtS1 == AssignOutPathCtls(Activated(RtSpk), 1).store
RtHp == AddNewPath(RtS1, 2, 21, -11)
RtS2 == AssignOutPathCtls(Activated(RtHp), 2).store
RtAamix == AddNewPath(RtS2, 2, 20, 11)
RtLb24 == NewAnalogInput(RtAamix.store, 24, 11)
RtIn24 == AddNewPath(RtLb24.store, 24, 8, -11)
RtLb25 == NewAnalogInput(RtIn24.store, 25, 11)
RtIn25 == AddNewPath(RtLb25.store, 25, 8, -11)
RtPaths == ParseCapvolInPath(ParseCapvolInPath(RtIn25.store, RtIn24.ret), RtIn25.ret)

(***************************************************************************)
(* The same store and handle tables written out, so that the runs use the  *)
(* values; the ASSUME below checks that the parser's calls produce them.   *)
(***************************************************************************)
Ctl(n, d, i) == [nid |-> n, dir |-> d, idx |-> i]
Rec(p, ix, mu, vol, mute, act) ==
    [path |-> p, idx |-> ix, multi |-> mu,
     ctls |-> [vol |-> vol, mute |-> mute, boost |-> NoCtl], active |-> act]
RtPathsLit ==
    << Rec(<<2, 12, 20>>, <<0, 0, 0>>, <<FALSE, FALSE, TRUE>>, Ctl(2, 1, 0), Ctl(20, 1, 0), TRUE),
       Rec(<<2, 12, 21>>, <<0, 0, 0>>, <<FALSE, FALSE, FALSE>>, NoCtl, Ctl(21, 1, 0), TRUE),
       Rec(<<2, 11, 20>>, <<0, 0, 1>>, <<FALSE, FALSE, TRUE>>, NoCtl, NoCtl, FALSE),
       Rec(<<24, 11>>, <<0, 1>>, <<FALSE, FALSE>>, Ctl(11, 0, 1), Ctl(11, 0, 1), TRUE),
       Rec(<<24, 14, 8>>, <<0, 0, 0>>, <<FALSE, TRUE, FALSE>>, Ctl(14, 1, 0), Ctl(14, 1, 0), FALSE),
       Rec(<<25, 11>>, <<0, 2>>, <<FALSE, FALSE>>, Ctl(11, 0, 2), Ctl(11, 0, 2), TRUE),
       Rec(<<25, 14, 8>>, <<0, 1, 0>>, <<FALSE, TRUE, FALSE>>, Ctl(14, 1, 0), Ctl(14, 1, 0), FALSE) >>
RtOutPaths == <<1>>
RtHpPaths == <<2>>
RtAamixOutPaths == <<3, 0, 0>>
RtInputPaths == <<5, 7>>
RtLoopbackPaths == <<4, 6>>

ASSUME ParsedAsWritten ==
    /\ RtPaths = RtPathsLit
    /\ RtOutPaths = <<RtSpk.ret>> /\ RtHpPaths = <<RtHp.ret>>
    /\ RtAamixOutPaths = <<RtAamix.ret, 0, 0>>
    /\ RtInputPaths = <<RtIn24.ret, RtIn25.ret>>
    /\ RtLoopbackPaths = <<RtLb24.ret, RtLb25.ret>>
RtInputPins == <<24, 25>>
\* auto-mic: the internal mic (imux item 1) first, the jack (item 0) second
RtAmEntry == <<[pin |-> 25, idx |-> 1], [pin |-> 24, idx |-> 0]>>
RtAutoMicPins == TRUE
RtJackPins == {21, 24}
RtLineOutType == "speaker"
RtLineOutPins == <<20>>
RtHpPinsCfg == <<21>>
RtNoPins == <<>>
RtMixer == 11

Init ==
    /\ \E suppress \in BOOLEAN : codec = Codec0(suppress)
    /\ jack \in [JackPins -> BOOLEAN]
    /\ unsol = {}
    /\ inited = FALSE

\* snd_hda_gen_init(), at probe and again at every resume
CodecInit ==
    /\ codec' = GenInit(codec, jack)
    /\ inited' = TRUE
    /\ UNCHANGED <<jack, unsol>>

\* a jack is plugged or unplugged; the codec queues an event for the pin
\* if a callback was registered for it
JackChange(p) ==
    /\ jack' = [jack EXCEPT ![p] = ~@]
    /\ unsol' = IF p \in EventPins(codec) THEN unsol \cup {p} ELSE unsol
    /\ UNCHANGED <<codec, inited>>

\* the unsolicited-event work runs the pin's callback
UnsolEvent(p) ==
    /\ inited
    /\ p \in unsol
    /\ unsol' = unsol \ {p}
    /\ codec' = CASE p \in HpEventPins  -> HpAutomute(codec, jack)
                  [] p \in LoEventPins  -> LineAutomute(codec, jack)
                  [] p \in MicEventPins(codec) -> MicAutoswitch(codec, jack)
    /\ UNCHANGED <<jack, inited>>

\* a write of a control; it exists only if the parser created it
ControlPut(newCodec) ==
    /\ inited
    /\ codec' = newCodec
    /\ UNCHANGED <<jack, unsol, inited>>

\* the controls the parser creates: "Loopback Mixing", "Auto-Mute Mode" and
\* the capture source enum (only without auto-mic)
LoopbackCtl == MixerNid # 0 /\ \E i \in 1..3 : AamixOutPaths[i] # 0
AutomuteCtl == AutomuteSpeakerPossible \/ AutomuteLoPossible
InputSourceCtl == ~codec.auto_mic /\ Len(InputPaths) > 1
CaptureSwitchCtl == CapSwAmps(codec) # {}

Next ==
    \/ CodecInit
    \/ \E p \in JackPins : JackChange(p)
    \/ \E p \in unsol : UnsolEvent(p)
    \/ LoopbackCtl /\ \E v \in 0..1 : ControlPut(LoopbackMixingPut(codec, v))
    \/ AutomuteCtl /\ \E v \in 0..3 : ControlPut(AutomuteModePut(codec, v))
    \/ InputSourceCtl /\ \E v \in 0..Len(InputPaths) : ControlPut(MuxSelect(codec, v))
    \/ CaptureSwitchCtl /\ \E on \in BOOLEAN : ControlPut(CapSwPut(codec, on))

\* the event work is a workqueue run in order: every queued event is
\* eventually handled
Spec == Init /\ [][Next]_vars /\ \A p \in JackPins : WF_vars(UnsolEvent(p))

-----------------------------------------------------------------------------
TypeOK ==
    /\ codec.paths \in Seq([path : Seq(Nodes), idx : Seq(Nat), multi : Seq(BOOLEAN),
                            ctls : [CtlTypes -> [nid : Nat, dir : Nat, idx : Nat]],
                            active : BOOLEAN])
    /\ codec.amp \in [AmpKeys -> AmpStates]
    /\ codec.sel \in [Selectors -> Nat]
    /\ codec.pinctl \in [Pins -> PinCtls]
    /\ codec.cur_mux \in 0..(Len(InputPaths) - 1)
    /\ codec.aamix_mode \in 0..1
    /\ {codec.automute_speaker, codec.automute_lo, codec.auto_mic,
        codec.hp_jack_present, codec.line_jack_present} \subseteq BOOLEAN
    /\ jack \in [JackPins -> BOOLEAN]
    /\ unsol \subseteq EventPins(codec)
    /\ inited \in BOOLEAN

(* Input Source / mic auto-switch: once the codec is initialised, the      *)
(* capture path of the current mux item is the only active capture path   *)
(* (mux_select() switches the old one off before the new one on, and init *)
(* re-activates the current one).                                         *)
MuxExclusive ==
    inited =>
        \A i \in DOMAIN InputPaths :
            codec.paths[InputPaths[i]].active <=> (i - 1 = codec.cur_mux)

(* Every active path is routed: at each selector on it, the connection    *)
(* select holds the path's index, whatever sequence of loopback-mixing,   *)
(* mux and init calls switched paths on and off.                          *)
ActiveSelectorsRoute ==
    inited =>
        \A i \in DOMAIN codec.paths :
            LET p == codec.paths[i] IN
            p.active => \A k \in DOMAIN p.path :
                            p.multi[k] => codec.sel[p.path[k]] = p.idx[k]

\* the speaker's pin control auto-mute should give for the current jacks
SpeakerWanted ==
    IF codec.automute_speaker /\ DetectJacks(jack, HpPins) THEN "off" ELSE "out"
\* the imux item mic auto-switch should pick for the current jacks
MicWanted ==
    LET plugged == {i \in 2..Len(AmEntry) : jack[AmEntry[i].pin]}
    IN  IF plugged = {} THEN AmEntry[1].idx
        ELSE AmEntry[CHOOSE i \in plugged : \A j \in plugged : j <= i].idx

(* With no jack event pending, the speaker is muted exactly when the HP is *)
(* plugged and auto-mute is on, and the auto-mic input is the plugged mic  *)
(* jack, else the internal mic: the cached hp_jack_present and cur_mux    *)
(* that the control writes and the resume re-use are never stale then.    *)
QuiescentOutputsFollowJacks ==
    inited /\ unsol = {} =>
        /\ \A s \in Elem(SpeakerPins) : codec.pinctl[s] = SpeakerWanted
        /\ codec.auto_mic => codec.cur_mux = MicWanted

(* HP auto-mute: once the HP is plugged with auto-mute on, the speaker is  *)
(* eventually muted unless the HP is pulled or auto-mute turned off.      *)
HpPlugMutesSpeaker ==
    \A s \in Elem(SpeakerPins) :
        (inited /\ codec.automute_speaker /\ DetectJacks(jack, HpPins))
            ~> (codec.pinctl[s] = "off" \/ ~codec.automute_speaker
                \/ ~DetectJacks(jack, HpPins))

\* the amps some path's volume or mute ctl owns
OwnedAmps == {a \in AmpKeys : IsCtlAssociated(codec.paths, a.nid, a.dir, a.idx)}

(* An amp a mixer control owns keeps the value the user gave it: once     *)
(* initialised, init at resume, jack events, mic auto-switch, the Input   *)
(* Source and Loopback Mixing writes never change it (activate_amp()'s    *)
(* is_ctl_associated() test and init_amp()'s first-time-only write); only *)
(* a put of its control does.                                             *)
OwnedAmpsFollowControls ==
    [][\A a \in OwnedAmps :
          codec.amp[a] # "none" /\ codec'.amp[a] # codec.amp[a]
            => \E on \in BOOLEAN : codec' = CapSwPut(codec, on)]_vars

(* Path activation: every amp on an active path that no ctl owns is on,   *)
(* so switching one path off never silences another that shares a widget *)
(* (the intent of the is_active_nid() test in activate_amp()).            *)
ActivePathAmpsOn ==
    inited =>
        \A i \in DOMAIN codec.paths :
            LET p == codec.paths[i] IN
            p.active =>
                /\ \A k \in DOMAIN p.path :
                      HasAmpOut(p, k) /\ ~IsCtlAssociated(codec.paths, p.path[k], HDA_OUTPUT, 0)
                        => codec.amp[AmpVal(p.path[k], 0, HDA_OUTPUT)] = "on"
                /\ \A k \in DOMAIN p.path :
                      HasAmpIn(p, k) /\ ~IsCtlAssociated(codec.paths, p.path[k], HDA_INPUT, InAmpIdx(p, k))
                        => codec.amp[AmpVal(p.path[k], InAmpIdx(p, k), HDA_INPUT)] = "on"
=============================================================================
