------------------------------ MODULE HdaAssign ------------------------------
(***************************************************************************)
(* The converter assignment engine of hda_generic.c: try_assign_dacs(),    *)
(* map_singles(), fill_multi_ios(), check_aamix_out_path(),                *)
(* refill_shared_dacs(), fill_and_eval_dacs() as operators on the parser's *)
(* state, and parse_output_paths()'s search over hypotheses as a state     *)
(* machine, one step per iteration of its loop.                            *)
(*                                                                         *)
(* The parser's state S is a record: paths (spec->paths), dacs[r] and      *)
(* pidx[r] for the roles r = "out", "hp", "spk" (private_dac_nids /        *)
(* out_paths, multiout.hp_out_nid / hp_paths, multiout.extra_out_nid /     *)
(* speaker_paths), aamix (aamix_out_paths), mio (multi_io[0..multi_ios-1]) *)
(* and num_dacs.  C index k is position k + 1.                             *)
(***************************************************************************)
EXTENDS HdaPath

CONSTANTS
    MixerNid,       \* spec->mixer_nid, 0 when the codec has no analog mixer
    DigitalWidgets, \* converters with AC_WCAP_DIGITAL (outputs and inputs)
    PinDef,         \* pin -> [complex, location, out, in]: the jack connection is
                    \* AC_JACK_PORT_COMPLEX, its location, AC_PINCAP_OUT, AC_PINCAP_IN
    PinConfigs      \* the auto_pin_cfg values the BIOS tables may give

MaxOuts == 5        \* AUTO_CFG_MAX_OUTS
Roles == {"out", "hp", "spk"}
Slots == 1..MaxOuts

\* auto_pin_cfg line_out_type values and the input types fill_multi_ios visits
AUTO_PIN_LINE_OUT == "line"
AUTO_PIN_SPEAKER_OUT == "spk"
AUTO_PIN_HP_OUT == "hp"
AUTO_PIN_MIC == 0
AUTO_PIN_LINE_IN == 1

BAD_NO_PRIMARY_DAC == 65536
BAD_NO_DAC == 16384
BAD_MULTI_IO == 259
BAD_NO_EXTRA_DAC == 258
BAD_NO_EXTRA_SURR_DAC == 257
BAD_SHARED_SURROUND == 256
BAD_SHARED_CLFE == 16
BAD_SHARED_EXTRA_SURROUND == 16
INT_MAX == 2147483647

MainOutBadness ==
    [no_primary_dac |-> BAD_NO_PRIMARY_DAC, no_dac |-> BAD_NO_DAC,
     shared_primary |-> BAD_NO_PRIMARY_DAC, shared_surr |-> BAD_SHARED_SURROUND,
     shared_clfe |-> BAD_SHARED_CLFE, shared_surr_main |-> BAD_SHARED_SURROUND]
ExtraOutBadness ==
    [no_primary_dac |-> BAD_NO_DAC, no_dac |-> BAD_NO_DAC,
     shared_primary |-> BAD_NO_EXTRA_DAC, shared_surr |-> BAD_SHARED_EXTRA_SURROUND,
     shared_clfe |-> BAD_SHARED_EXTRA_SURROUND, shared_surr_main |-> BAD_NO_EXTRA_SURR_DAC]

\* binds a value once before a body uses it many times
Bind(e, F(_)) == CHOOSE y \in {F(x) : x \in {e}} : TRUE

Least(X) == CHOOSE x \in X : \A y \in X : x <= y

\* the pins of a role in the configuration
RolePins(cfg, r) == CASE r = "out" -> cfg.line [] r = "hp" -> cfg.hp [] r = "spk" -> cfg.spk

\* fill_all_dac_nids(): every output converter, in nid order
AllDacs == {n \in Nodes : WType[n] = "AudOut"}

NoSlots == [k \in Slots |-> 0]
ClearedSpec ==
    [paths |-> FreePaths, dacs |-> [r \in Roles |-> NoSlots],
     pidx |-> [r \in Roles |-> NoSlots], aamix |-> <<0, 0, 0>>,
     mio |-> <<>>, num_dacs |-> 0]

-----------------------------------------------------------------------------
\* get_primary_out(): the DAC of the C index idx of the primary outputs,
\* then of the multi-io channels
GetPrimaryOut(cfg, s, idx) ==
    IF Len(cfg.line) > idx THEN s.dacs["out"][idx + 1]
    ELSE IF Len(s.mio) > idx - Len(cfg.line) THEN s.mio[idx - Len(cfg.line) + 1].dac
    ELSE 0

\* try_dac()
TryDac(dac, pin) == IF IsReachablePath(dac, pin) THEN dac ELSE 0

\* (mutant) look_for_dac() without the is_dac_already_used() test
LookForDacIgnoringUse(store, pin) ==
    Bind({d \in AllDacs \ DigitalWidgets : IsReachablePath(d, pin)}, LAMBDA c :
         IF c = {} THEN 0 ELSE Least(c))

\* look_for_dac(codec, pin, false): the first analog DAC no path starts at
LookForDac(store, pin) ==
    Bind({d \in AllDacs \ DigitalWidgets : ~IsDacAlreadyUsed(store, d) /\ IsReachablePath(d, pin)},
         LAMBDA c : IF c = {} THEN 0 ELSE Least(c))

\* get_dac_if_single(): the only unused DAC that reaches the pin, else 0
GetDacIfSingle(store, pin) ==
    Bind({d \in AllDacs : ~IsDacAlreadyUsed(store, d) /\ IsReachablePath(d, pin)},
         LAMBDA c : IF Cardinality(c) = 1 THEN CHOOSE d \in c : TRUE ELSE 0)

\* the store after a path gets path->active = true
Activate(store, i) == [store EXCEPT ![i].active = TRUE]

\* snd_hda_add_new_path(dac, pin, -mixer_nid), retried with no anchor for
\* the first pin when a mixer exists
AddOutPath(store, dac, pin, first) ==
    Bind(AddNewPath(store, dac, pin, -MixerNid), LAMBDA r :
         IF r.ret = 0 /\ first /\ MixerNid # 0 THEN AddNewPath(store, dac, pin, 0) ELSE r)

-----------------------------------------------------------------------------
(***************************************************************************)
(* try_assign_dacs() for role r with badness table bad.  A pin whose       *)
(* handle is already set only gets its ctls assigned.  Otherwise it takes  *)
(* a free DAC; the first pin may steal a later pin's DAC; a pin still      *)
(* without one shares the primary or the first DAC of the role, or gets a  *)
(* path from any DAC, at the cost of the table's entry.  The DAC of a      *)
(* shared pin is not written to dacs[].                                     *)
(***************************************************************************)
\* (mutant) the steal that leaves path_idx[j] on the invalidated path
StealForFrontKeepingHandle(s, r, pin, n) ==
    LET js == {j \in 2..n : IsReachablePath(s.dacs[r][j], pin)}
        j == Least(js)
    IN  IF js = {} THEN s
        ELSE [s EXCEPT !.dacs[r][1] = s.dacs[r][j], !.dacs[r][j] = 0,
                       !.paths = InvalidateNidPath(s.paths, s.pidx[r][j])]

\* the steal of the surround DAC for the front (j from C index 1)
StealForFront(s, r, pin, n) ==
    LET js == {j \in 2..n : IsReachablePath(s.dacs[r][j], pin)}
        j == Least(js)
    IN  IF js = {} THEN s
        ELSE [s EXCEPT !.dacs[r][1] = s.dacs[r][j], !.dacs[r][j] = 0,
                       !.paths = InvalidateNidPath(s.paths, s.pidx[r][j]),
                       !.pidx[r][j] = 0]

\* the DAC a pin without its own falls back to, and the badness of it
SharedDac(cfg, s, r, pin, n, bad, i) ==
    LET main == s.dacs["out"][1] IN
    Bind(GetPrimaryOut(cfg, s, i - 1), LAMBDA p :
    Bind(IF n > 2 THEN TryDac(p, pin) ELSE 0, LAMBDA d1 :
    Bind(IF d1 # 0 THEN d1 ELSE TryDac(s.dacs[r][1], pin), LAMBDA d2 :
    Bind(IF d2 # 0 THEN d2 ELSE TryDac(p, pin), LAMBDA d3 :
        CASE d3 # 0 /\ i = 1 -> [dac |-> d3, cost |-> bad.shared_primary]
          [] d3 # 0 /\ i = 2 -> [dac |-> d3, cost |-> bad.shared_surr]
          [] d3 # 0          -> [dac |-> d3, cost |-> bad.shared_clfe]
          [] IsReachablePath(main, pin) -> [dac |-> main, cost |-> bad.shared_surr_main]
          [] i = 1           -> [dac |-> 0, cost |-> bad.no_primary_dac]
          [] OTHER           -> [dac |-> 0, cost |-> bad.no_dac]))))

TryAssignOne(cfg, acc, r, bad, i) ==
    LET s == acc.s
        pins == RolePins(cfg, r)
        pin == pins[i]
    IN  IF ValidHandle(s.paths, s.pidx[r][i])
        THEN Bind(AssignOutPathCtls(s.paths, s.pidx[r][i]), LAMBDA a :
                  [s |-> [s EXCEPT !.paths = a.store], badness |-> acc.badness + a.badness])
        ELSE Bind([s EXCEPT !.dacs[r][i] = LookForDac(s.paths, pin)], LAMBDA s0 :
             Bind(IF s0.dacs[r][i] = 0 /\ i = 1 THEN StealForFront(s0, r, pin, Len(pins)) ELSE s0,
                  LAMBDA s1 :
             Bind(IF s1.dacs[r][i] # 0 THEN [dac |-> s1.dacs[r][i], cost |-> 0]
                  ELSE SharedDac(cfg, s1, r, pin, Len(pins), bad, i), LAMBDA sh :
             Bind(AddOutPath(s1.paths, sh.dac, pin, i = 1), LAMBDA p :
                  IF p.ret = 0
                  THEN [s |-> [s1 EXCEPT !.dacs[r][i] = 0, !.paths = p.store],
                        badness |-> acc.badness + sh.cost]
                  ELSE Bind(AssignOutPathCtls(Activate(p.store, p.ret), p.ret), LAMBDA a :
                            [s |-> [s1 EXCEPT !.paths = a.store, !.pidx[r][i] = p.ret],
                             badness |-> acc.badness + sh.cost + a.badness])))))

RECURSIVE TryAssignFrom(_, _, _, _, _)
TryAssignFrom(cfg, acc, r, bad, i) ==
    IF i > Len(RolePins(cfg, r)) THEN acc
    ELSE TryAssignFrom(cfg, TryAssignOne(cfg, acc, r, bad, i), r, bad, i + 1)

TryAssignDacs(cfg, s, r, bad) == TryAssignFrom(cfg, [s |-> s, badness |-> 0], r, bad, 1)

-----------------------------------------------------------------------------
\* map_singles(): every pin of the role without a DAC that has a single
\* unused DAC gets a path from it; found tells whether any did
RECURSIVE MapSinglesFrom(_, _, _, _)
MapSinglesFrom(cfg, acc, r, i) ==
    IF i > Len(RolePins(cfg, r)) THEN acc
    ELSE LET s == acc.s
             pin == RolePins(cfg, r)[i]
         IN
         Bind(IF s.dacs[r][i] # 0 THEN 0 ELSE GetDacIfSingle(s.paths, pin), LAMBDA dac :
         Bind(IF dac = 0 THEN [store |-> s.paths, ret |-> 0]
              ELSE AddOutPath(s.paths, dac, pin, i = 1), LAMBDA p :
              MapSinglesFrom(cfg,
                             IF dac = 0 THEN acc
                             ELSE IF p.ret = 0 THEN [acc EXCEPT !.s.paths = p.store]
                             ELSE [s |-> [s EXCEPT !.dacs[r][i] = dac, !.pidx[r][i] = p.ret,
                                                   !.paths = Activate(p.store, p.ret)],
                                   found |-> TRUE],
                             r, i + 1)))

MapSingles(cfg, s, r) == MapSinglesFrom(cfg, [s |-> s, found |-> FALSE], r, 1)

-----------------------------------------------------------------------------
\* can_be_multiio_pin(): a pin of a port-complex jack at the location (any
\* location for 0) that can output
CanBeMultiioPin(location, nid) ==
    /\ PinDef[nid].complex
    /\ location = 0 \/ PinDef[nid].location = location
    /\ PinDef[nid].out

\* the input pins of a type, in cfg->inputs[] order
InputsOfType(cfg, type) == SelectSeq(cfg.inputs, LAMBDA x : x.type = type)

\* count_multiio_pins()
CountMultiioPins(cfg, ref) ==
    Cardinality({k \in DOMAIN cfg.inputs :
                    /\ cfg.inputs[k].type \in {AUTO_PIN_LINE_IN, AUTO_PIN_MIC}
                    /\ CanBeMultiioPin(PinDef[ref].location, cfg.inputs[k].pin)})

(***************************************************************************)
(* The inner loop of fill_multi_ios() over the inputs g of one type: a new *)
(* capable pin with a DAC (the single one when hardwired, else a free one) *)
(* and a path becomes multi_io[multi_ios], its path out_paths[line_outs +  *)
(* multi_ios]; a pin without either adds 1 to the badness.  The loop      *)
(* breaks once multi_ios reaches 2; the break leaves this type's loop      *)
(* only, so the next type may still add a pin.                             *)
(***************************************************************************)
RECURSIVE FillMultiGroup(_, _, _, _, _, _)
FillMultiGroup(cfg, acc, g, k, loc, hw) ==
    IF k > Len(g) THEN acc
    ELSE LET s == acc.s
             nid == g[k].pin
         IN
         IF ~CanBeMultiioPin(loc, nid) \/ \E j \in DOMAIN s.mio : s.mio[j].pin = nid
         THEN FillMultiGroup(cfg, acc, g, k + 1, loc, hw)
         ELSE
         Bind(IF hw THEN GetDacIfSingle(s.paths, nid) ELSE LookForDac(s.paths, nid), LAMBDA dac :
         Bind(IF dac = 0 THEN [store |-> s.paths, ret |-> 0]
              ELSE AddNewPath(s.paths, dac, nid, -MixerNid), LAMBDA p :
              IF p.ret = 0
              THEN FillMultiGroup(cfg, [acc EXCEPT !.bad = @ + 1], g, k + 1, loc, hw)
              ELSE Bind([s EXCEPT !.paths = p.store,
                                  !.mio = Append(@, [pin |-> nid, dac |-> dac]),
                                  !.pidx["out"][Len(cfg.line) + Len(s.mio) + 1] = p.ret],
                        LAMBDA s2 :
                        IF Len(s2.mio) >= 2 THEN [acc EXCEPT !.s = s2]
                        ELSE FillMultiGroup(cfg, [acc EXCEPT !.s = s2], g, k + 1, loc, hw))))

\* the ctls of the multi-io paths old+1..n
RECURSIVE AssignMioCtls(_, _, _, _)
AssignMioCtls(cfg, acc, i, n) ==
    IF i > n THEN acc
    ELSE Bind(AssignOutPathCtls(acc.s.paths, acc.s.pidx["out"][Len(cfg.line) + i]), LAMBDA a :
              AssignMioCtls(cfg, [s |-> [acc.s EXCEPT !.paths = a.store],
                                  ret |-> acc.ret + a.badness], i + 1, n))

(***************************************************************************)
(* fill_multi_ios(codec, ref, hardwired): the result is the state and the  *)
(* return value.  Hardwired, it returns 0 when it found a pin and 1 when   *)
(* not; otherwise the badness.  A non-hardwired fill that found only one   *)
(* pin is cancelled by dropping the last paths.used - old paths.           *)
(***************************************************************************)
FillMultiIos(cfg, s, ref, hw) ==
    LET old == Len(s.mio)
        loc == PinDef[ref].location
    IN  IF old >= 2 \/ CountMultiioPins(cfg, ref) < 2
        THEN [s |-> s, ret |-> IF hw THEN 1 ELSE 0]
        ELSE
        Bind(FillMultiGroup(cfg, [s |-> s, bad |-> 0], InputsOfType(cfg, AUTO_PIN_LINE_IN), 1, loc, hw),
             LAMBDA a1 :
        Bind(FillMultiGroup(cfg, a1, InputsOfType(cfg, AUTO_PIN_MIC), 1, loc, hw), LAMBDA a2 :
        LET b == IF a2.bad # 0 THEN BAD_MULTI_IO ELSE 0
            n == Len(a2.s.mio)
        IN  IF n = old THEN [s |-> a2.s, ret |-> IF hw THEN 1 ELSE b]
        ELSE IF ~hw /\ n < 2
        THEN [s |-> [a2.s EXCEPT !.paths = SubSeq(@, 1, Len(@) - (n - old)),
                                 !.mio = SubSeq(@, 1, old)],
              ret |-> b]
        ELSE AssignMioCtls(cfg, [s |-> a2.s, ret |-> b], old + 1, n)))

-----------------------------------------------------------------------------
\* check_aamix_out_path(): for the path of a handle that avoids the mixer,
\* an inactive twin through the mixer; the result is its handle or 0
CheckAamixOutPath(s, idx) ==
    IF ~ValidHandle(s.paths, idx) THEN [s |-> s, ret |-> 0]
    ELSE LET p == s.paths[idx] IN
         IF Depth(p) = 0 \/ IsNidContained(p, MixerNid) THEN [s |-> s, ret |-> 0]
         ELSE Bind(AddNewPath(s.paths, PathHead(p), PathTail(p), MixerNid), LAMBDA q :
              IF q.ret = 0 THEN [s |-> [s EXCEPT !.paths = q.store], ret |-> 0]
              ELSE [s |-> [s EXCEPT !.paths = [q.store EXCEPT ![q.ret].active = FALSE]],
                    ret |-> q.ret])

\* (mutant) the refill that copies path[depth - 1], the pin, for the DAC
RefillSharedDacsFromTail(s, r, n) ==
    [s EXCEPT !.dacs[r] = [k \in Slots |->
        IF k <= n /\ @[k] = 0 /\ ValidHandle(s.paths, s.pidx[r][k])
        THEN PathTail(s.paths[s.pidx[r][k]]) ELSE @[k]]]

\* refill_shared_dacs(): an empty DAC slot of the role takes the first
\* widget of the slot's path
RefillSharedDacs(s, r, n) ==
    [s EXCEPT !.dacs[r] = [k \in Slots |->
        IF k <= n /\ @[k] = 0 /\ ValidHandle(s.paths, s.pidx[r][k])
        THEN PathHead(s.paths[s.pidx[r][k]]) ELSE @[k]]]

\* the squash loop of fill_and_eval_dacs(): count the non-zero DACs of the
\* first n slots and memmove the rest down over each zero
RECURSIVE Squash(_, _, _, _)
Squash(d, n, i, cnt) ==
    IF i > n THEN [dacs |-> d, num |-> cnt]
    ELSE IF d[i] # 0 THEN Squash(d, n, i + 1, cnt + 1)
    ELSE Squash([k \in Slots |-> IF k < i \/ k > n THEN d[k]
                                ELSE IF k = n THEN 0 ELSE d[k + 1]], n, i + 1, cnt)

\* the do-while of fill_and_eval_dacs() over map_singles() of the three
\* roles and, multi-io first on a single line-out, a hardwired multi-io fill
RECURSIVE MapHardwired(_, _, _)
MapHardwired(cfg, s, mioFirst) ==
    LET tryMio == mioFirst /\ Len(cfg.line) = 1 /\ cfg.type # AUTO_PIN_SPEAKER_OUT IN
    Bind(MapSingles(cfg, s, "out"), LAMBDA o :
    Bind(MapSingles(cfg, o.s, "hp"), LAMBDA h :
    Bind(MapSingles(cfg, h.s, "spk"), LAMBDA k :
    Bind(IF tryMio THEN FillMultiIos(cfg, k.s, cfg.line[1], TRUE) ELSE [s |-> k.s, ret |-> 1],
         LAMBDA m :
         IF o.found \/ h.found \/ k.found \/ m.ret = 0
         THEN MapHardwired(cfg, m.s, mioFirst) ELSE m.s))))

(***************************************************************************)
(* fill_and_eval_dacs(codec, fill_hardwired, fill_mio_first): clear the    *)
(* tables and the store, map the hardwired DACs, assign the line-outs,     *)
(* the headphones and the speakers, fill multi-io, add the aamix twins,    *)
(* squash the line-out DACs, append the multi-io DACs and refill the       *)
(* shared HP and speaker DACs.  The result is the state and the badness.   *)
(***************************************************************************)
FillAndEvalDacs(cfg, wired, mioFirst) ==
    LET lo == Len(cfg.line)
        oneLine == lo = 1 /\ cfg.type # AUTO_PIN_SPEAKER_OUT
        s0 == [ClearedSpec EXCEPT !.num_dacs = lo]
    IN
    Bind(IF wired THEN MapHardwired(cfg, s0, mioFirst) ELSE s0, LAMBDA s1 :
    Bind(TryAssignDacs(cfg, s1, "out", MainOutBadness), LAMBDA o :
    Bind(IF mioFirst /\ oneLine THEN FillMultiIos(cfg, o.s, cfg.line[1], FALSE).s ELSE o.s,
         LAMBDA s2 :
    Bind(IF cfg.type # AUTO_PIN_HP_OUT THEN TryAssignDacs(cfg, s2, "hp", ExtraOutBadness)
         ELSE [s |-> s2, badness |-> 0], LAMBDA h :
    Bind(IF cfg.type # AUTO_PIN_SPEAKER_OUT THEN TryAssignDacs(cfg, h.s, "spk", ExtraOutBadness)
         ELSE [s |-> h.s, badness |-> 0], LAMBDA k :
    Bind(IF oneLine THEN FillMultiIos(cfg, k.s, cfg.line[1], FALSE) ELSE [s |-> k.s, ret |-> 0],
         LAMBDA m :
    Bind(IF MixerNid = 0 THEN m.s
         ELSE Bind(CheckAamixOutPath(m.s, m.s.pidx["out"][1]), LAMBDA a0 :
              Bind(IF cfg.type # AUTO_PIN_HP_OUT THEN CheckAamixOutPath(a0.s, a0.s.pidx["hp"][1])
                   ELSE [s |-> a0.s, ret |-> 0], LAMBDA a1 :
              Bind(IF cfg.type # AUTO_PIN_SPEAKER_OUT THEN CheckAamixOutPath(a1.s, a1.s.pidx["spk"][1])
                   ELSE [s |-> a1.s, ret |-> 0], LAMBDA a2 :
                   [a2.s EXCEPT !.aamix = <<a0.ret, a1.ret, a2.ret>>]))), LAMBDA x :
    Bind(IF Len(cfg.hp) > 0 /\ cfg.type = AUTO_PIN_SPEAKER_OUT
            /\ CountMultiioPins(cfg, cfg.hp[1]) >= 2 THEN 1 ELSE Len(x.mio), LAMBDA mc :
    Bind(Squash(x.dacs["out"], lo, 1, 0), LAMBDA sq :
    Bind(IF mc = 2
         THEN [x EXCEPT !.dacs["out"] = [sq.dacs EXCEPT ![sq.num + 1] = x.mio[1].dac,
                                                        ![sq.num + 2] = x.mio[2].dac],
                        !.num_dacs = sq.num + 2]
         ELSE [x EXCEPT !.dacs["out"] = sq.dacs, !.num_dacs = sq.num,
                        !.mio = IF mc # 0 THEN <<>> ELSE @], LAMBDA y :
    Bind(IF cfg.type # AUTO_PIN_HP_OUT THEN RefillSharedDacs(y, "hp", Len(cfg.hp)) ELSE y, LAMBDA z :
         [s |-> IF cfg.type # AUTO_PIN_SPEAKER_OUT THEN RefillSharedDacs(z, "spk", Len(cfg.spk)) ELSE z,
          badness |-> o.badness + h.badness + k.badness + m.ret
                      + (IF mc # 2 /\ mc # 0 THEN BAD_MULTI_IO ELSE 0)])))))))))))

-----------------------------------------------------------------------------
(***************************************************************************)
(* The input side of snd_hda_gen_parse_auto_config(): create_shared_input, *)
(* create_input_ctls() and check_dyn_adc_switch().  The capture state C is *)
(* a record: adc_nids and num_adc_nids, imux_pins and num_items (the       *)
(* input_mux), input_paths[item][column] and loopback (loopback_paths) as  *)
(* path handles, dyn_adc_switch, dyn_adc_idx[item] (a column),             *)
(* shared_mic_hp, and err for an error return.  Item i and ADC column c    *)
(* of C are positions i and c; C's index 0 is position 1.                  *)
(***************************************************************************)
MaxAdcs == MaxOuts      \* adc_nids[AUTO_CFG_MAX_OUTS]
MaxItems == 16          \* HDA_MAX_NUM_INPUTS
AdcCols == 1..MaxAdcs
Items == 1..MaxItems

\* no driver of this tree sets spec->add_stereo_mix_input or multi_cap_vol
AddStereoMixInput == FALSE
MultiCapVol == FALSE

NoCapture ==
    [adc_nids |-> [c \in AdcCols |-> 0], num_adc_nids |-> 0,
     imux_pins |-> [i \in Items |-> 0], num_items |-> 0,
     input_paths |-> [i \in Items |-> [c \in AdcCols |-> 0]],
     loopback |-> [i \in Items |-> 0],
     dyn_adc_switch |-> FALSE, dyn_adc_idx |-> [i \in Items |-> 1],
     shared_mic_hp |-> FALSE, err |-> FALSE]

\* is_input_pin(): the pin has AC_PINCAP_IN
IsInputPin(nid) == PinDef[nid].in

\* snd_hda_get_input_pin_attr() is INPUT_PIN_ATTR_INT for a fixed pin, one
\* whose jack is not port-complex
IsInternalInput(nid) == ~PinDef[nid].complex

\* fill_adc_nids(): the analog input converters in nid order, at most MaxAdcs
FillAdcNids(C) ==
    Bind({n \in Nodes : WType[n] = "AudIn" /\ n \notin DigitalWidgets}, LAMBDA A :
    Bind(IF Cardinality(A) < MaxAdcs THEN Cardinality(A) ELSE MaxAdcs, LAMBDA nums :
        [C EXCEPT !.adc_nids = [c \in AdcCols |->
                      IF c <= nums THEN CHOOSE n \in A : Cardinality({m \in A : m < n}) = c - 1
                      ELSE 0],
                  !.num_adc_nids = nums]))

\* create_shared_input(): a single internal input gets the lone HP (or HP
\* line-out) jack as a second, mic, input when that jack can take input
CreateSharedInput(c, C) ==
    Bind(IF Len(c.hp) = 1 /\ c.type = AUTO_PIN_SPEAKER_OUT THEN c.hp[1]
         ELSE IF Len(c.line) = 1 /\ c.type = AUTO_PIN_HP_OUT THEN c.line[1]
         ELSE 0, LAMBDA nid :
        IF /\ Len(c.inputs) = 1 /\ IsInternalInput(c.inputs[1].pin)
           /\ nid # 0 /\ IsInputPin(nid)
        THEN [cfg |-> [c EXCEPT !.inputs = Append(@, [pin |-> nid, type |-> AUTO_PIN_MIC])],
              cap |-> [C EXCEPT !.shared_mic_hp = TRUE]]
        ELSE [cfg |-> c, cap |-> C])

\* parse_capture_source() from ADC column c on: a path from the pin to each
\* ADC that it reaches goes to input_paths[item][c], and the pin becomes
\* imux item `item` (num_items at entry) with its first path.  s is
\* [paths, cap].
RECURSIVE CaptureFrom(_, _, _, _, _)
CaptureFrom(s, pin, anchor, item, c) ==
    IF c > s.cap.num_adc_nids THEN s
    ELSE CaptureFrom(
           Bind(AddNewPath(s.paths, pin, s.cap.adc_nids[c], anchor), LAMBDA r :
                IF r.ret = 0 THEN s
                ELSE [s EXCEPT !.paths = r.store,
                               !.cap.input_paths[item][c] = r.ret,
                               !.cap.imux_pins[item] = pin,
                               !.cap.num_items = item]),
           pin, anchor, item, c + 1)

ParseCaptureSource(s, pin, anchor) == CaptureFrom(s, pin, anchor, s.cap.num_items + 1, 1)

\* one input of create_input_ctls(): an input pin that reaches the mixer gets
\* its loopback path (new_analog_input(), an error when the mixer has an
\* input amp but no path comes), then its capture paths avoiding the mixer
InputCtls(s, pin, k) ==
    IF ~IsInputPin(pin) THEN s
    ELSE IF MixerNid # 0 /\ IsReachablePath(pin, MixerNid)
    THEN Bind(NewAnalogInput(s.paths, pin, MixerNid), LAMBDA l :
         IF l.ret = 0 /\ (NidHasVolume(MixerNid, HDA_INPUT) \/ NidHasMute(MixerNid, HDA_INPUT))
         THEN [s EXCEPT !.cap.err = TRUE]
         ELSE ParseCaptureSource([s EXCEPT !.paths = l.store, !.cap.loopback[k] = l.ret],
                                 pin, -MixerNid))
    ELSE ParseCaptureSource(s, pin, -MixerNid)

\* create_input_ctls() from input k on, stopping at an error
RECURSIVE InputsFrom(_, _, _)
InputsFrom(s, c, k) ==
    IF k > Len(c.inputs) \/ s.cap.err THEN s
    ELSE InputsFrom(InputCtls(s, c.inputs[k].pin, k), c, k + 1)

CreateInputCtls(s, c) ==
    Bind(InputsFrom([s EXCEPT !.cap = FillAdcNids(s.cap)], c, 1), LAMBDA t :
        IF ~t.cap.err /\ MixerNid # 0 /\ AddStereoMixInput
        THEN ParseCaptureSource(t, MixerNid, 0)
        ELSE t)

\* the ADC columns with a path for every imux item (ok_bits)
OkColumns(C) ==
    {n \in 1..C.num_adc_nids : \A i \in 1..C.num_items : C.input_paths[i][n] # 0}

\* the columns with a path for item i
ItemColumns(C, i) == {n \in 1..C.num_adc_nids : C.input_paths[i][n] # 0}

\* one move of the shrink loop: ADC column n goes to column m, after
\* invalidate_nid_path() on what column m held for each item
MoveColumn(s, n, m) ==
    [paths |-> Bind({s.cap.input_paths[i][m] : i \in 1..s.cap.num_items}, LAMBDA gone :
                   [k \in DOMAIN s.paths |-> IF k \in gone THEN EmptyPath ELSE s.paths[k]]),
     cap |-> [s.cap EXCEPT
                !.adc_nids[m] = s.cap.adc_nids[n],
                !.input_paths = [i \in Items |->
                    IF i <= s.cap.num_items
                    THEN [s.cap.input_paths[i] EXCEPT ![m] = s.cap.input_paths[i][n]]
                    ELSE s.cap.input_paths[i]]]]

\* the shrink loop of check_dyn_adc_switch() from column n on, nums
\* columns kept so far
RECURSIVE ShrinkFrom(_, _, _, _)
ShrinkFrom(s, ok, n, nums) ==
    IF n > s.cap.num_adc_nids THEN [s EXCEPT !.cap.num_adc_nids = nums]
    ELSE ShrinkFrom(IF n \in ok /\ n # nums + 1 THEN MoveColumn(s, n, nums + 1) ELSE s,
                    ok, n + 1, IF n \in ok THEN nums + 1 ELSE nums)

\* (mutant) ADC switching that leaves dyn_adc_idx at its reset value
EnableDynAdcSwitchNoIdx(C) == [C EXCEPT !.dyn_adc_switch = TRUE]

\* ADC switching: each item records the first column with a path for it
EnableDynAdcSwitch(C) ==
    [C EXCEPT !.dyn_adc_switch = TRUE,
              !.dyn_adc_idx = [i \in Items |->
                  IF i <= C.num_items /\ ItemColumns(C, i) # {}
                  THEN Least(ItemColumns(C, i)) ELSE C.dyn_adc_idx[i]]]

\* check_dyn_adc_switch(): keep the ADCs that reach every item, or switch
\* ADCs per item when none does (first dropping the shared HP mic item),
\* then reduce to one ADC for a single item or a shared mic/HP jack
RECURSIVE CheckDynAdcSwitch(_)
CheckDynAdcSwitch(s) ==
    Bind(OkColumns(s.cap), LAMBDA ok :
    IF ok = {} /\ s.cap.shared_mic_hp
    THEN CheckDynAdcSwitch([s EXCEPT !.cap.shared_mic_hp = FALSE, !.cap.num_items = 1])
    ELSE Bind(IF ok = {} THEN [s EXCEPT !.cap = EnableDynAdcSwitch(s.cap)]
              ELSE IF Cardinality(ok) # s.cap.num_adc_nids THEN ShrinkFrom(s, ok, 1, 0)
              ELSE s, LAMBDA t :
         [t EXCEPT !.cap.num_adc_nids =
             IF t.cap.num_items = 1 \/ t.cap.shared_mic_hp THEN 1
             ELSE IF ~t.cap.dyn_adc_switch /\ MultiCapVol THEN 1
             ELSE t.cap.num_adc_nids]))

\* get_input_path(): the handle capture on ADC column c uses for item i
GetInputPath(C, c, i) ==
    C.input_paths[i][IF C.dyn_adc_switch THEN C.dyn_adc_idx[i] ELSE c]
-----------------------------------------------------------------------------
(***************************************************************************)
(* parse_output_paths(): evaluate the hypotheses (hardwired first or not,  *)
(* multi-io first or not, then the same with the HP and speaker roles      *)
(* swapped), keep the first with the least badness, stop at a badness of  *)
(* 0, and re-evaluate the best one at the end.                             *)
(***************************************************************************)
VARIABLES
    cfg,        \* spec->autocfg, swapped in place by the search
    wired,      \* fill_hardwired
    mio,        \* fill_mio_first
    swapped,    \* hp_spk_swapped
    best,       \* best_badness, *best_cfg, best_wired, best_mio
    spec,       \* the parser's state S
    badness,    \* the badness of the last hypothesis
    vmaster,    \* spec->vmaster_nid
    pc,         \* "loop", "restore" (after the loop), "inputs" (returned)
                \* or "done" (the input side parsed)
    tried,      \* history: the hypotheses evaluated, in order, with badness
    cap         \* the capture state C

vars == <<cfg, wired, mio, swapped, best, spec, badness, vmaster, pc, tried, cap>>

\* the role swap of the loop: HP line-outs with speakers become speaker
\* line-outs with HPs, and back
SwapRoles(c) ==
    IF Len(c.spk) > 0 /\ c.type = AUTO_PIN_HP_OUT
    THEN [c EXCEPT !.hp = c.line, !.line = c.spk, !.spk = <<>>, !.type = AUTO_PIN_SPEAKER_OUT]
    ELSE [c EXCEPT !.spk = c.line, !.line = c.hp, !.hp = <<>>, !.type = AUTO_PIN_HP_OUT]

CanSwap(c) ==
    \/ Len(c.spk) > 0 /\ c.type = AUTO_PIN_HP_OUT
    \/ Len(c.hp) > 0 /\ c.type = AUTO_PIN_SPEAKER_OUT

\* snd_hda_gen_parse_auto_config(): speakers as line-outs give way to HP
\* jacks that are at least as many (no_primary_hp unset)
UseHpAsPrimary(c) ==
    IF c.type = AUTO_PIN_SPEAKER_OUT /\ Len(c.line) <= Len(c.hp)
    THEN [c EXCEPT !.spk = c.line, !.line = c.hp, !.hp = <<>>, !.type = AUTO_PIN_HP_OUT]
    ELSE c

\* parse_output_paths() is entered with the parsed pin configuration and
\* fill_all_dac_nids() done
Init ==
    /\ cfg \in {UseHpAsPrimary(c) : c \in PinConfigs}
    /\ wired = TRUE /\ mio = TRUE /\ swapped = FALSE
    /\ best = [badness |-> INT_MAX, cfg |-> cfg, wired |-> TRUE, mio |-> TRUE]
    /\ spec = ClearedSpec
    /\ badness = 0 /\ vmaster = 0
    /\ pc = "loop"
    /\ tried = <<>>
    /\ cap = NoCapture

\* (mutant) the loop that keeps the last of equally bad hypotheses
ParseOutputPathsIterationTiesLast ==
    /\ pc = "loop"
    /\ \E r \in {FillAndEvalDacs(cfg, wired, mio)} :
       /\ spec' = r.s
       /\ badness' = r.badness
       /\ best' = IF r.badness <= best.badness
                  THEN [badness |-> r.badness, cfg |-> cfg, wired |-> wired, mio |-> mio]
                  ELSE best
       /\ tried' = Append(tried, [cfg |-> cfg, wired |-> wired, mio |-> mio, badness |-> r.badness])
       /\ CASE r.badness = 0 ->
                 pc' = "restore" /\ UNCHANGED <<cfg, wired, mio, swapped>>
            [] mio ->
                 mio' = FALSE /\ UNCHANGED <<cfg, wired, swapped, pc>>
            [] wired ->
                 mio' = TRUE /\ wired' = FALSE /\ UNCHANGED <<cfg, swapped, pc>>
            [] swapped ->
                 mio' = TRUE /\ wired' = TRUE /\ pc' = "restore" /\ UNCHANGED <<cfg, swapped>>
            [] OTHER ->
                 /\ mio' = TRUE /\ wired' = TRUE /\ swapped' = TRUE
                 /\ IF CanSwap(cfg) THEN cfg' = SwapRoles(cfg) /\ pc' = "loop"
                    ELSE pc' = "restore" /\ UNCHANGED cfg
    /\ UNCHANGED <<vmaster, cap>>

\* one iteration of the for (;;) loop
ParseOutputPathsIteration ==
    /\ pc = "loop"
    /\ \E r \in {FillAndEvalDacs(cfg, wired, mio)} :
       /\ spec' = r.s
       /\ badness' = r.badness
       /\ best' = IF r.badness < best.badness
                  THEN [badness |-> r.badness, cfg |-> cfg, wired |-> wired, mio |-> mio]
                  ELSE best
       /\ tried' = Append(tried, [cfg |-> cfg, wired |-> wired, mio |-> mio, badness |-> r.badness])
       /\ CASE r.badness = 0 ->
                 pc' = "restore" /\ UNCHANGED <<cfg, wired, mio, swapped>>
            [] mio ->
                 mio' = FALSE /\ UNCHANGED <<cfg, wired, swapped, pc>>
            [] wired ->
                 mio' = TRUE /\ wired' = FALSE /\ UNCHANGED <<cfg, swapped, pc>>
            [] swapped ->
                 mio' = TRUE /\ wired' = TRUE /\ pc' = "restore" /\ UNCHANGED <<cfg, swapped>>
            [] OTHER ->
                 /\ mio' = TRUE /\ wired' = TRUE /\ swapped' = TRUE
                 /\ IF CanSwap(cfg) THEN cfg' = SwapRoles(cfg) /\ pc' = "loop"
                    ELSE pc' = "restore" /\ UNCHANGED cfg
    /\ UNCHANGED <<vmaster, cap>>

\* after the loop: restore the best hypothesis if the last was not perfect,
\* and take the master volume from the first line-out path
ParseOutputPathsFinish ==
    /\ pc = "restore"
    /\ \E s \in {IF badness # 0 THEN FillAndEvalDacs(best.cfg, best.wired, best.mio).s ELSE spec} :
       LET c == IF badness # 0 THEN best.cfg ELSE cfg
           h == s.pidx["out"][1]
       IN  /\ cfg' = c
           /\ spec' = s
           /\ vmaster' = IF Len(c.line) > 0 /\ ValidHandle(s.paths, h)
                         THEN LookForOutVolNid(s.paths[h]) ELSE vmaster
    /\ pc' = "inputs"
    /\ UNCHANGED <<wired, mio, swapped, best, badness, tried, cap>>

\* snd_hda_gen_parse_auto_config() after the output controls:
\* create_shared_input(), create_input_ctls() and, when that succeeds,
\* check_dyn_adc_switch()
ParseInputPaths ==
    /\ pc = "inputs"
    /\ \E sh \in {CreateSharedInput(cfg, cap)} :
       \E r \in {CreateInputCtls([paths |-> spec.paths, cap |-> sh.cap], sh.cfg)} :
       \E d \in {IF r.cap.err THEN r ELSE CheckDynAdcSwitch(r)} :
          /\ cfg' = sh.cfg
          /\ spec' = [spec EXCEPT !.paths = d.paths]
          /\ cap' = d.cap
    /\ pc' = "done"
    /\ UNCHANGED <<wired, mio, swapped, best, badness, vmaster, tried>>

Next == ParseOutputPathsIteration \/ ParseOutputPathsFinish \/ ParseInputPaths

Spec == Init /\ [][Next]_vars

-----------------------------------------------------------------------------
PinCfgType ==
    [type : {AUTO_PIN_LINE_OUT, AUTO_PIN_SPEAKER_OUT, AUTO_PIN_HP_OUT},
     line : Seq(Nodes), hp : Seq(Nodes), spk : Seq(Nodes),
     inputs : Seq([pin : Nodes, type : {AUTO_PIN_MIC, AUTO_PIN_LINE_IN}])]

TypeOK ==
    /\ cfg \in PinCfgType
    /\ wired \in BOOLEAN /\ mio \in BOOLEAN /\ swapped \in BOOLEAN
    /\ spec.dacs \in [Roles -> [Slots -> AllDacs \cup {0}]]
    \* a cancelled multi-io fill leaves out_paths[line_outs] past the store
    /\ spec.pidx \in [Roles -> [Slots -> Nat]]
    /\ spec.aamix \in [1..3 -> 0..Len(spec.paths)]
    /\ Len(spec.mio) <= 2
    /\ spec.num_dacs \in 0..MaxOuts
    /\ badness \in Nat /\ best.badness \in Nat
    /\ pc \in {"loop", "restore", "inputs", "done"}
    /\ DOMAIN cap.adc_nids = AdcCols /\ DOMAIN cap.input_paths = Items
    /\ DOMAIN cap.loopback = Items /\ DOMAIN cap.dyn_adc_idx = Items
    /\ \A c \in AdcCols : cap.adc_nids[c] = 0 \/ WType[cap.adc_nids[c]] = "AudIn"
    /\ cap.num_adc_nids \in 0..MaxAdcs /\ cap.num_items \in 0..MaxItems
    /\ \A i \in Items :
          /\ DOMAIN cap.input_paths[i] = AdcCols
          /\ \A c \in AdcCols : cap.input_paths[i][c] \in 0..Len(spec.paths)
          /\ cap.loopback[i] \in 0..Len(spec.paths)
          /\ cap.dyn_adc_idx[i] \in AdcCols
    /\ {cap.dyn_adc_switch, cap.shared_mic_hp, cap.err} \subseteq BOOLEAN
\* the position in tried of the first hypothesis of least badness
FirstBest ==
    CHOOSE k \in DOMAIN tried :
        /\ \A j \in DOMAIN tried : tried[k].badness <= tried[j].badness
        /\ \A j \in 1..(k - 1) : tried[j].badness > tried[k].badness

(* parse_output_paths(): when it returns, the pin configuration and the   *)
(* tables are those fill_and_eval_dacs() gives for the first hypothesis   *)
(* of least badness among all it tried, the HP/speaker swap included: the *)
(* bookkeeping of best_cfg / best_wired / best_mio across the flag flips, *)
(* the swap and the final restore neither loses it nor prefers a later    *)
(* tie.                                                                   *)
BestRestored ==
    pc = "inputs" =>
        LET t == tried[FirstBest] IN
        /\ cfg = t.cfg
        /\ spec = FillAndEvalDacs(t.cfg, t.wired, t.mio).s

(* The role tables after an evaluation: the path handle of every          *)
(* configured output pin is 0 or names an active path from a converter to *)
(* that pin, and an HP or speaker DAC slot with a path holds the converter *)
(* the path starts at (its own, or the one refill_shared_dacs() copies    *)
(* for a shared pin).  Steals of a surround DAC, multi-io fills that are  *)
(* cancelled by shrinking the store, and aamix twins appended to it must  *)
(* not leave a handle on another pin's path.                              *)
RoleTablesConsistent ==
    pc # "loop" =>
        \A r \in Roles : \A i \in DOMAIN RolePins(cfg, r) :
            LET h == spec.pidx[r][i] IN
            h # 0 => /\ ValidHandle(spec.paths, h)
                     /\ spec.paths[h].active
                     /\ PathTail(spec.paths[h]) = RolePins(cfg, r)[i]
                     /\ PathHead(spec.paths[h]) \in AllDacs
                     /\ r # "out" => spec.dacs[r][i] = PathHead(spec.paths[h])

(* The converters of the multiout stream, dac_nids[0..num_dacs-1] with    *)
(* the multi-io DACs appended, are distinct: a converter never carries   *)
(* two channel pairs, whatever the steals, shared pins and multi-io fills *)
(* of the evaluation did.                                                 *)
OutDacsDistinct ==
    pc # "loop" =>
        \A j, k \in 1..spec.num_dacs :
            j # k /\ spec.dacs["out"][j] # 0 => spec.dacs["out"][j] # spec.dacs["out"][k]

(* fill_and_eval_dacs() "re-count[s] num_dacs and squash[es] invalid      *)
(* entries": after it the first num_dacs entries of dac_nids, the ones    *)
(* the multiout stream uses, are all converters.                          *)
DacsSquashed ==
    pc # "loop" => \A k \in 1..spec.num_dacs : spec.dacs["out"][k] # 0

\* capture of imux item i on ADC column c goes through a stored path from the
\* item's pin to the ADC get_input_path() picks for it
RoutesItem(i, c) ==
    Bind(GetInputPath(cap, c, i), LAMBDA h :
        /\ ValidHandle(spec.paths, h)
        /\ PathHead(spec.paths[h]) = cap.imux_pins[i]
        /\ PathTail(spec.paths[h]) = cap.adc_nids[IF cap.dyn_adc_switch THEN cap.dyn_adc_idx[i] ELSE c])

(* check_dyn_adc_switch() with ADC switching: every imux item's            *)
(* dyn_adc_idx names an ADC that it reaches, and the path get_input_path() *)
(* returns for it (what mux_select() and dyn_adc_pcm_resetup() act on)     *)
(* still leads from the item's pin to that ADC after the shared mic/HP     *)
(* retry and the reduction to a single ADC.                                *)
DynAdcRoutes ==
    pc = "done" /\ cap.dyn_adc_switch =>
        \A i \in 1..cap.num_items : RoutesItem(i, 1)

(* The capture tables after check_dyn_adc_switch(): for every imux item   *)
(* and every ADC column capture still uses (all num_adc_nids of them, or  *)
(* the item's dyn_adc_idx), get_input_path() gives a live path from the   *)
(* item's pin to that ADC; the shrink that drops ADCs reaching only some  *)
(* items must move the kept paths down without destroying them.           *)
CaptureRoutable ==
    pc = "done" /\ ~cap.err =>
        \A i \in 1..cap.num_items : \A c \in 1..cap.num_adc_nids : RoutesItem(i, c)
====
