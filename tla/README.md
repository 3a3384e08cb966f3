# TLA+ models of the ALSA drivers in this repository

This directory holds TLA+ models of the drivers under `src/`, the TLC
configurations that check them, and `PROJECT.json`, which records:

- the components and how far each is modelled;
- the runs and what each one checks;
- the mutants;
- the map from every TLA+ definition to the source lines it translates;
- the findings;
- the hazards.

Run the checks from this directory:

    tlasany HdaRuntime.tla
    tlc -workers 2 -config MCHdaRuntime.cfg MCHdaRuntime

## 1. The system

The repository is a set of kernel sound drivers. The core, and most of this
project, is the HD-Audio generic parser `src/sound/pci/hda/hda_generic.c`.

| Part | Source | State | Operations | Why it is hard |
|---|---|---|---|---|
| Widget graph accessor | hda_generic.c 91-186, 373-448 | none (reads the codec graph) | is_reachable_path, check_amp_caps, has_amp_in/out | the recursive `snd_hda_get_conn_index()` bound |
| Path store + parser | 106-341 | `spec->paths` (array of `nid_path`), 1-based handles | add_new_path, parse_nid_path, invalidate, free | recursive DFS with anchors, a cache lookup before the parse, rollback on failure |
| Control builder | 790-833, 1938-1977, 2316-2352 | `path->ctls[]` | assign_out_path_ctls, parse_capvol_in_path, new_analog_input | shared amps (is_ctl_used / is_ctl_associated) |
| Converter assignment | 878-1476 | out/hp/speaker paths, dac tables, badness | try_assign_dacs, map_singles, fill_and_eval_dacs, parse_output_paths | multi-hypothesis search with rollback of `paths` |
| Input parse | 1880-2185, 3195-3220 | adc_nids, the input mux (imux_pins, num_items), input_paths[item][adc], loopback_paths, dyn_adc_switch / dyn_adc_idx, shared_mic_hp | create_shared_input, create_input_ctls, check_dyn_adc_switch | ADC columns shrunk in place while path handles are copied and invalidated; a retry that drops the shared mic/HP item |
| Path activation | 423-576 | `path->active`, amp cache, connect-selects | snd_hda_activate_path | paths sharing widgets; the order of flag and amp updates |
| Jack / mux runtime | 1786-1821, 2671-2930, 3809-4021 | cur_mux, aamix_mode, automute flags, jack-present flags, pin controls | init, hp/line automute, mic autoswitch, mux_select, control puts | events and control writes interleave; cached jack state |
| PCM callbacks | 3354-3651 | active_streams, indep_hp_enabled, cur_adc | open/close/prepare/cleanup, indep_hp_put, dyn_adc_pcm_resetup | pcm_mutex protocol, hooks on failure |
| SigmaTel patch | patch_sigmatel.c 320-348, 1498-2138, 2244-2472 | `dac_nids`, `hp_nid`, line_switch/mic_switch, hp_detect; pin controls, io_switch, clfe_swap, aloopback | auto-config parse, init, hp_detect, unsol event, resume, switch puts | shared line-in/mic jacks that are inputs and outputs; HP events vs switch writes vs suspend |
| EMU10K1 MPU-401 | emumpu401.c | midi_mode, substreams, UART state | input/output open/close, trigger, interrupt | interrupt vs close, shared UART |
| USB audio streaming | usbaudio.c 84-866, 965-1207 | `snd_usb_substream` (running, syncpipe, pointers, feedback rate, URB layout), each URB's owner, `transmask` | PCM open/hw_params/hw_free/prepare/trigger/close, URB completion handlers | PCM callbacks race interrupt-context completions; freeing URBs the host controller still owns |
| USB audio registry | usbaudio.c 1903-2105 | usb_chip[] slots, num_interfaces, register_mutex | probe, disconnect, free | error paths under the mutex |
| PC speaker | pcsp_lib.c 19-233, 264-312; pcsp_mixer.c 150-166 | playback_ptr, period_ptr, timer_active, playback_substream, the hrtimer | open, hw_params, hw_free, prepare, trigger, close, start-timer tasklet, timer callback, treble put | a callback that drops its locks part way; a timer stopped only by a flag; pointer arithmetic at the wrap |
| Tegra20 DAS | tegra20_das.c | the `das` singleton | probe, remove, connect_* | publication before initialisation |
| ISA PnP ids | pnp.c, isapnp_proc.c | none | from_hex/parse_id, isapnp_get_hex/parse_id | character classification |

These parts interact as follows:

1. The parser builds paths in the path store (`snd_hda_add_new_path`).
2. The converter assignment and the control builder then read and mutate the
   store.
3. At init, and after each later event, the runtime handlers switch paths on
   and off through the activation engine. The events are:
   - jack events, handled by the unsolicited-event work;
   - control writes, from user space;
   - resume, which runs init again.

In the USB driver the PCM core calls the process-context callbacks of a
substream one at a time, while the host controller completes URBs in
interrupt context at any point between them; the two sides share the
substream record and the `transmask` bits.

The SigmaTel patch does not use the generic parser: it parses the pin
configuration itself at probe, and at run time its own HP detection, run
from the same unsolicited-event work, switches the line-out and speaker
pins, while user space writes the "as Output" switches of the line-in and
mic jacks that the parse turned into extra line-outs.

In the PC-speaker driver the PCM core's callbacks, a tasklet and the
hrtimer callback share `playback_ptr`, `period_ptr` and `timer_active`.
The trigger cannot start the hrtimer under the stream lock, so it
schedules a tasklet that does; the callback re-arms itself while
`timer_active` is set, and nothing ever cancels it.

The other drivers are independent of each other.

## 2. Modules

| Module | Models | State (VARIABLES) and actions |
|---|---|---|
| `HdaGraph` | the widget graph accessor | constants only: `Nodes`, `WType`, `Conn`, `InAmp`, `OutAmp`; `GetConnIndex` is RECURSIVE |
| `HdaPath` | path store, parser, ctl assignment | operators on a store (a sequence of `nid_path` records) |
| `MCHdaPath` | the store under every call sequence | `store`, `last`; actions `AddPath(f,t,a)`, `Invalidate(i)`, `Free` |
| `HdaRuntime` | activation engine and runtime handlers | operators on one codec record (`paths`, `amp`, `sel`, `pinctl`, `cur_mux`, `aamix_mode`, automute and jack flags) |
| `MCHdaRuntime` | a laptop codec at run time | `codec`, `jack`, `unsol`, `inited`; actions `CodecInit`, `JackChange(p)`, `UnsolEvent(p)`, `ControlPut` (Input Source, Loopback Mixing, Auto-Mute Mode and Capture Switch writes; the Capture Switch put is `CapSwPut`, which sets every amp the switch's control owns) |
| `HdaPcm` | PCM callbacks, Independent HP, dynamic ADC switch, `mux_select()` under concurrency | `active_streams`, `indep_hp_enabled`, `hp_out_nid0`, `pcm`, `hook`, `cur_mux`, `in_active`, `cur_adc`, `running`, `cap`, `mux`; one action per locked callback, one per step of the unlocked ones |
| `MCHdaPcm` | a dual-ADC codec with an Independent HP DAC | constants only |
| `EmuMidi` | the EMU10K1 MPU-401 port (emumpu401.c) | `core` (the rawmidi core's view of each substream), `mode` (`midi_mode`), `sub` (`substream_input/_output` set), `uart`, `inte` (rx/tx interrupt enables), `pending` (bytes in the output buffer), `irq` (the interrupt handler's pc and last status), `fault`; actions `MidiOpen(d)`, `MidiClose(d)`, `MidiInputTrigger(up)`, `MidiOutputTriggerDown`, `MidiOutputWrite`, and `IrqEntry`, `IrqRxTest`, `IrqRxUse`, `IrqTxTest`, `IrqTxUse` for the steps of the interrupt |
| `HdaAssign` | the converter assignment engine | operators on the parser state (`paths`, `dacs[r]` and `pidx[r]` for r = out/hp/spk, `aamix`, `mio`, `num_dacs`); `cfg`, `wired`, `mio`, `swapped`, `best`, `spec`, `badness`, `vmaster`, `pc`, the history `tried`, and the capture state `cap` (adc_nids, imux, input_paths, loopback, dyn_adc_switch / dyn_adc_idx, shared_mic_hp, err); actions `ParseOutputPathsIteration`, `ParseOutputPathsFinish`, `ParseInputPaths` |
| `UsbStream` | one PCM substream of the USB audio driver (usbaudio.c) | `dir`, `pcm` (the PCM core's state), `hw` (period, buffer, chosen format entry), `dma` (buffer allocated), `subs` (the `snd_usb_substream` fields), `urb` (none/idle/flight per URB), `xfer` (`ctx->transfer`), `mask` (`transmask`), `irq` (a completion between its resubmit and its `set_bit`), `ghosts` (URBs freed in flight), `app` (the process-context caller's pc, wait ticks and pending submits), `fault`; actions `PcmOpen`, `HwParams` (only setups the open-time constraints `HwAllows` admit: period and buffer byte limits, integral periods, 2..1024 periods, a period at least `MIN_PACKS_URB` ms), `HwFree`, `PcmPrepare`, `WaitPoll`, `WaitDone`, `TriggerStart`, `StartSubmit`, `StartSetBit`, `TriggerStop`, `PcmClose`, and `CompleteUrb(sl)`, `CompleteSetBit`, `CompleteFreed(sl)` in interrupt context |
| `MCUsbStream` | a 4-channel 16-bit stream at 8 kHz | constants only: the format entries, setups, feedback values and capture packet lengths |
| `Stac92xx` | the STAC92xx auto-config parse and runtime (patch_sigmatel.c) | the parse as operators (`AddDynOutPins`, RECURSIVE `FillDacNids`, `MultiOutCtls`, `HpCtls`, `AnalogInputCtls`, `ParseAutoConfig`); `codec`, `spec`, `pinctl`, `jack`, `pending`, `unsol_en`, `io_switch`, `clfe_swap`, `aloopback`, `power`, `gpio`, `phase`; actions `CodecInit`, `JackChange(p)`, `UnsolEvent(p)`, `Suspend`, `Resume`, `IoSwitchPut(idx, val)`, `ClfeSwitchPut(val)`, `AloopbackPut(val)` |
| `MCStac92xx` | a desktop 3-stack and a laptop STAC92xx board | constants only: the two codec records |
| `MidiPort` | what the MPU-401 port promises the rawmidi core | `open`, `uart`, `enabled`, `queue`; actions `AOpen(d)`, `AClose(d)`, `AListen(up)`, `ADrop`, `AWrite`, `ASend`, `ATxIdle`; `EmuMidi` is checked to implement it |
| `Pcsp` | the PC-speaker PCM driver (pcsp_lib.c) and its BaseFRQ control | `pcm` (the PCM core's state), `sub` (`playback_substream` set), `active` (`timer_active`), `hw`, `ptr` (`playback_ptr`), `pptr` (`period_ptr`), `treble`, `timer` (queued, running), `tasklet`, `cb` (the callback's step and locals), `sig` (period interrupts, mod 2), `overrun`; actions `PcspOpen`, `PcspClose`, `PcspHwParams`, `PcspHwFree`, `PcspPrepare`, `PcspTriggerStart`, `PcspTriggerStop`, `TreblePut(t)`, `StartTimerTasklet`, and `TimerCallback`, `CallbackElapsed`, `CallbackRestart` for the three lock sections of `pcsp_do_timer()` |
| `MCPcsp` | two buffer layouts, U8 and S16 | constants only |
| `MCHdaAssign` | a desktop codec with four DACs, three ADCs, a mixer, two selectors and ten pins | constants only: the graph and every pin configuration the BIOS parser can give over it |

### How each module follows the code

- **Handler bodies are composed operators.** Each handler is one operator
  from codec state to codec state. A handler that calls others is their
  composition; for example `GenInit` composes `InitOutputs`,
  `InitAnalogInput`, `InitInputSrc`, `HpAutomute`, `LineAutomute` and
  `MicAutoswitch`. So every model step is a whole handler, including every
  state-changing call it makes.
- **Node ids are integers.** This lets a negative anchor and its cast to
  `hda_nid_t` (`U16`) be modelled as written.
- **The amp cache holds "none", "off" or "on".** "none" means
  `snd_hda_codec_amp_init()` has not touched the amp yet. Exact gain values
  are abstracted away.
- **The runtime model's paths come from the parser's own calls.**
  `MCHdaRuntime` builds them by calling the same `HdaPath` operators that the
  parser calls (`AddNewPath`, `AssignOutPathCtls`, `NewAnalogInput`,
  `ParseCapvolInPath`), in the parser's order. So the runtime runs over the
  paths the code would really build.
- **The parsed paths are also written out as literals.** `MCHdaRuntime`
  writes the parsed paths and handles out literally (`RtPathsLit`,
  `RtOutPaths`, ...). An `ASSUME ParsedAsWritten` then checks that the
  parser's own calls produce exactly these values, so the literals cannot
  drift from the parse. TLC evaluates the literals once, and not the parse
  on every reference.
- **`Eval(c0, LAMBDA c : ...)` binds the codec record before a handler body
  uses it.** A composed handler reads its input state many times. Binding it
  to one value keeps TLC from re-evaluating the chain of earlier handlers.
  It does not change what the operator means.

- **`HdaPcm` splits the unlocked handlers into steps.** The callbacks that
  hold `pcm_mutex` for their whole body are one action each:
  - `playback_pcm_open`/`close`;
  - `alt_playback_pcm_open`/`close`;
  - `indep_hp_put`.

  The callbacks that take no lock are split where they read or write shared
  state. These are `dyn_adc_capture_pcm_prepare`/`cleanup` and
  `mux_select()`; each sleeps in verb writes between its steps.
  - `mux_select()` has four steps: check and deactivate, store `cur_mux`,
    `dyn_adc_pcm_resetup()`, activate.
  - Prepare has two steps: read `cur_mux`, then store `cur_adc` and set it
    up.
  - Cleanup has two steps: tear down `cur_adc`, then zero it.

  `mux_select()` is called by the Input Source put. The control core holds
  `controls_rwsem` only for reading around a put, so two writes of the
  control (`MuxActors`) can run it at once. They share no lock with each
  other or with the PCM callbacks. The mic auto-switch, its other caller,
  exists only when the Input Source control does not
  (hda_generic.c 2513, 2845). The constant `Serialized` restricts the schedule so
  that a handler starts only when none is under way. This separates what
  the handlers do from how they interleave.

- **`EmuMidi` splits the interrupt handler at its unlocked reads.**
  `do_emu10k1_midi_interrupt()` releases `input_lock` before it tests
  `substream_input` and calls `snd_rawmidi_receive()` with it, and
  close clears the field holding only `open_lock`. So the test and the use
  are separate steps, and a close may run between them. The open, close and
  trigger callbacks hold `open_lock` or `output_lock` for their bodies and are
  one action each. The rawmidi core serializes open and close of a
  substream (`open_mutex`), which `core` records. A use after the field was
  cleared is a nondeterministic choice between the NULL the test saw and
  the reloaded value; either sets `fault`. `MidiOutputWrite` is the core's
  write followed by `output_trigger(1)`: a burst of up to 4 bytes that stops
  at a busy UART (`\E r \in 0..TxBurst`) and then enables tx.
  `MidiOutputTriggerDown` is the core's drop, which empties the buffer.

- **`HdaAssign` evaluates a hypothesis in one step.** `fill_and_eval_dacs()`
  and the helpers it calls are pure operators on the parser state; each
  iteration of `parse_output_paths()`'s `for (;;)` is one action, which
  evaluates the hypothesis, updates the best one and flips the flags or
  swaps the HP and speaker roles exactly as the loop does. The final
  restore and re-evaluation is the second action. The parser is
  single-threaded, so its only nondeterminism is the pin configuration.
  `tried` is a history variable (no code state) that the properties read.
  The C loops that stop early are RECURSIVE operators that stop at the same
  point; the squash loop keeps its `memmove` and its `i++` after it.
  `Init` applies the HP-as-primary swap of `snd_hda_gen_parse_auto_config()`
  to each configuration. `fill_all_dac_nids()` is the set of converters,
  searched in nid order.
  After the output side returns (`pc = "inputs"`), `ParseInputPaths` is the
  input part of `snd_hda_gen_parse_auto_config()` as one step:
  `create_shared_input()`, `create_input_ctls()` (with `fill_adc_nids()`,
  `new_analog_input()` and `parse_capture_source()` on the same path
  store), and `check_dyn_adc_switch()` unless that failed. The
  auto-mute check between them writes no state this module has. The
  shrink loop is `ShrinkFrom`, one `MoveColumn` per kept column that is
  not in place. Each move invalidates what the target column held before
  copying, as the code does. The `goto again` of the shared mic/HP retry
  is a recursive call. A fixed (not port-complex) pin stands for
  `INPUT_PIN_ATTR_INT`. Control names and kcontrols are left out.
  Every intermediate result used more than once is bound with `Bind` (in
  the operators) or `\E r \in {...}` (in the actions), never with a LET
  definition. With coverage on, TLC expands each reference to a LET
  definition into a fresh copy of its body. The nested LETs of
  `fill_multi_ios()` and `map_singles()` then grow exponentially before
  the first state is explored. `Bind` keeps the expansion linear, and the
  value is the same.

- **`UsbStream` splits each side at the steps where they share state.**
  - A completion (`snd_complete_urb()` / `snd_complete_sync_urb()`) is
    `CompleteUrb(sl)`: it clears the URB's `transmask` bit, retires the
    URB with the direction's `retire` callback and, while `running`,
    prepares and resubmits it. Its `set_bit` is a second step,
    `CompleteSetBit`, because a process-context caller can run between the
    two. A failed resubmit calls `snd_pcm_stop()` as in the code.
  - `start_urbs()` prepares every data URB in the trigger step
    (`TriggerStart`), then submits and sets the bit of each URB in two
    steps (`StartSubmit`, `StartSetBit`), so a completion can run before
    its bit is set.
  - `snd_usb_pcm_prepare()` is `PcmPrepare` (set_format, then
    `release_substream_urbs()`'s deactivate) followed by the polling loop of
    `wait_clear_urbs()` (`WaitPoll`, one tick per step) and `WaitDone`,
    which frees the URBs and runs the rest of `init_substream_urbs()`.
    `snd_usb_pcm_close()` shares the same wait.
  - The PCM core's own rules are guards: callbacks run one at a time, and
    `pcm` follows its state (`open`, `setup`, `prepared`, `running`,
    `xrun`).
  - Data are offsets and lengths, never bytes. The prepare/retire callbacks
    keep their arithmetic: the feedback phase of
    `prepare_playback_urb()` (a RECURSIVE `PacketCounts`), the wrap of
    `hwptr` and `hwptr_done`, the sync rate check of
    `retire_playback_sync_urb()`, and the URB layout of
    `init_substream_urbs()`.
  - Memory misuse is a state, not an abort: `fault` records the first of
    a free of an in-flight URB (`urb`), a copy into a freed DMA buffer
    (`dma`), a copy past its end (`dma_bounds`) and an overrun of
    `tmpbuf` or of a capture URB buffer. `ghosts` holds the URBs freed
    while the host controller owns them, and `CompleteFreed(sl)` is their
    late completion.
  - Faults the code handles are inputs of the cfg (`Faults`): a failed
    allocation (`alloc`), a failed submit (`submit`), a failed
    `usb_set_interface()` (`io`), and a device that never completes an
    unlinked URB (`stall`).

`Stac92xx` follows patch_sigmatel.c as follows.
  - A codec is a record of what the driver reads from the hardware and from
    `snd_hda_parse_pin_def_config()` (in the HDA core): the analog DACs, the
    connection lists, the pins with unsolicited-response and VREF
    capabilities, the DACs that can swap, and the pin lists by role.
  - The parse is the call chain of `stac92xx_parse_auto_config()` as
    operators on one `spec` record, run once in `Init` (the probe);
    `dac_nids` is a sequence, the connect-selects it writes are `conn_sel`,
    and the labels of the controls are left out: `ctls` holds which
    switches with a put of this driver exist.
  - A pin control is the set of its enable bits (`in`, `out`, `hp`,
    `vref`). The driver writes pin controls through the command cache,
    which `stac92xx_resume()` replays, so one map stands for the cache
    and the hardware; the BIOS value at probe is any of `BiosPinctl`.
  - `Suspend` is the system suspend: the powered-off codec reports no jack
    changes, and the events still queued are dropped. The HDA core calls
    `stac92xx_resume()` instead of init on resume, which is `Resume`.
  - The mux puts are left out: they call `snd_hda_input_mux_put()` of the
    HDA core and change no state this driver reads.

`EmuMidi` implements `MidiPort`.
  - The refinement mapping takes `open` to the substreams the rawmidi
    core has open, and `uart`, `enabled` and `queue` to `uart`, `inte`
    and `pending`. The interrupt's test steps, `mode` and `sub` are
    hidden.
  - `MidiPortRefined`, the abstract `ASpec` with its weak fairness of
    `ASend`, is a PROPERTY of the emumidi run under `FairSpec`. So every
    EmuMidi step is an abstract step or a stutter: no step disarms the
    transmitter while bytes wait, and no byte leaves except by a send,
    a drop or a close.

`Pcsp` follows pcsp_lib.c as follows.
  - `pcsp_do_timer()` is three actions, cut where it drops a lock:
    - `TimerCallback` runs lines 56-111 under `substream_lock` and the
      stream lock: the early exits, the sample read, the pointer step, the
      period count and the wrap;
    - `CallbackElapsed` runs lines 113-119 under `substream_lock` only,
      with the period and buffer sizes read in the first step (`cb.pb`,
      `cb.bb`);
    - `CallbackRestart` runs lines 121-125 with no lock.
  - Trigger holds the stream lock and close takes `substream_lock`, so
    they cannot fall inside the first step; close also waits out the
    second (`cb.pc # "elapsed"`). hw_params, hw_free and prepare run in
    process context with no driver lock and can.
  - The hrtimer is `[queued, running]`. `hrtimer_start()` from the tasklet
    queues it even while its callback runs, and a callback returning
    HRTIMER_RESTART leaves it queued.
  - The PCM core's state machine (`pcm`) is written as the guards of the
    callbacks; trigger start and stop are `pcsp_start_playing()` and
    `pcsp_stop_playing()`. Resume and suspend do the same.
  - Sizes are bytes. The sample value, the PIT writes and `val61` are left
    out. A read past the buffer is the flag `overrun`, not an abort.
  - `periods_elapsed /= period_bytes` divides an int by a size_t, so a
    negative count is converted to size_t first. For the power-of-two
    periods the hardware info allows, the result cut back to int is the
    floor of the quotient, which is TLA+'s `\div`.

### Components left without a module

The USB card registry, the Tegra20 DAS and the ISA PnP parsers have no
module; section 4 says why.

## 3. Runs

| Run | cfg | Expect | What it shows |
|---|---|---|---|
| path_store | MCHdaPath.cfg | pass | Every sequence of add/invalidate/free keeps only graph walks with correct idx/multi in the store. add_new_path() returns a path exactly when one is cached or a walk exists; it appends only on a cache miss (TypeOK, StoredPathsAreWalks, AddNewPathSoundAndComplete). |
| runtime | MCHdaRuntime.cfg | pass | With auto-mic on or suppressed by the codec driver (Init chooses), the capture path stays exclusive, active selectors route their paths, and with no event pending, the speaker and the auto-mic input follow the jacks. Without auto-mic, Input Source writes (out-of-range values included, which `mux_select()` clamps) keep `cur_mux` in range. Plugging the HP with auto-mute on eventually mutes the speaker. An amp that a mixer control owns changes value only through a put of that control: no path (de)activation overwrites it (TypeOK, MuxExclusive, ActiveSelectorsRoute, QuiescentOutputsFollowJacks, HpPlugMutesSpeaker, OwnedAmpsFollowControls). |
| pcm | MCHdaPcm.cfg | pass | With serialized callers, the HP DAC has one owner: `hp_out_nid[0]` is 0 exactly when Independent HP is on, including whenever the alt stream is open. With no handler under way, the running ADC is the selected input's while the stream is prepared, none otherwise (TypeOK, HpDacSingleOwner, ConverterFollowsMux). Capture-path exclusivity is checked by the runtime run; with serialized callers the split `mux_select()` runs as one step, so this run would repeat it. |
| pcm_mux_race | MCHdaPcmMuxRace.cfg | violation | Two writes of Input Source interleave inside `mux_select()`; both capture paths end up active. |
| emumidi | EmuMidi.cfg | pass | Every interleaving of opens, closes, triggers, writes and interrupt steps keeps the MPU in UART mode while a substream is open (the shared reset in close), and no interrupt source stays enabled for a closed substream. Under `FairSpec`, bytes queued on an open output are eventually transmitted, even when the trigger's burst stops at a busy UART (TypeOK, UartModeWhileOpen, EnabledOnlyWhileOpen, TxDrains). The driver implements the abstract port `MidiPort` (MidiPortRefined). |
| emumidi_stale | EmuMidiStale.cfg | violation | An input close between the interrupt's test of `substream_input` and its use hands NULL to `snd_rawmidi_receive()` (emumpu401.c line 49). |
| assign | MCHdaAssign.cfg | pass | For each of the 210 pin configurations, `parse_output_paths()` ends with the tables of the first hypothesis of least badness (the role swap included, BestRestored); every configured output's handle names an active path from a converter to that pin, and the HP/speaker DAC slots hold their path's converter, also after the input side has added and invalidated capture paths (RoleTablesConsistent); no converter appears twice in the multiout DAC list (OutDacsDistinct). With ADC switching, each input item's ADC column holds a live path from its pin to that ADC (DynAdcRoutes). |
| usb_stream | MCUsbStream.cfg | pass | Every interleaving of the PCM callbacks with data and sync URB completions, failed submits, a failed `set_interface` and failed allocations keeps a running substream's `hwptr_done` inside the buffer and `hwptr` at most its size (PointerInBuffer). Under `FairSpec`, once `running` is cleared every URB eventually completes without resubmission and no completion is left half-done (StopDrains). Also TypeOK, which bounds the wait. |
| usb_memory | MCUsbStreamMem.cfg | violation | Two 7-frame capture packets into a 16-frame buffer: `retire_capture_urb()` copies the second to `hwptr_done` (already 14) instead of `oldptr` (7), writing frames 14..20 of a 16-frame buffer (line 305). |
| stac | MCStac92xx.cfg | pass | For both boards and every BIOS pin state, the DAC table the parse builds gives each kept line-out a DAC it connects to, with no DAC twice and the HP DAC apart (DacTableSound). Under every interleaving of HP plugs and pulls, HP events, suspend/resume and switch writes: a line-in or mic jack with an "as Output" switch is an input exactly while the switch is off (SharedJackFollowsSwitch); with no event pending the other line-outs and speakers drive their outputs exactly when no headphone is plugged (QuiescentOutputsFollowHp); an HP plug eventually silences them (HpPlugMutesOutputs). Also TypeOK, which bounds the loopback's power references. |
| pcsp | MCPcsp.cfg | pass | Every interleaving of the PCM callbacks, BaseFRQ writes, the tasklet and the callback's three lock sections keeps the sample read inside the DMA buffer (ReadInBuffer). A running stream keeps getting period interrupts (PeriodsElapse). Once `timer_active` is clear, the timer stops re-arming, with no callback or tasklet left (TimerStopsWithStream). Also TypeOK. |
| pcsp_resize | MCPcspResize.cfg | violation | A callback counts one period of a 16-byte buffer and drops the stream lock; trigger stop, hw_params to a 32-byte buffer with 16-byte periods, prepare and trigger start follow before it adds 8 to `period_ptr`. The stream then runs with `period_ptr` 8, off its period grid (line 115). |

### Bounds

- **`MCHdaPath`:**
  - The graph has 11 widgets: two DACs, a mixer, four selectors, three pins
    and an ADC.
  - `MaxDepth` is 3, so the loopback walk through selector 15 needs
    MaxDepth + 1 widgets. The store therefore holds paths one widget longer
    than spec.md's `depth <= MAX_DEPTH`; the parser's bound is
    `depth >= MAX_NID_PATH_DEPTH` at each recursion level, and
    `snd_hda_parse_nid_path()` then appends the target. Whether that
    overruns `struct nid_path` depends on hda_generic.h, which is not in
    this tree.
  - The requests cover every kind of source (fixed DAC, pin, wildcard 0) and
    every kind of anchor (none, positive, negative).
  - `MaxPaths` is 2. That is enough for a cached hit, a miss with rollback,
    and a parse that must skip a DAC already in use.
- **`MCHdaRuntime`:**
  - There is one output DAC shared by speaker and HP through selector 12.
  - The speaker also has a mixer path for Loopback Mixing.
  - Two mics feed both the mixer and the input selector 14.
  - Two jacks are detectable: the HP (21) and the mic (24).
  - Auto-mic is on or suppressed; without it the Input Source control
    writes every item and the out-of-range value 2.
  - Every handler of the model is reached; the run's state graph is
    exhausted with no bound.

- **`MCHdaAssign`:**
  - Four DACs (2-5), the mixer 11 (fed by DACs 2, 3 and the mic jack),
    selector 12 (DAC 2 or 3) and nine jacks: line-outs 20 (DAC 2 or the
    mixer), 21 and 22 (DAC 2 only), 23 (DAC 3), the HP 24 (selector or
    mixer), the speaker 25 (DAC 4), and rear input jacks 26 (DAC 3 or 4),
    27 (DAC 4) and 28 (DAC 5) that can output.
  - Capture: ADC 8 takes line-in 28 or the HP jack 24; ADCs 9 and 10 share
    selector 13 over 26, 27 and the fixed internal mic 29, which cannot
    output. The HP jack can take input.
  - The configurations are all combinations of six line-out groups (none,
    front, 4.0, 5.1, the selector jack as front, 7.1), three HP choices,
    three speaker choices (none, one, two) and five input sets (none, the rear mic, the internal mic 29, mic with one or two line-ins), with distinct pins and at
    least one output, as `snd_hda_parse_pin_defcfg()` turns them into line,
    speaker or HP types. Between them they reach:
    - DACs shared at every position;
    - the steal of a surround DAC for the front;
    - hardwired and free multi-io, and a cancelled one;
    - three multi-io candidates;
    - the HP/speaker swap in both directions;
    - perfect configurations that stop the loop early;
    - on the input side, all ADCs kept (no input item), the shrink to
      ADCs 9 and 10 (inputs on selector 13 only), ADC switching (line-in
      28 with the others), and the shared mic/HP jack added and then
      dropped by the retry (internal mic with the lone HP jack 24).
  - The run explores 1,266 states from 210 configurations, all hypotheses of all of them.

- **`MCHdaPcm`:**
  - There are two imux items, each routed only to its own ADC (8 and 9), so
    every mux change swaps the converter.
  - There are two callers of `mux_select()`, the smallest number that can
    race.
  - Put values include 2, which the code clamps.
  - `HookBound` is 2. It lets a refused alt open be followed by a
    successful one.
  - The serialized run explores 4,320 states.

- **`EmuMidi`:**
  - `MaxPending` is 4, and `TxBurst` is 4 as in the code's `max = 4`, so
    a write can fill a burst, stop early or be refused at a busy UART.
  - Both directions are modelled, which is all the sharing of the UART
    there is.

- **`MCUsbStream`:**
  - One substream, playback or capture (`Init` chooses), of a 4-channel
    16-bit device at 8 kHz: 8-byte frames, 8 frames per 1 ms packet.
  - One setup: a period of 8 frames and a buffer of two periods. The layout
    of `init_substream_urbs()` then gives two data URBs of one packet each,
    plus two sync URBs for the asynchronous playback endpoint. Two URBs are
    the fewest that can complete in either order, and a two-period buffer
    makes `hwptr_done` wrap.
  - A period at least as long as a URB is needed: with a shorter one,
    `transfer_done` grows without bound (see the hazards) and so does the
    state space.
  - The sync pipe reports the nominal rate or one the driver rejects; a
    capture packet holds 0, 7 or 8 frames, so short and lost packets move
    the pointer off the period grid.
  - `WaitTicks` is 1: one poll of `wait_clear_urbs()` before it gives up,
    enough for a completion to land inside the wait and for the timeout
    to happen.
  - The pass run uses one format per direction and no stall; the memory
    run adds a FILL_MAX endpoint, an asynchronous endpoint with a bad sync
    descriptor, and a host controller that may never return an unlinked
    URB (`stall`).
  - The pass run explores about 816,000 distinct states in about two
    minutes.

- **`MCStac92xx`:**
  - The desktop board has two HP jacks, so HP detection must look at both.
    Its line-in and mic become surround and center/LFE outputs, so both
    switches and the Center/LFE swap exist.
  - The laptop board's mic jack connects only to the front DAC. The parse
    adds it as a line-out and then cuts it again, but keeps `mic_switch`.
    The board also has a speaker that shares the HP DAC, and GPIO mute.
  - `BiosPinctl` is no control, input only, or output only, for each pin,
    which covers both branches of the shared-input test at the first HP
    event.
  - The switch writes take the values 0 and 1 that the controls' info
    declares.
  - The run explores about 2,000 distinct states in seconds.

- **`MCPcsp`:**
  - Two layouts: a 16-byte buffer of two 8-byte periods and a 32-byte
    buffer of two 16-byte periods. hw_params can switch between them,
    which is what the stale period count needs.
  - The sizes are scaled down from the hardware info (periods of at least
    64 bytes, at least 2 periods). An ASSUME keeps the property that
    matters: the largest step, `PCSP_INDEX_INC()` times the sample size,
    is smaller than a period. So a callback crosses at most one period
    boundary.
  - U8 and S16 samples (1 and 2 bytes), and `MaxTreble` 1: two BaseFRQ
    items with steps of 2 and 1 samples. A step of 4 bytes, 2, or 1 is
    reached, and a BaseFRQ write mid-stream changes the step.
  - The run explores about 27,700 distinct states in seconds.

### Fairness

`Pcsp`'s `Spec` assumes weak fairness of the tasklet, of the timer
callback's first step and of its two later steps:
- the kernel runs a scheduled tasklet;
- it fires a queued hrtimer;
- a callback that has started runs to its end.

The PCM callbacks and the BaseFRQ writes are user actions and get no
fairness.

`EmuMidi`'s `FairSpec` (the emumidi run) assumes weak fairness of each interrupt step (a
handler that started runs to its end; the chip raises the interrupt while
an enabled source is pending) and strong fairness of the UART being ready
at the tx test (the transmitter is busy only while it shifts a byte out).
Opens, closes, writes and triggers are user actions and get no fairness.

`UsbStream`'s `FairSpec` (the usb_stream run) assumes weak fairness of
`Interrupt`, the disjunction of the completion steps: the host controller
completes every submitted or unlinked URB and the completion handler runs
to its end. It is one fairness condition for all URBs, because the
property is about all of them draining. The PCM callbacks are user
actions and get no fairness. `TimedOut` lets `wait_clear_urbs()` give up
only when no counted URB is in flight or the cfg allows a stall, which
stands for a host controller that returns unlinked URBs within a jiffy.

`HdaPcm` checks safety only and assumes no fairness. Elsewhere (`MCHdaRuntime`, `Stac92xx`), the only fairness is weak fairness of `UnsolEvent(p)` for each pin with a
registered callback. This is justified because the codec queues each
unsolicited response on a workqueue, which runs every queued item. Control
writes, jack changes, init, suspend and resume are user or hardware
actions, so they get no fairness.

## 4. Not modelled, and why

- **The digital-out and alt-capture PCM callbacks.** They only forward to
  the stream helpers of hda_codec.c. A failing
  `snd_hda_multi_out_analog_open()` changes no modelled state.

- **Register I/O and verb formatting.** Amp values are "on"/"off"/"none";
  pin controls are symbolic.
- **Control names and kcontrol creation.** These are strings with no
  behaviour.
- **`snd_hda_get_conn_index()`.** It lives in hda_codec.c and is modelled
  from the spec.
- **The MPU command handshake and the Audigy second port.** `midi_cmd()`
  waits for the ack with a bounded busy loop; the model keeps only its
  effect on the UART mode. The second port runs the same code on other
  registers.
- **What the converter assignment chooses, beyond its own bookkeeping.**
  Two behaviours reached by `MCHdaAssign` are recorded, not checked.
  - With two LINE_IN jacks and a MIC jack that can output,
    `fill_multi_ios()` takes a third pin: its `break` at two leaves only the
    inner loop. `fill_and_eval_dacs()` then drops multi-io
    (`multi_ios != 2`) on every hypothesis, although two pins had
    converters.
  - spec.md Scenario A (5.1 with the CLFE jack on the front DAC) expects
    badness `BAD_SHARED_CLFE`; the code also adds `BAD_SHARED_VOL`, since the
    shared path's only volume is the DAC's, which the front already owns.
  spec.md states neither choice as a property.
- **Digital outputs and `create_multi_channel_mode()`.** They read the
  tables the assignment leaves and add no search of their own.
- **The rest of the SigmaTel patch.** The verb, pin-config and model
  tables, the static per-model mixers, the PCM callbacks (they forward to
  the HDA core), the digital mic and digital pin setup, and the STAC9200
  and VAIO variants are left out. Three behaviours of the modelled part
  are not checked. The first two are recorded as hazards:
  - an "as Output" switch turned on while a headphone is plugged drives
    the jack although the other line-outs are auto-muted;
  - a switch is created for a jack that the DAC fill cut from the
    line-outs (the laptop board reaches this);
  - the speaker-DAC labels overflow their three-entry table with four
    extra DACs (patch_sigmatel.c line 1932). `HpCtls` computes the count,
    but neither board of `MCStac92xx` adds more than three, so the model
    never reaches this edge.
- **Negative anchors of the path cache.** `MCHdaPath` states
  `ExcludedAnchorRespected`. TLC finds it violated under the constants of
  `MCHdaPath.cfg`, because `get_nid_path()` tests `is_nid_contained()`
  with the negative anchor itself, so a cached path through the mixer
  answers a request that excludes the mixer. No run checks it now.
- **USB descriptor parsing, `find_format()` and the rate readback.**
  They are byte-level I/O over the device's descriptors. `UsbStream`'s
  `hw_params` picks a format entry (sync type, FILL_MAX, maxpacksize)
  directly from `Formats`, which stands for what parsing and
  `find_format()` would yield.
- **The transfer data.** Only offsets and lengths are modelled; the copies
  are checked for their bounds.
- **The HDA PCM races of `dyn_adc_capture_pcm_prepare()` and the alt-open
  hook.** `HdaPcm` still models them (`ConverterFollowsMux` with the
  capture steps split, `HookBalanced`), but no run checks them now: the `pcm` run serializes the
  handlers.
- **Findings not kept as runs.** All three are sequential: one call sequence
  shows each, so the checked runs are spent on interleavings. TLC finds
  each property violated when the property is put in the named cfg.
  - `fill_and_eval_dacs()` (hda_generic.c line 1291) squashes zero
    entries with a loop that advances past the entry it has just moved.
    Take line-outs 20, 21, 22, 23 with 21 and 22 hardwired to the front
    DAC: `<<2, 0, 0, 3>>` becomes `<<2, 0, 3, 0>>` with `num_dacs` 2. So
    the stream's second channel pair gets converter 0, and DAC 3 is never
    used (`DacsSquashed` in `HdaAssign`, under the constants of
    `MCHdaAssign.cfg`).
  - `activate_amp()` (line 504) calls `is_active_nid(codec, nid, dir,
    idx)`, but the parameters are `(nid, idx, dir)`. So turning Loopback
    Mixing on mutes selector 12's output amp, which the active HP path
    needs (`ActivePathAmpsOn` in `HdaRuntime`, under `MCHdaRuntime.cfg`).
  - `check_dyn_adc_switch()` (line 2061) shrinks the ADC list by copying
    each kept column n down to column `nums`, first invalidating the path
    column `nums` held. It never clears column n. After one move, the next
    move invalidates the path it has just copied down. With the rear mic
    26 alone, ADCs 9 and 10 are kept and 8 dropped; column 1 ends up with
    the handle of a zeroed path. `num_items` is 1, so capture uses that
    column alone, and `get_input_path()` gives a path that routes nothing
    (`CaptureRoutable` in `HdaAssign`, under the constants of
    `MCHdaAssign.cfg`).
- **The rest of the PC-speaker mixer.** The volume, gain and enable puts
  only recompute the voltage table or gate the port writes. They change
  nothing the callback's pointer logic reads. The port I/O is left out
  with the sample values.
- **The ISA PnP id parsers and proc interface.** These are
  character-level text parsing with no concurrency and no state kept
  between calls. Both hex-digit helpers are wrong on letters, and each
  defect is one line:
  - `from_hex()` (pnp.c line 103) returns `(c = 'a') + 10`;
  - `isapnp_get_hex()` (isapnp_proc.c line 606) tests
    `c >= '0' || c <= '9'`, which always holds.
  The proc commands act through `isapnp_cfg_begin()`/`isapnp_cfg_end()` and
  the card and device lists of isapnp.c, which is not in this tree.
- **The USB audio card registry.** `usb_audio_probe()` runs entirely under
  `register_mutex`. `usb_audio_disconnect()` takes no lock; it relies on
  the USB core, which is not in this tree, to call it from the same hub
  thread as probe. So the registry's interleavings are decided outside
  this code. Its two defects lie on single error paths:
  - a failed `snd_card_register()` of a fresh chip frees the card under
    `register_mutex`, which the card's free takes again (line 2075);
  - a failed PCM or mixer creation leaves the chip in `usb_chip[]` with
    no interface (line 2067).
- **The Tegra20 DAS.** Its shared state is the `das` pointer and a
  register window. The one hazard is the gap between publishing `das` and
  mapping `das->regs` in probe (line 174). The machine drivers that call
  the connect functions, and the probe order that decides whether they
  can run in that gap, are not in this tree.
