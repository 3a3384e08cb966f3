------------------------------- MODULE UsbStream -------------------------------
(***************************************************************************)
(* One PCM substream of the USB audio driver (alsa/usb/usbaudio.c): the    *)
(* PCM callbacks the ALSA core calls in process context (open, hw_params,  *)
(* hw_free, prepare, trigger, close) and the URB completion handlers the   *)
(* host controller calls in interrupt context on another CPU.  They share *)
(* snd_usb_substream_t with no lock but subs->lock, which only guards the  *)
(* pointer updates, so every handler step that reads or writes shared     *)
(* state is an action of its own:                                          *)
(*   - a completion (snd_complete_urb / snd_complete_sync_urb) retires the *)
(*     URB, clears its transmask bit, and while running prepares and       *)
(*     resubmits it; the set_bit after the resubmit is a second step;      *)
(*   - release_substream_urbs() unlinks, then polls transmask for at most  *)
(*     HZ ticks (WaitTicks here) before it frees every URB;               *)
(*   - start_urbs() prepares every URB, then submits and marks them one by *)
(*     one.                                                                *)
(* The PCM core's state machine decides which callback may come next; it   *)
(* is the environment of the driver and is written as the guards of the    *)
(* callbacks.  The contents of the audio data are abstracted away; the     *)
(* frame arithmetic (Q10.14 rates, packet counts, pointers) is kept.       *)
(* "fault" records the first access of freed or out-of-range memory.     *)
(***************************************************************************)
EXTENDS Integers, Sequences, FiniteSets

CONSTANTS
    Formats,    \* [dir -> audioformat entries]: [sync, syncok, fill_max, maxpack]
    Setups,     \* hw_params the core may set: [period, buffer] in frames
    Rate,       \* runtime->rate
    Stride,     \* runtime->frame_bits >> 3, bytes per frame
    Feedback,   \* Q10.14 rates a playback sync endpoint may report
    CaptureLens,\* frames the device may deliver in one capture packet
    WaitTicks,  \* HZ: polls of wait_clear_urbs() before it gives up
    Faults      \* failures the run allows: "alloc", "submit", "io", "stall"

\* usbaudio.c's compile-time limits
NRPACKS == 4
MAX_URBS == 5
SYNC_URBS == 2
MIN_PACKS_URB == 1

Dirs == {"playback", "capture"}
DataSlots == 0 .. MAX_URBS - 1
SyncSlots == {16 + i : i \in 0 .. SYNC_URBS - 1}
Slots == DataSlots \cup SyncSlots        \* transmask bit numbers
NoIrq == -1
PcmStates == {"closed", "open", "setup", "prepared", "running", "xrun"}
MemFaults == {"urb", "dma", "dma_bounds", "tmpbuf", "capbuf"}
NoFault == "none"

Min2(a, b) == IF a < b THEN a ELSE b

\* get_usb_rate(): fs/1000 in Q10.14
GetUsbRate(rate) == (rate * 2048 + 62) \div 125

VARIABLES
    dir,     \* the substream's direction (subs->pcm_substream->stream)
    pcm,     \* the PCM core's state of the substream
    hw,      \* the runtime's hw_params: [period, buffer, fmt]
    dma,     \* runtime->dma_area is allocated
    subs,    \* the fields of snd_usb_substream_t the handlers use
    urb,     \* per slot: "none" (freed), "idle", or "flight" (owned by the HC)
    xfer,    \* dataurb[i].transfer: frames a playback URB carries
    mask,    \* subs->transmask, as the set of its bits
    irq,     \* the completion between its resubmit and its set_bit, or NoIrq
    ghosts,  \* slots whose URB was freed while the HC still owned it
    app,     \* the process-context callback in progress: [pc, ticks, todo]
    fault    \* the first access of freed or out-of-range memory, or NoFault

vars == <<dir, pcm, hw, dma, subs, urb, xfer, mask, irq, ghosts, app, fault>>

NoHw == [period |-> 0, buffer |-> 0, fmt |-> CHOOSE f \in Formats["playback"] : TRUE]
Subs0 == [running |-> FALSE, syncpipe |-> FALSE, maxpacksize |-> 0,
          maxframesize |-> 0, fill_max |-> FALSE, maxsize |-> 0,
          curpacksize |-> 0, freqn |-> 0, freqm |-> 0, freqmax |-> 0,
          phase |-> 0, hwptr |-> 0, hwptr_done |-> 0, transfer_done |-> 0,
          npacks |-> 0, nurbs |-> 0, packets |-> [i \in DataSlots |-> 0],
          tmpbuf |-> FALSE]

(* snd_usb_audio_create_streams(): a substream with no URB, not opened.   *)
Init ==
    /\ dir \in Dirs
    /\ pcm = "closed"
    /\ hw = NoHw
    /\ dma = FALSE
    /\ subs = Subs0
    /\ urb = [s \in Slots |-> "none"]
    /\ xfer = [i \in DataSlots |-> 0]
    /\ mask = {}
    /\ irq = NoIrq
    /\ ghosts = {}
    /\ app = [pc |-> "idle", ticks |-> 0, todo |-> <<>>]
    /\ fault = NoFault

-----------------------------------------------------------------------------
(* The data URBs in use and the sync URBs, in start_urbs() order.         *)
SubmitOrder(s) ==
    [k \in 1 .. s.nurbs |-> k - 1]
      \o (IF s.syncpipe THEN <<16, 17>> ELSE <<>>)

(* The bits deactivate_urbs() and wait_clear_urbs() count: data bits       *)
(* below nurbs, and the sync bits only while syncpipe is set.              *)
Counted(s, m) == {i \in m : i < s.nurbs \/ (i \in SyncSlots /\ s.syncpipe)}
Alive(s, m) == Cardinality(Counted(s, m))

(* prepare_playback_urb(): the frames of n packets and the new phase.      *)
RECURSIVE PacketCounts(_, _, _)
PacketCounts(s, n, acc) ==
    IF n = 0 THEN acc
    ELSE LET ph == (acc.phase % 16384) + s.freqm
         IN PacketCounts(s, n - 1,
                [whole |-> acc.whole + Min2(ph \div 16384, s.maxframesize),
                 phase |-> ph])

(* prepare_playback_urb(): take the next frames from hwptr, through        *)
(* tmpbuf when they wrap the buffer end; reads the DMA buffer.            *)
PreparePlaybackUrb(s, n) ==
    LET c == IF s.fill_max
             THEN [whole |-> n * s.maxframesize, phase |-> s.phase]
             ELSE PacketCounts(s, n, [whole |-> 0, phase |-> s.phase])
        wrap == s.hwptr + c.whole > hw.buffer
    IN [subs |-> [s EXCEPT !.phase = c.phase,
                           !.hwptr = IF wrap THEN s.hwptr + c.whole - hw.buffer
                                             ELSE s.hwptr + c.whole],
        transfer |-> c.whole,
        faults |-> (IF dma THEN {} ELSE {"dma"})
                   \cup (IF wrap /\ c.whole * Stride > s.maxsize * NRPACKS
                         THEN {"tmpbuf"} ELSE {})]

(* The prepare op of slot sl: the data prepare of the direction, or        *)
(* prepare_*_sync_urb(), which changes no modelled state.  The capture     *)
(* prepare sets ctx->transfer, which nothing reads; it is left at 0.       *)
PrepareOp(sl, s) ==
    IF sl \in DataSlots /\ dir = "playback" THEN PreparePlaybackUrb(s, s.packets[sl])
    ELSE [subs |-> s, transfer |-> 0, faults |-> {}]

(* retire_playback_urb(), with the wrap of hwptr_done and the period count *)
RetirePlaybackNoWrap(s, t) ==
    [s EXCEPT !.hwptr_done = @ + t,
              !.transfer_done = IF @ + t >= hw.period THEN @ + t - hw.period ELSE @ + t]
RetirePlayback(s, t) ==
    [s EXCEPT !.hwptr_done = IF @ + t >= hw.buffer THEN @ + t - hw.buffer ELSE @ + t,
              !.transfer_done = IF @ + t >= hw.period THEN @ + t - hw.period ELSE @ + t]

(* retire_capture_urb(): per packet k of length len frames, advance        *)
(* hwptr_done and copy the packet into the DMA buffer; the copy that does  *)
(* not wrap starts at the advanced hwptr_done.  The packet lies at offset  *)
(* k * curpacksize of a buffer of maxsize bytes per packet.               *)
RECURSIVE RetireCapture(_, _, _)
RetireCapture(r, lens, k) ==
    IF k > Len(lens) THEN r
    ELSE LET s == r.subs
             len == lens[k]
             old == s.hwptr_done
             d == IF old + len >= hw.buffer THEN old + len - hw.buffer ELSE old + len
             td == s.transfer_done + len
         IN RetireCapture(
              IF len = 0 THEN r
              ELSE [subs |-> [s EXCEPT !.hwptr_done = d,
                                       !.transfer_done = IF td >= hw.period
                                                         THEN td - hw.period ELSE td],
                    transfer |-> 0,
                    faults |-> r.faults
                      \cup (IF dma THEN {} ELSE {"dma"})
                      \cup (IF old + len < hw.buffer /\ d + len > hw.buffer
                            THEN {"dma_bounds"} ELSE {})
                      \cup (IF (k - 1) * s.curpacksize + len * Stride
                                > s.maxsize * Len(lens)
                            THEN {"capbuf"} ELSE {})],
              lens, k + 1)

(* retire_playback_sync_urb(): the last reported rate in                   *)
(* [freqn - freqn/8, freqmax] becomes freqm; 0 when none is.              *)
SyncRates(s) ==
    {0} \cup {f \in Feedback : f >= s.freqn - s.freqn \div 8 /\ f <= s.freqmax}

(* What the device may deliver in a completion of slot sl.                *)
Deliveries(sl) ==
    CASE sl \in DataSlots /\ dir = "capture" ->
            [1 .. subs.packets[sl] -> {l \in CaptureLens : l * Stride <= subs.curpacksize}]
      [] sl \in SyncSlots /\ dir = "playback" -> {<<f>> : f \in SyncRates(subs)}
      [] OTHER -> {<<>>}

(* The ops.retire / ops.retire_sync of slot sl on delivery in.            *)
RetireOp(sl, in) ==
    CASE sl \in DataSlots /\ dir = "playback" ->
            [subs |-> RetirePlayback(subs, xfer[sl]), transfer |-> 0, faults |-> {}]
      [] sl \in DataSlots ->
            RetireCapture([subs |-> subs, transfer |-> 0, faults |-> {}], in, 1)
      [] in # <<>> /\ in[1] # 0 ->
            [subs |-> [subs EXCEPT !.freqm = in[1]], transfer |-> 0, faults |-> {}]
      [] OTHER -> [subs |-> subs, transfer |-> 0, faults |-> {}]

(* The first of the faults ks, kept once one happened.                    *)
Record(ks) == IF fault # NoFault \/ ks = {} THEN fault ELSE CHOOSE k \in ks : TRUE

SetXfer(sl, t) == IF sl \in DataSlots THEN [xfer EXCEPT ![sl] = t] ELSE xfer

-----------------------------------------------------------------------------
(* Interrupt context.                                                       *)

(* The tail shared by snd_complete_urb() and snd_complete_sync_urb() after  *)
(* the retire r: clear the bit; while running prepare and resubmit, and     *)
(* on a failed submit snd_pcm_stop(XRUN), which stops only a running PCM    *)
(* and so calls trigger STOP (deactivate_urbs()).                          *)
Resubmit(sl, r, running) ==
    /\ mask' = mask \ {sl}
    /\ \/ /\ ~running
          /\ subs' = r.subs
          /\ urb' = [urb EXCEPT ![sl] = "idle"]
          /\ xfer' = SetXfer(sl, r.transfer)
          /\ fault' = Record(r.faults)
          /\ UNCHANGED <<pcm, irq>>
       \/ /\ running
          /\ \E p \in {PrepareOp(sl, r.subs)} :
               /\ xfer' = SetXfer(sl, p.transfer)
               /\ fault' = Record(r.faults \cup p.faults)
               /\ \/ /\ irq' = sl
                     /\ subs' = p.subs
                     /\ UNCHANGED <<pcm, urb>>
                  \/ /\ "submit" \in Faults
                     /\ urb' = [urb EXCEPT ![sl] = "idle"]
                     /\ subs' = IF pcm = "running"
                                THEN [p.subs EXCEPT !.running = FALSE] ELSE p.subs
                     /\ pcm' = IF pcm = "running" THEN "xrun" ELSE pcm
                     /\ irq' = irq
    /\ UNCHANGED <<dir, hw, dma, ghosts, app>>

(* a completion that resubmits whether or not the stream still runs        *)
CompleteUrbIgnoringRunning(sl) ==
    /\ urb[sl] = "flight" /\ irq = NoIrq
    /\ \E in \in Deliveries(sl) :
         \E r \in {RetireOp(sl, in)} :
           Resubmit(sl, r, TRUE)

(* snd_complete_urb() / snd_complete_sync_urb(): the HC hands back an URB  *)
(* of the substream; completions are serialized by the HC interrupt.       *)
CompleteUrb(sl) ==
    /\ urb[sl] = "flight" /\ irq = NoIrq
    /\ \E in \in Deliveries(sl) :
         \E r \in {RetireOp(sl, in)} : Resubmit(sl, r, r.subs.running)

(* set_bit(ctx->index, &subs->transmask) after the resubmit.               *)
CompleteSetBit ==
    /\ irq # NoIrq
    /\ mask' = mask \cup {irq}
    /\ irq' = NoIrq
    /\ UNCHANGED <<dir, pcm, hw, dma, subs, urb, xfer, ghosts, app, fault>>

(* The HC completes an URB that release_substream_urbs() freed under it.   *)
CompleteFreed(sl) ==
    /\ sl \in ghosts /\ irq = NoIrq
    /\ ghosts' = ghosts \ {sl}
    /\ fault' = Record({"urb"})
    /\ UNCHANGED <<dir, pcm, hw, dma, subs, urb, xfer, mask, irq, app>>

-----------------------------------------------------------------------------
(* Process context: the PCM callbacks, called by the PCM core one at a     *)
(* time.  pcm and the guards on it are the core's calling rules.          *)

(* The layout of init_substream_urbs(): npacks packets of at most maxsize  *)
(* bytes for a period, spread over nurbs URBs of at most NRPACKS each.     *)
UrbLayout(bytes, maxsize) ==
    LET n0 == (bytes + maxsize - 1) \div maxsize
        n1 == IF n0 < 2 * MIN_PACKS_URB THEN 2 * MIN_PACKS_URB ELSE n0
        u0 == (n1 + NRPACKS - 1) \div NRPACKS
        np == IF u0 > MAX_URBS THEN MAX_URBS * NRPACKS ELSE n1
        nu == IF u0 > MAX_URBS THEN MAX_URBS ELSE u0
        fill == [i \in DataSlots |->
                   IF i < nu THEN Min2(NRPACKS, np - i * NRPACKS) ELSE 0]
        halves == [i \in DataSlots |->
                   CASE i = 0 -> (np + 1) \div 2
                     [] i = 1 -> np - (np + 1) \div 2
                     [] OTHER -> 0]
    IN CASE nu <= 1 -> [npacks |-> np, nurbs |-> 2, packets |-> halves]
         [] fill[nu - 1] < MIN_PACKS_URB /\ nu > 2 ->
              [npacks |-> np, nurbs |-> nu - 1,
               packets |-> [fill EXCEPT ![0] = @ + fill[nu - 1], ![nu - 1] = 0]]
         [] fill[nu - 1] < MIN_PACKS_URB -> [npacks |-> np, nurbs |-> 2, packets |-> halves]
         [] OTHER -> [npacks |-> np, nurbs |-> nu, packets |-> fill]

(* init_substream_urbs() after its release: rates, pointers and sizes.     *)
InitSubstream(s) ==
    LET fn == GetUsbRate(Rate)
        fmax == fn + fn \div 4
        ms0 == ((fmax + 16383) * Stride) \div 16384
        ms == IF s.maxpacksize # 0 /\ ms0 > s.maxpacksize THEN s.maxpacksize ELSE ms0
        lay == UrbLayout(hw.period * Stride, ms)
    IN [s EXCEPT !.freqn = fn, !.freqm = fn, !.freqmax = fmax, !.phase = 0,
                 !.hwptr = 0, !.hwptr_done = 0, !.transfer_done = 0,
                 !.maxsize = ms,
                 !.curpacksize = IF s.fill_max THEN s.maxpacksize ELSE ms,
                 !.tmpbuf = (dir = "playback"),
                 !.npacks = lay.npacks, !.nurbs = lay.nurbs, !.packets = lay.packets]

(* The tail of release_substream_urbs(): free every URB, also one the HC   *)
(* still owns, and tmpbuf.                                                  *)
Released(s) == [s EXCEPT !.tmpbuf = FALSE, !.npacks = 0, !.nurbs = 0]

(* snd_usb_pcm_open(): attach the substream (pcm_substream, private_data). *)
PcmOpen ==
    /\ app.pc = "idle" /\ pcm = "closed"
    /\ pcm' = "open"
    /\ UNCHANGED <<dir, hw, dma, subs, urb, xfer, mask, irq, ghosts, app, fault>>

(* The limits snd_usb_pcm_open() puts on hw_params: the snd_usb_playback  *)
(* and snd_usb_capture tables (period and buffer bytes, periods) and the   *)
(* 1 ms minimum period time of setup_hw_info().  The core refuses a setup  *)
(* outside them before it calls the driver.                                *)
HwAllows(st) ==
    /\ st.period * Stride \in 64 .. 128 * 1024
    /\ st.buffer * Stride <= 128 * 1024
    /\ st.buffer % st.period = 0
    /\ st.buffer \div st.period \in 2 .. 1024
    /\ st.period * 1000000 >= 1000 * MIN_PACKS_URB * Rate

(* snd_usb_hw_params(): snd_pcm_lib_malloc_pages() for the chosen setup.   *)
HwParams ==
    /\ app.pc = "idle" /\ pcm \in {"open", "setup", "prepared"}
    /\ \E st \in {x \in Setups : HwAllows(x)}, f \in Formats[dir] :
         hw' = [period |-> st.period, buffer |-> st.buffer, fmt |-> f]
    /\ dma' = TRUE
    /\ pcm' = "setup"
    /\ UNCHANGED <<dir, subs, urb, xfer, mask, irq, ghosts, app, fault>>

(* snd_usb_hw_free(): snd_pcm_lib_free_pages(); the URBs are left alone.   *)
HwFree ==
    /\ app.pc = "idle" /\ pcm \in {"setup", "prepared"}
    /\ dma' = FALSE
    /\ pcm' = "open"
    /\ UNCHANGED <<dir, hw, subs, urb, xfer, mask, irq, ghosts, app, fault>>

(* set_format()'s writes to subs for format f: syncpipe cleared, then set  *)
(* for a format with a sync endpoint; fill_max set last.                   *)
FormatFields(s, f, sync, fill) ==
    [s EXCEPT !.syncpipe = sync, !.maxpacksize = f.maxpack,
              !.maxframesize = f.maxpack \div Stride, !.fill_max = fill]

(* set_format() for format f: its writes to subs and whether it succeeds. *)
(* It fails with -EINVAL on a bad sync endpoint after clearing syncpipe,   *)
(* and with -EIO when usb_set_interface() or a control message fails.     *)
SetFormat(s, f) ==
    IF f.sync /\ ~f.syncok
    THEN {[subs |-> FormatFields(s, f, FALSE, FALSE), ok |-> FALSE]}
    ELSE {[subs |-> FormatFields(s, f, f.sync, f.fill_max), ok |-> TRUE]}
         \cup (IF "io" \in Faults
               THEN {[subs |-> FormatFields(s, f, f.sync, FALSE), ok |-> FALSE]}
               ELSE {})

(* snd_usb_pcm_prepare(): set_format(), then init_substream_urbs() starts  *)
(* with release_substream_urbs(): deactivate_urbs() and the wait.          *)
PcmPrepare ==
    /\ app.pc = "idle" /\ pcm \in {"setup", "prepared", "xrun"}
    /\ \E r \in SetFormat(subs, hw.fmt) :
         IF r.ok
         THEN /\ subs' = [r.subs EXCEPT !.running = FALSE]
              /\ app' = [pc |-> "prepare_wait", ticks |-> WaitTicks, todo |-> <<>>]
         ELSE /\ subs' = r.subs
              /\ UNCHANGED app
    /\ UNCHANGED <<dir, pcm, hw, dma, urb, xfer, mask, irq, ghosts, fault>>

(* snd_usb_pcm_close(), after the core's drop and hw_free:                 *)
(* usb_set_interface(0) and release_substream_urbs().                      *)
PcmClose ==
    /\ app.pc = "idle" /\ pcm # "closed"
    /\ pcm' = IF pcm = "running" THEN "setup" ELSE pcm
    /\ dma' = FALSE
    /\ subs' = [subs EXCEPT !.running = FALSE]
    /\ app' = [pc |-> "close_wait", ticks |-> WaitTicks, todo |-> <<>>]
    /\ UNCHANGED <<dir, hw, urb, xfer, mask, irq, ghosts, fault>>

(* wait_clear_urbs(): a poll that finds URBs alive sleeps one tick.        *)
WaitPollUnbounded ==
    /\ app.pc \in {"prepare_wait", "close_wait"}
    /\ Alive(subs, mask) > 0
    /\ app' = [app EXCEPT !.ticks = @ - 1]
    /\ UNCHANGED <<dir, pcm, hw, dma, subs, urb, xfer, mask, irq, ghosts, fault>>
WaitPoll ==
    /\ app.pc \in {"prepare_wait", "close_wait"}
    /\ Alive(subs, mask) > 0 /\ app.ticks > 0
    /\ app' = [app EXCEPT !.ticks = @ - 1]
    /\ UNCHANGED <<dir, pcm, hw, dma, subs, urb, xfer, mask, irq, ghosts, fault>>

(* The ticks are spent.  An unlinked isochronous URB comes back within a   *)
(* frame (1 ms), far less than HZ ticks, so the wait times out with an URB *)
(* it counts still owned by the HC only when the HC stalls ("stall");     *)
(* otherwise only with stale bits, of URBs that are not in flight.        *)
TimedOut ==
    /\ app.ticks = 0
    /\ "stall" \in Faults \/ \A sl \in Counted(subs, mask) : urb[sl] # "flight"

(* The wait ends, no URB alive or the ticks spent; the URBs are freed and  *)
(* close detaches the substream, or init_substream_urbs() goes on: it      *)
(* clears transmask and allocates tmpbuf and the URBs; a failed           *)
(* allocation releases everything again and prepare fails with -ENOMEM.    *)
WaitDone ==
    /\ app.pc \in {"prepare_wait", "close_wait"}
    /\ Alive(subs, mask) = 0 \/ TimedOut
    /\ ghosts' = ghosts \cup {sl \in Slots : urb[sl] = "flight"}
    /\ app' = [pc |-> "idle", ticks |-> 0, todo |-> <<>>]
    /\ IF app.pc = "close_wait"
       THEN /\ subs' = Released(subs)
            /\ urb' = [sl \in Slots |-> "none"]
            /\ pcm' = "closed"
            /\ UNCHANGED <<mask, xfer>>
       ELSE \E is \in {InitSubstream(Released(subs))} :
            /\ mask' = {}
            /\ xfer' = [i \in DataSlots |-> IF i < is.nurbs THEN 0 ELSE xfer[i]]
            /\ \/ /\ subs' = is
                  /\ urb' = [sl \in Slots |->
                               IF sl < is.nurbs \/ (sl \in SyncSlots /\ is.syncpipe)
                               THEN "idle" ELSE "none"]
                  /\ pcm' = "prepared"
               \/ /\ "alloc" \in Faults
                  /\ subs' = Released(is)
                  /\ urb' = [sl \in Slots |-> "none"]
                  /\ UNCHANGED pcm
    /\ UNCHANGED <<dir, hw, dma, irq, fault>>

(* The prepare loop of start_urbs() over the data URBs 0 .. nurbs - 1.     *)
RECURSIVE PrepareData(_, _)
PrepareData(r, i) ==
    IF i >= r.subs.nurbs THEN r
    ELSE LET p == PrepareOp(i, r.subs)
         IN PrepareData([subs |-> p.subs,
                         xfer |-> [r.xfer EXCEPT ![i] = p.transfer],
                         faults |-> r.faults \cup p.faults], i + 1)

(* snd_usb_pcm_trigger(START), start_urbs(): prepare every URB, set        *)
(* running, then submit them in order.  With syncpipe set and no sync URB  *)
(* (a failed prepare) its snd_assert returns -EINVAL and nothing changes.  *)
TriggerStart ==
    /\ app.pc = "idle" /\ pcm = "prepared"
    /\ ~(subs.syncpipe /\ \E sl \in SyncSlots : urb[sl] = "none")
    /\ \E r \in {PrepareData([subs |-> subs, xfer |-> xfer, faults |-> {}], 0)} :
         /\ subs' = [r.subs EXCEPT !.running = TRUE]
         /\ xfer' = r.xfer
         /\ fault' = Record(r.faults)
    /\ IF SubmitOrder(subs) = <<>>
       THEN pcm' = "running" /\ UNCHANGED app
       ELSE app' = [pc |-> "start_submit", ticks |-> 0, todo |-> SubmitOrder(subs)]
            /\ UNCHANGED pcm
    /\ UNCHANGED <<dir, hw, dma, urb, mask, irq, ghosts>>

(* start_urbs(): do_usb_submit_urb() of the next URB; on failure           *)
(* deactivate_urbs() and -EPIPE, which leaves the PCM prepared.            *)
StartSubmit ==
    /\ app.pc = "start_submit"
    /\ \/ /\ urb' = [urb EXCEPT ![Head(app.todo)] = "flight"]
          /\ app' = [app EXCEPT !.pc = "start_setbit"]
          /\ UNCHANGED subs
       \/ /\ "submit" \in Faults
          /\ subs' = [subs EXCEPT !.running = FALSE]
          /\ app' = [pc |-> "idle", ticks |-> 0, todo |-> <<>>]
          /\ UNCHANGED urb
    /\ UNCHANGED <<dir, pcm, hw, dma, xfer, mask, irq, ghosts, fault>>

(* start_urbs(): set_bit() of the URB just submitted; after the last one   *)
(* the trigger returns 0 and the core marks the PCM running.               *)
StartSetBit ==
    /\ app.pc = "start_setbit"
    /\ mask' = mask \cup {Head(app.todo)}
    /\ IF Tail(app.todo) = <<>>
       THEN app' = [pc |-> "idle", ticks |-> 0, todo |-> <<>>] /\ pcm' = "running"
       ELSE app' = [app EXCEPT !.pc = "start_submit", !.todo = Tail(@)]
            /\ UNCHANGED pcm
    /\ UNCHANGED <<dir, hw, dma, subs, urb, xfer, irq, ghosts, fault>>

(* The core's drop: snd_usb_pcm_trigger(STOP), deactivate_urbs(), for a    *)
(* running PCM; an XRUN PCM was stopped already.                           *)
TriggerStop ==
    /\ app.pc = "idle" /\ pcm \in {"running", "xrun"}
    /\ subs' = [subs EXCEPT !.running = FALSE]
    /\ pcm' = "setup"
    /\ UNCHANGED <<dir, hw, dma, urb, xfer, mask, irq, ghosts, app, fault>>

-----------------------------------------------------------------------------
(* Interrupt context: the HC hands back an URB, or a handler goes on.     *)
Interrupt ==
    \/ \E sl \in Slots : CompleteUrb(sl) \/ CompleteFreed(sl)
    \/ CompleteSetBit

Next ==
    \/ PcmOpen \/ HwParams \/ HwFree \/ PcmPrepare \/ PcmClose
    \/ WaitPoll \/ WaitDone
    \/ TriggerStart \/ StartSubmit \/ StartSetBit \/ TriggerStop
    \/ Interrupt

Spec == Init /\ [][Next]_vars

(* Fairness: the host controller's interrupt keeps being serviced while it *)
(* has work: an URB it owns comes back (an isochronous URB at its last     *)
(* scheduled frame, an unlinked one at once) and a handler under way runs  *)
(* to its end.  Nothing obliges the PCM core or the application to call    *)
(* anything.                                                               *)
FairSpec == Spec /\ WF_vars(Interrupt)

-----------------------------------------------------------------------------
TypeOK ==
    /\ dir \in Dirs
    /\ pcm \in PcmStates
    /\ dma \in BOOLEAN
    /\ urb \in [Slots -> {"none", "idle", "flight"}]
    /\ mask \subseteq Slots
    /\ irq \in Slots \cup {NoIrq}
    /\ ghosts \subseteq Slots
    /\ app.pc \in {"idle", "prepare_wait", "close_wait", "start_submit", "start_setbit"}
    /\ app.ticks \in 0 .. WaitTicks
    /\ fault \in MemFaults \cup {NoFault}
    /\ subs.nurbs \in 0 .. MAX_URBS
    /\ \A i \in DataSlots : subs.packets[i] \in 0 .. NRPACKS

(* snd_usb_pcm_pointer() returns hwptr_done, which the PCM core takes as a *)
(* frame offset in the buffer: while the stream runs it is below the       *)
(* buffer size, and the playback fill pointer hwptr is at most that size,  *)
(* whatever the retires, prepares and resubmits did.                       *)
PointerInBuffer ==
    subs.running =>
        /\ subs.hwptr_done \in 0 .. hw.buffer - 1
        /\ subs.hwptr \in 0 .. hw.buffer

(* No URB in the hands of the HC, no completion under way.                 *)
Quiet ==
    /\ \A sl \in Slots : urb[sl] # "flight"
    /\ irq = NoIrq
    /\ ghosts = {}

(* deactivate_urbs() stops the stream by clearing running and relies on    *)
(* each completion not to resubmit: once running is cleared, the URBs all *)
(* come back from the HC unless the stream is started again.               *)
StopDrains == (~subs.running) ~> (subs.running \/ Quiet)

(* No completion handler or prepare touches freed memory or writes past    *)
(* an allocation: neither a freed URB, the DMA buffer after hw_free, nor   *)
(* beyond the DMA buffer, tmpbuf or a capture buffer.                      *)
MemorySafe == fault = NoFault

====
