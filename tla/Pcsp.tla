---------------------------------- MODULE Pcsp ----------------------------------
(***************************************************************************)
(* The PC-speaker PCM driver (alsa/drivers/pcsp/pcsp_lib.c) and the one    *)
(* mixer control that changes what it plays, BaseFRQ (pcsp_mixer.c).  The  *)
(* driver has no DMA: an hrtimer callback, pcsp_do_timer(), plays one      *)
(* sample per expiry and advances playback_ptr; snd_pcsp_trigger() cannot  *)
(* start the hrtimer under the stream lock and leaves that to a tasklet.   *)
(* The callback runs in three steps, split where it drops a lock:          *)
(*   - under substream_lock and the stream lock: the tests, the sample     *)
(*     read and the pointer arithmetic (lines 56-111);                     *)
(*   - under substream_lock only: snd_pcm_period_elapsed() and the update  *)
(*     of period_ptr, with the period and buffer sizes read in step one    *)
(*     (lines 113-119);                                                    *)
(*   - with no lock: the test of timer_active that re-arms the timer       *)
(*     (lines 121-125).                                                    *)
(* The PCM callbacks run with the stream lock (trigger) or in process      *)
(* context with no driver lock (open, hw_params, hw_free, prepare); close *)
(* takes substream_lock.  The PCM core's state machine decides which       *)
(* callback may come next and is written as their guards.  Sizes are in    *)
(* bytes; the sample values are left out.                                  *)
(***************************************************************************)
EXTENDS Integers, FiniteSetsExt

CONSTANTS
    Setups,     \* hw_params the core may set: [buffer, period] in bytes
    FmtSizes,   \* bytes per sample of the formats offered: U8 1, S16_LE 2
    MaxTreble   \* PCSP_MAX_TREBLE (pcsp.h)

PcmStates == {"closed", "open", "setup", "prepared", "running"}
CbPcs == {"idle", "elapsed", "restart"}
NoHw == [buffer |-> 0, period |-> 0, fmt |-> 0]

\* PCSP_INDEX_INC(): the samples one expiry steps over at treble t
IndexInc(t) == 2 ^ (MaxTreble - t)

VARIABLES
    pcm,      \* the PCM core's state of the playback substream
    sub,      \* chip->playback_substream is set
    active,   \* chip->timer_active
    hw,       \* the runtime's buffer and period bytes and sample size
    ptr,      \* chip->playback_ptr
    pptr,     \* chip->period_ptr
    treble,   \* chip->treble
    timer,    \* the hrtimer: [queued, running]
    tasklet,  \* pcsp_start_timer_tasklet is scheduled
    cb,       \* the callback between its steps, with its locals
    sig,      \* snd_pcm_period_elapsed() calls on a running stream, mod 2
    overrun   \* a sample was read past the end of the DMA buffer

vars == <<pcm, sub, active, hw, ptr, pptr, treble, timer, tasklet, cb, sig, overrun>>

Cb0 == [pc |-> "idle", n |-> 0, pb |-> 0, bb |-> 0]

(* snd_pcsp_new_pcm() and the mixer at load: nothing open, the timer idle. *)
Init ==
    /\ pcm = "closed"
    /\ sub = FALSE
    /\ active = FALSE
    /\ hw = NoHw
    /\ ptr = 0
    /\ pptr = 0
    /\ treble \in 0 .. MaxTreble
    /\ timer = [queued |-> FALSE, running |-> FALSE]
    /\ tasklet = FALSE
    /\ cb = Cb0
    /\ sig = 0
    /\ overrun = FALSE

-----------------------------------------------------------------------------
(* The PCM callbacks.                                                      *)

\* snd_pcsp_playback_open(): refused with -EBUSY while the timer is active
PcspOpen ==
    /\ pcm = "closed" /\ ~active
    /\ pcm' = "open"
    /\ sub' = TRUE
    /\ UNCHANGED <<active, hw, ptr, pptr, treble, timer, tasklet, cb, sig, overrun>>

\* snd_pcsp_playback_close(): stop a timer still active, then clear the
\* substream under substream_lock, which the callback's first two steps hold
PcspClose ==
    /\ pcm = "open" /\ cb.pc # "elapsed"
    /\ active' = FALSE
    /\ sub' = FALSE
    /\ pcm' = "closed"
    /\ UNCHANGED <<hw, ptr, pptr, treble, timer, tasklet, cb, sig, overrun>>

\* snd_pcsp_playback_hw_params(): snd_pcm_lib_malloc_pages() for the buffer
PcspHwParams ==
    /\ pcm \in {"open", "setup", "prepared"}
    /\ \E s \in Setups, f \in FmtSizes :
         hw' = [buffer |-> s.buffer, period |-> s.period, fmt |-> f]
    /\ pcm' = "setup"
    /\ UNCHANGED <<sub, active, ptr, pptr, treble, timer, tasklet, cb, sig, overrun>>

\* snd_pcsp_playback_hw_free(): snd_pcm_lib_free_pages()
PcspHwFree ==
    /\ pcm \in {"setup", "prepared"}
    /\ pcm' = "open"
    /\ hw' = NoHw
    /\ UNCHANGED <<sub, active, ptr, pptr, treble, timer, tasklet, cb, sig, overrun>>

\* snd_pcsp_playback_prepare(): both pointers back to the buffer start
PcspPrepare ==
    /\ pcm \in {"setup", "prepared"}
    /\ pcm' = "prepared"
    /\ ptr' = 0
    /\ pptr' = 0
    /\ UNCHANGED <<sub, active, hw, treble, timer, tasklet, cb, sig, overrun>>

\* snd_pcsp_trigger(START) -> pcsp_start_playing(): program the PIT, set
\* timer_active and schedule the tasklet; refused if already active
PcspTriggerStart ==
    /\ pcm = "prepared"
    /\ pcm' = "running"
    /\ active' = TRUE
    /\ tasklet' = (tasklet \/ ~active)
    /\ UNCHANGED <<sub, hw, ptr, pptr, treble, timer, cb, sig, overrun>>

\* snd_pcsp_trigger(STOP or SUSPEND) -> pcsp_stop_playing(): clear
\* timer_active and restore the PIT; the hrtimer is not cancelled
PcspTriggerStop ==
    /\ pcm = "running"
    /\ pcm' = "setup"
    /\ active' = FALSE
    /\ UNCHANGED <<sub, hw, ptr, pptr, treble, timer, tasklet, cb, sig, overrun>>

\* pcsp_treble_put(): a new BaseFRQ item changes the step of the callback
TreblePut(t) ==
    /\ t # treble
    /\ treble' = t
    /\ UNCHANGED <<pcm, sub, active, hw, ptr, pptr, timer, tasklet, cb, sig, overrun>>

\* pcsp_start_timer(), the tasklet: hrtimer_start() with a zero delay
StartTimerTasklet ==
    /\ tasklet
    /\ tasklet' = FALSE
    /\ timer' = [timer EXCEPT !.queued = TRUE]
    /\ UNCHANGED <<pcm, sub, active, hw, ptr, pptr, treble, cb, sig, overrun>>

-----------------------------------------------------------------------------
(* pcsp_do_timer(), step by step.                                          *)

\* a wrap that subtracts the buffer only once the pointer is past its end
WrapPtrLate(next, bb) == IF next > bb THEN next - bb ELSE next

\* a pointer that is never wrapped
WrapPtrNever(next, bb) == next

\* line 109: wrap playback_ptr before snd_pcm_period_elapsed() reads it
\* through the pointer callback
WrapPtr(next, bb) == next % bb

\* lines 78-109 with timer_active set: read the sample at playback_ptr, step
\* the pointer, count the periods it crossed and wrap it.  A count still
\* negative after the fix-up is divided as a size_t and cut back to int,
\* which for a period of a power of two bytes is the floor of the quotient.
PlaySample ==
    LET fmt == hw.fmt
        pb == hw.period
        bb == hw.buffer
        next == ptr + IndexInc(treble) * fmt
        diff == next - pptr
        fixed == IF diff < 0 THEN diff + bb ELSE diff
    IN  /\ overrun' = (overrun \/ ptr + fmt - 1 >= bb)
        /\ ptr' = WrapPtr(next, bb)
        /\ cb' = [pc |-> "elapsed", n |-> fixed \div pb, pb |-> pb, bb |-> bb]
        /\ timer' = [queued |-> FALSE, running |-> TRUE]

\* an early exit that returns HRTIMER_RESTART
CallbackExitRestart ==
    /\ timer' = [queued |-> TRUE, running |-> FALSE]
    /\ UNCHANGED <<ptr, cb, overrun>>

\* exit_nr_unlock2 / exit_nr_unlock1: return HRTIMER_NORESTART
CallbackExit ==
    /\ timer' = [queued |-> FALSE, running |-> FALSE]
    /\ UNCHANGED <<ptr, cb, overrun>>

\* lines 56-79: under substream_lock and the stream lock, a callback that
\* finds no substream or timer_active clear ends at once
TimerCallback ==
    /\ timer.queued /\ ~timer.running
    /\ IF sub /\ active THEN PlaySample ELSE CallbackExit
    /\ UNCHANGED <<pcm, sub, active, hw, pptr, treble, tasklet, sig>>

\* lines 113-119: snd_pcm_period_elapsed(), which acts only on a running
\* stream, and period_ptr advanced by the periods counted in step one
CallbackElapsed ==
    /\ cb.pc = "elapsed"
    /\ IF cb.n # 0
         THEN /\ sig' = IF pcm = "running" THEN 1 - sig ELSE sig
              /\ pptr' = (pptr + cb.n * cb.pb) % cb.bb
         ELSE UNCHANGED <<sig, pptr>>
    /\ cb' = [cb EXCEPT !.pc = "restart"]
    /\ UNCHANGED <<pcm, sub, active, hw, ptr, treble, timer, tasklet, overrun>>

\* a callback that never re-arms itself
CallbackRestartNoRearm ==
    /\ cb.pc = "restart"
    /\ timer' = [timer EXCEPT !.running = FALSE]
    /\ cb' = Cb0
    /\ UNCHANGED <<pcm, sub, active, hw, ptr, pptr, treble, tasklet, sig, overrun>>

\* lines 121-125: HRTIMER_RESTART one period on if timer_active is set; a
\* timer the tasklet started meanwhile stays queued either way
CallbackRestart ==
    /\ cb.pc = "restart"
    /\ timer' = [queued |-> timer.queued \/ active, running |-> FALSE]
    /\ cb' = Cb0
    /\ UNCHANGED <<pcm, sub, active, hw, ptr, pptr, treble, tasklet, sig, overrun>>

-----------------------------------------------------------------------------
Next ==
    \/ PcspOpen \/ PcspClose \/ PcspHwParams \/ PcspHwFree \/ PcspPrepare
    \/ PcspTriggerStart \/ PcspTriggerStop
    \/ \E t \in 0 .. MaxTreble : TreblePut(t)
    \/ StartTimerTasklet
    \/ TimerCallback \/ CallbackElapsed \/ CallbackRestart

(* The kernel runs a scheduled tasklet, fires a queued hrtimer and lets a  *)
(* started callback finish; the PCM callbacks and control writes are the   *)
(* user's and get no fairness.                                             *)
Spec ==
    /\ Init /\ [][Next]_vars
    /\ WF_vars(StartTimerTasklet) /\ WF_vars(TimerCallback)
    /\ WF_vars(CallbackElapsed) /\ WF_vars(CallbackRestart)

-----------------------------------------------------------------------------
MaxBuffer == Max({s.buffer : s \in Setups})

TypeOK ==
    /\ pcm \in PcmStates
    /\ sub \in BOOLEAN /\ active \in BOOLEAN /\ tasklet \in BOOLEAN
    /\ hw \in {NoHw} \cup [buffer : {s.buffer : s \in Setups},
                           period : {s.period : s \in Setups}, fmt : FmtSizes]
    /\ ptr \in 0 .. MaxBuffer /\ pptr \in 0 .. MaxBuffer
    /\ treble \in 0 .. MaxTreble
    /\ timer \in [queued : BOOLEAN, running : BOOLEAN]
    /\ cb.pc \in CbPcs
    /\ sig \in 0 .. 1
    /\ overrun \in BOOLEAN

(* The callback reads the sample at dma_area[playback_ptr + fmt_size - 1] *)
(* only inside the buffer: prepare starts playback_ptr at 0, every step is *)
(* a whole number of samples, and the wrap modulo buffer_bytes comes before *)
(* the next read, whatever BaseFRQ writes change the step in between.     *)
ReadInBuffer == ~overrun

(* A running stream keeps reporting periods: the tasklet starts the        *)
(* hrtimer, every callback that finds timer_active re-arms it, and the     *)
(* pointer crosses a period boundary within a buffer's worth of expiries,  *)
(* until the stream stops.                                                 *)
PeriodsElapse ==
    \A k \in 0 .. 1 :
        (pcm = "running" /\ sig = k) ~> (pcm # "running" \/ sig # k)

(* Stopping or closing the stream stops the timer although nothing cancels *)
(* it: a callback already running, or one the tasklet still starts, finds *)
(* timer_active clear and returns HRTIMER_NORESTART.                       *)
TimerStopsWithStream ==
    ~active ~> (active \/ (~timer.queued /\ ~timer.running /\ ~tasklet))

(* While a stream runs, period_ptr is on a period boundary of its buffer,  *)
(* so that snd_pcm_period_elapsed() is called as playback_ptr crosses each *)
(* boundary; the "playback_ptr inconsistent" branch of pcsp_do_timer()     *)
(* treats a period_ptr ahead of playback_ptr as an error.                  *)
PeriodPtrAligned ==
    (pcm = "running" /\ cb.pc = "idle")
        => (pptr % hw.period = 0 /\ pptr < hw.buffer)
================================================================================
