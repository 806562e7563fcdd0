----------------------------- MODULE PcmStream ------------------------------
(***************************************************************************)
(* A sound stream, sound/soc/wmt/wmt-pcm.c, on its DMA channel.  The       *)
(* buffer of the stream is a ring of periods; the driver keeps up to two   *)
(* of them queued on the channel, and every interrupt of the channel is    *)
(* the end of a period.                                                    *)
(*                                                                         *)
(* The ALSA core (external) calls trigger and pointer with interrupts off  *)
(* and stops a stream that ran dry from within snd_pcm_period_elapsed; the *)
(* engine moves data at any moment.                                        *)
(***************************************************************************)
EXTENDS DmaChannel

CONSTANTS
  Periods,      \* runtime->periods
  Submits,      \* buffers audio_process_dma queues per period; 2 for mono
  MaxErrors     \* bound: transfer errors in a behaviour

ASSUME StreamAssumption ==
  Periods \in Nat \ {0} /\ Submits \in {1, 2} /\ MaxErrors \in Nat

VARIABLES
  dma,          \* the channel
  s,            \* struct audio_stream_a
  pcm,          \* the state ALSA keeps of the stream
  due,          \* history: the unit after the one moved last
  again,        \* history: why units are about to be moved again
  errors        \* history: transfer errors so far

vars == <<dma, s, pcm, due, again, errors>>

Idle == [active |-> FALSE, period |-> 0, periods |-> 0]

-----------------------------------------------------------------------------
(* The driver's functions, from <<channel, stream>> to the next.           *)

(* One period is queued, twice for a mono stream of 16 bit samples: once   *)
(* converted and once as it is.                                            *)
audio_process_dma(c, t) ==
  LET u == Units * t.period
      c1 == wmt_start_dma(c, u)
  IN  IF ~t.active \/ Full(c) \/ (Submits = 2 /\ Full(c1))
      THEN <<IF t.active THEN c1 ELSE c, t>>
      ELSE <<IF Submits = 2 THEN wmt_start_dma(c1, u) ELSE c1,
             [t EXCEPT !.period = (@ + 1) % Periods, !.periods = @ + 1]>>

audio_stop_dma(c, t) == <<wmt_clear_dma(wmt_stop_dma(c)), Idle>>

(* START, RESUME and PAUSE_RELEASE.                                        *)
TriggerStart(c, t) == audio_process_dma(c, [t EXCEPT !.active = TRUE])

(* A mistake: a third period is queued.                                    *)
wmt_pcm_pointer_Third(c, t, avail) ==
  IF t.periods > 0 /\ t.periods <= 2 /\ avail THEN audio_process_dma(c, t)
  ELSE <<c, t>>

(* A second period is queued when the application has filled it.           *)
wmt_pcm_pointer(c, t, avail) ==
  IF t.periods > 0 /\ t.periods < 2 /\ avail THEN audio_process_dma(c, t)
  ELSE <<c, t>>

(* snd_pcm_period_elapsed asks for the pointer and stops the stream when   *)
(* the application did not keep up.                                        *)
snd_pcm_period_elapsed(c, t, avail, xrun) ==
  LET x == wmt_pcm_pointer(c, t, avail)
  IN  IF ~t.active THEN <<c, t>>
      ELSE IF xrun THEN audio_stop_dma(x[1], x[2]) ELSE x

audio_dma_callback(c, t, avail, xrun) ==
  LET x == snd_pcm_period_elapsed(c, t, avail, xrun)
  IN  audio_process_dma(x[1], [x[2] EXCEPT !.periods =
                                 IF @ > 0 THEN @ - 1 ELSE @])

-----------------------------------------------------------------------------
Becomes(x) == dma' = x[1] /\ s' = x[2]

(* A channel that is cleared forgets where it was: it will start with the  *)
(* first period, which is where the application goes on only after         *)
(* wmt_pcm_prepare.                                                        *)
StopForgets == again' = IF s'.active THEN again ELSE "stopped"

(* The first of the two directions to be opened requests both channels,    *)
(* the last to be closed frees them.                                       *)
wmt_pcm_open ==
  /\ pcm = "closed" /\ pcm' = "setup"
  /\ \E active \in BOOLEAN :
       Becomes(<<IF active THEN dma ELSE wmt_request_dma, s>>)
  /\ UNCHANGED <<due, again, errors>>

Stopped == {"setup", "prepared", "paused", "resumed"}

wmt_pcm_close ==
  /\ pcm \in Stopped /\ pcm' = "closed"
  /\ \E active \in BOOLEAN :
       Becomes(<<IF active THEN dma ELSE wmt_clear_dma(dma), s>>)
  /\ UNCHANGED <<due, again, errors>>

wmt_pcm_prepare ==
  /\ pcm \in Stopped /\ pcm' = "prepared"
  /\ Becomes(<<wmt_setup_dma(dma), [s EXCEPT !.period = 0, !.periods = 0]>>)
  /\ due' = 0 /\ again' = "no" /\ UNCHANGED errors

Start ==
  /\ pcm \in {"prepared", "paused", "resumed"} /\ pcm' = "running"
  /\ Becomes(TriggerStart(dma, s))
  /\ UNCHANGED <<due, again, errors>>

Stop ==
  /\ pcm = "running" /\ pcm' \in {"setup", "paused", "suspended"}
  /\ Becomes(audio_stop_dma(dma, s))
  /\ StopForgets /\ UNCHANGED <<due, errors>>

(* The stream was stopped before wmt_pcm_suspend, which finds it inactive. *)
wmt_pcm_resume ==
  /\ pcm = "suspended" /\ pcm' = "resumed"
  /\ Becomes(<<wmt_setup_dma(dma), s>>)
  /\ UNCHANGED <<due, again, errors>>

(* The application asks where the stream is.                               *)
Pointer ==
  /\ pcm = "running"
  /\ \E avail \in BOOLEAN : Becomes(wmt_pcm_pointer(dma, s, avail))
  /\ UNCHANGED <<pcm, due, again, errors>>

-----------------------------------------------------------------------------
(* dma_irq_handler.                                                        *)

TransferDone ==
  /\ dma.isr = "success"
  /\ \E avail, xrun \in BOOLEAN, c \in Finished(dma) :
       /\ Becomes(audio_dma_callback(c, s, avail, xrun))
       /\ pcm' = IF s.active /\ xrun THEN "setup" ELSE pcm
  /\ StopForgets /\ UNCHANGED <<due, errors>>

(* A mistake: an error is taken for the end of a buffer.                   *)
TransferError_Done ==
  /\ dma.isr = "error"
  /\ \E avail \in BOOLEAN, c \in Finished(Recovered(dma)) :
       Becomes(audio_dma_callback(c, s, avail, FALSE))
  /\ UNCHANGED <<pcm, due, again, errors>>

TransferError ==
  /\ dma.isr = "error"
  /\ Becomes(<<Recovered(dma), s>>)
  /\ UNCHANGED <<pcm, due, again, errors>>

-----------------------------------------------------------------------------
(* The engine.                                                             *)

BufferUnits == Periods * Units

Transfer ==
  /\ dma.eng = "xfer" /\ dma.rbr > 0
  /\ dma' = Move(dma)
  /\ due' = (dma.dar + 1) % BufferUnits /\ again' = "no"
  /\ UNCHANGED <<s, pcm, errors>>

Engine ==
  \/ Transfer
  \/ /\ \/ dma.eng = "fetch" /\ dma' = Fetch(dma)
        \/ dma.eng = "xfer" /\ dma.rbr = 0 /\ dma' = Complete(dma)
     /\ UNCHANGED <<s, pcm, due, again, errors>>

(* An error may come when nothing is left of the descriptor and its end    *)
(* was not signalled yet: revise_descript then moves on the CPR of a copy, *)
(* and the channel is resumed on the same descriptor.                      *)
EngineFails ==
  /\ dma.eng = "xfer" /\ errors < MaxErrors
  /\ dma' = Fail(dma)
  /\ errors' = errors + 1
  /\ again' = IF dma.rbr = 0 THEN "failed" ELSE again
  /\ UNCHANGED <<s, pcm, due>>

Init ==
  /\ dma = wmt_request_dma /\ s = Idle
  /\ pcm = "closed" /\ due = 0 /\ again = "no" /\ errors = 0

Irq == TransferDone \/ TransferError

Next ==
  \/ wmt_pcm_open \/ wmt_pcm_close \/ wmt_pcm_prepare \/ wmt_pcm_resume
  \/ Start \/ Stop \/ Pointer
  \/ Irq \/ Engine \/ EngineFails

(* The engine moves on and interrupts are served; nothing else has to      *)
(* happen.                                                                 *)
Spec == Init /\ [][Next]_vars /\ WF_vars(Engine) /\ WF_vars(Irq)

-----------------------------------------------------------------------------
(* Every variable has its type.                                            *)
TypeOK ==
  /\ dma \in Channel
  /\ s \in [active : BOOLEAN, period : 0 .. Periods - 1, periods : Nat]
  /\ pcm \in {"closed", "setup", "prepared", "running", "paused",
              "suspended", "resumed"}
  /\ due \in 0 .. BufferUnits - 1 /\ errors \in 0 .. MaxErrors
  /\ again \in {"no", "stopped", "failed"}

(* The units of the buffer are moved one after the other, none twice and   *)
(* none left out, through errors within a descriptor, joined interrupts    *)
(* and the ends of both rings.  Two things make the engine go back, and no *)
(* further than this: after a pause or a suspension it starts with the     *)
(* first unit of the buffer (audio_stop_dma, wmt-pcm.c:383), and after an  *)
(* error with nothing left it repeats the rest of the descriptor that was  *)
(* queued or last revised, up to where it had got.                         *)
InOrder ==
  [][Transfer => \/ dma.dar = due
                 \/ again = "stopped" /\ dma.dar = 0
                 \/ /\ again = "failed"
                    /\ (dma.dar + dma.rbr) % BufferUnits = due]_vars

(* "at most 2 successful calls can be made before one of them terminates"  *)
(* (dma.c:532).  It is the callers that keep to it, wmt_start_dma refuses  *)
(* only what exceeds the ring: a stream that queues each period once does, *)
(* mono playback of 16 bit samples (Submits = 2) does not.                 *)
AtMostTwo == dma.queued <= 2

(* The counts the driver goes by are never less than what the engine still *)
(* has to do, also after two descriptors raised one interrupt.             *)
CountsCover == dma.queued <= dma.residue /\ dma.queued <= s.periods

(* Of the queued descriptors exactly the last one has the END bit: the     *)
(* engine neither stops before it nor runs on into old descriptors.        *)
SlotBack(k) == (dma.des0cnt - k + max_des0cnt) % max_des0cnt
EndIsLast ==
  \A k \in 1 .. dma.queued : dma.ring[SlotBack(k)].end = (k = 1)

(* An active stream never waits for nothing: the engine has a descriptor   *)
(* or an interrupt that will queue one is pending.                         *)
NoStall ==
  s.active => dma.isr # "none" \/ dma.eng \notin {"off", "parked"}

(* An active stream goes on: the next unit is moved, or it is stopped.     *)
KeepsPlaying ==
  \A u \in 0 .. BufferUnits - 1 :
    (s.active /\ due = u) ~> (~s.active \/ due # u)
=============================================================================
