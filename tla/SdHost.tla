------------------------------- MODULE SdHost -------------------------------
(***************************************************************************)
(* The driver of the first SD/MMC host, drivers/mmc/host/mmc_atsmb.c, and  *)
(* the part of drivers/mmc/core/core.c that starts, retries and ends its   *)
(* requests.  A caller sleeps in the driver or in the core while two       *)
(* interrupt handlers, of the host and of its DMA engine, report on the    *)
(* command; a timer ends the caller's sleep when neither does.             *)
(*                                                                         *)
(* What runs in a handler is written as operators from the state h to the  *)
(* next one, because a handler may end a request and start it again.  The  *)
(* caller is interrupted between its steps: none is taken while an         *)
(* interrupt is pending.                                                   *)
(*                                                                         *)
(* The driver does not stop a command that a timer gave up on.  What it    *)
(* may still report is judged as the answer to another command; `late'     *)
(* records when that can happen.                                           *)
(***************************************************************************)
EXTENDS Integers

CONSTANTS
  Requests,   \* the requests the caller makes: [kind, retries]
  MaxPolls    \* loop_cnt: how often the card's state is asked for

Blocks == {"read1", "write1", "readN", "writeN"}  \* of a memory card
Sdio == {"ioread", "iowrite"}                     \* SD_IO_RW_EXTENDED
StartsData == Blocks \cup Sdio                    \* handled by atsmb_start_data
HasData == StartsData \cup {"back"}               \* mrq->data is not NULL
Plain == {"cmd", "status"}                        \* status: SEND_STATUS

ASSUME SdAssumption ==
  /\ Requests \subseteq [kind : HasData \cup Plain, retries : Nat]
  /\ \A r \in Requests : r.kind \in HasData => r.retries = 0
  /\ MaxPolls \in Nat \ {0}

(* The commands whose end the DMA engine reports (dma_mask is              *)
(* SD_PDMA_CCR_Evt_success); the host reports the end of the others.       *)
DmaReports == {"read1", "ioread", "back"}

Bits == {"RSP_DONE", "XFER_DONE", "ERROR"}
Codes == HasData \cup Plain

(* INT_MASK_0 and 1 for a command.  XFER_DONE stands for the end of a      *)
(* block or of several, with the automatic stop.                           *)
Masks(k) ==
  CASE k \in Plain -> {"RSP_DONE", "ERROR"}
    [] k \in DmaReports -> {"ERROR"}
    [] OTHER -> {"XFER_DONE", "ERROR"}

VARIABLES
  h,      \* struct atsmb_host, its request, and the registers
  pc,     \* where the caller is
  polls   \* loop_cnt

vars == <<h, pc, polls>>

(* atsmb_host: the request (kind, retries, the two errors, resp) and the   *)
(* fields from mrq_done to DmaIntMask; complete and done count complete()  *)
(* calls on the completions of atsmb_start_data and mmc_wait_for_req.      *)
(* Registers: mask, status, and pdma and ier of the DMA engine; op is the  *)
(* command under way.  own, moved and late are history: op is a command of *)
(* this request; the command the request is about was carried out; the     *)
(* timer ended a poll, or a command was prepared before one that a timer   *)
(* gave up on had ended.                                                   *)
Host ==
  [kind : Codes, retries : Nat,
   cmd_error : BOOLEAN, data_error : BOOLEAN,
   resp : {"zero", "busy", "tran"},
   mrq_done : Nat, done_data : BOOLEAN, soft_timeout : BOOLEAN,
   opcode : Codes \cup {"none"}, DmaIntMask : BOOLEAN,
   complete : Nat, done : Nat,
   mask : SUBSET Bits, status : SUBSET Bits,
   pdma : {"none", "ok", "error"}, ier : BOOLEAN,
   op : Codes \cup {"none"}, own : BOOLEAN, moved : BOOLEAN, late : BOOLEAN]

-----------------------------------------------------------------------------
(* Commands to the host.                                                   *)

atsmb_prep_cmd(x, k) ==
  [x EXCEPT !.opcode = k, !.status = {}, !.mask = @ \cup Masks(k),
            !.late = @ \/ x.op # "none"]

atsmb_config_dma(x, k) ==
  [x EXCEPT !.pdma = "none", !.ier = TRUE, !.DmaIntMask = k \in DmaReports]

atsmb_issue_cmd(x, k) == [x EXCEPT !.op = k, !.own = TRUE]

(* As the handler of a failed command calls it, for a retry.               *)
atsmb_start_cmd(x) == atsmb_issue_cmd(atsmb_prep_cmd(x, x.kind), x.kind)

-----------------------------------------------------------------------------
(* The end of a request, and its retry.                                    *)

(* atsmb_request up to the choice among the three kinds of request.        *)
atsmb_request(x) ==
  [x EXCEPT !.mrq_done = @ + 1, !.done_data = FALSE,
            !.own = FALSE, !.moved = FALSE]

(* A request with retries has no data, so that it starts with              *)
(* atsmb_start_cmd again, inside the handler that ended it.                *)
mmc_request_done(x) ==
  IF x.cmd_error /\ x.retries > 0
  THEN atsmb_start_cmd(atsmb_request(
         [x EXCEPT !.retries = @ - 1, !.cmd_error = FALSE]))
  ELSE [x EXCEPT !.done = @ + 1]

(* A mistake: the second end of a request is not told from the first.      *)
atsmb_request_end_NoCount(x) ==
  mmc_request_done([x EXCEPT !.mrq_done = IF @ > 0 THEN @ - 1 ELSE 0])

atsmb_request_end(x) ==
  IF x.mrq_done = 0 THEN x
  ELSE mmc_request_done([x EXCEPT !.mrq_done = @ - 1])

(* The last lines of both handlers, with atsmb_wait_done.                  *)
WakeUp(x) ==
  IF x.done_data
  THEN [x EXCEPT !.soft_timeout = FALSE, !.complete = @ + 1,
                 !.done_data = FALSE]
  ELSE atsmb_request_end(x)

-----------------------------------------------------------------------------
(* The interrupt handlers.                                                 *)

BothErrors(x, bad) == [x EXCEPT !.cmd_error = bad, !.data_error = bad]

(* No response is taken for a time-out.                                    *)
atsmb_fmt_check_rsp(x, rsp) ==
  [x EXCEPT !.resp = rsp, !.cmd_error = @ \/ rsp = "zero"]

(* What atsmb_regular_isr makes of the status: by the command the host was *)
(* given, not by the request.  slot: there is a card.                      *)
Verdict(x, slot) ==
  CASE x.opcode \in {"write1", "iowrite"}
         -> BothErrors(x, ~({"XFER_DONE", "RSP_DONE"} \subseteq x.status))
    [] x.opcode \in {"readN", "writeN"}
         -> BothErrors(x, "XFER_DONE" \notin x.status)
    [] x.opcode \in {"read1", "ioread"} -> BothErrors(x, TRUE)
    [] x.opcode \notin StartsData \cup {"status"} /\ x.kind \in HasData
         -> BothErrors(x, TRUE)
    [] OTHER
         -> IF "RSP_DONE" \in x.status /\ x.opcode = "status" /\ ~slot
            THEN [x EXCEPT !.cmd_error = TRUE, !.retries = 0]
            ELSE [x EXCEPT !.cmd_error = "RSP_DONE" \notin x.status]

(* Both registers of the host, and what the DMA engine has raised with it. *)
Quiet(x) == [x EXCEPT !.mask = {}, !.status = {}, !.pdma = "none"]

atsmb_regular_isr(x, rsp, slot) ==
  WakeUp(Quiet(atsmb_fmt_check_rsp(Verdict(x, slot), rsp)))

atsmb_dma_isr(x, rsp) ==
  LET good == x.pdma = "ok"
      judged == IF x.kind \in HasData /\ (~good \/ x.DmaIntMask)
                THEN BothErrors(x, ~good) ELSE x
      read == IF x.DmaIntMask THEN atsmb_fmt_check_rsp(judged, rsp) ELSE judged
      closed == [read EXCEPT !.pdma = "none", !.ier = FALSE]
  IN IF ~good \/ x.DmaIntMask THEN WakeUp(closed) ELSE closed

RegularIrq == h.mask \cap h.status # {}
DmaIrq == h.pdma # "none" /\ h.ier

Interrupt ==
  /\ \E rsp \in {"zero", "busy", "tran"}, slot \in BOOLEAN :
       \/ RegularIrq /\ h' = atsmb_regular_isr(h, rsp, slot)
       \/ DmaIrq /\ h' = atsmb_dma_isr(h, rsp)
  /\ UNCHANGED <<pc, polls>>

-----------------------------------------------------------------------------
(* The caller.                                                             *)

(* A step from one place to another that nothing interrupts.               *)
At(here, there) ==
  pc = here /\ ~RegularIrq /\ ~DmaIrq /\ pc' = there

(* mmc_wait_for_req and mmc_start_request.  A request that finds the host  *)
(* idle, without the interrupt of an unanswered poll, starts afresh.       *)
Request(r) ==
  /\ At("idle", CASE r.kind \in Blocks -> "poll"
                  [] r.kind \in Sdio -> "data"
                  [] OTHER -> "start")
  /\ h' = atsmb_request(
       [h EXCEPT !.kind = r.kind, !.retries = r.retries, !.resp = "zero",
                 !.cmd_error = FALSE, !.data_error = FALSE,
                 !.complete = 0, !.done = 0,
                 !.late = @ /\ (h.op # "none" \/ "RSP_DONE" \in h.mask)])
  /\ polls' = MaxPolls

(* The host is prepared and its interrupts enabled, the DMA engine is set  *)
(* up, and the command is given to the host: in atsmb_start_cmd, without   *)
(* the engine, in atsmb_cmd_with_data_back, and in atsmb_start_data.  An   *)
(* interrupt may come between any two of them.                             *)
Prepare ==
  /\ \/ At("start", IF h.kind = "back" THEN "start_dma" ELSE "start_issue")
     \/ At("data_prep", "data_dma")
  /\ h' = atsmb_prep_cmd(h, h.kind)
  /\ UNCHANGED polls

SetUpDma ==
  /\ At("start_dma", "start_issue") \/ At("data_dma", "data_issue")
  /\ h' = atsmb_config_dma(h, h.kind)
  /\ UNCHANGED polls

Issue ==
  /\ At("start_issue", "wait") \/ At("data_issue", "data_wait")
  /\ h' = atsmb_issue_cmd(h, h.kind)
  /\ UNCHANGED polls

(* atsmb_start_data announces its completion before each of its commands.  *)
Announced == [h EXCEPT !.done_data = TRUE, !.soft_timeout = TRUE]

(* A mistake: the turns are not counted.                                   *)
PollAnnounce_Uncounted ==
  /\ At("poll", "poll_prep")
  /\ h' = Announced
  /\ UNCHANGED polls

(* A turn of the loop that waits for the card to be in the transfer state. *)
PollAnnounce ==
  /\ At("poll", "poll_prep")
  /\ h' = Announced
  /\ polls' = polls - 1

PollPrepare ==
  /\ At("poll_prep", "poll_issue")
  /\ h' = atsmb_prep_cmd(h, "status")
  /\ UNCHANGED polls

PollIssue ==
  /\ At("poll_issue", "poll_wait")
  /\ h' = atsmb_issue_cmd(h, "status")
  /\ UNCHANGED polls

PollWait ==
  /\ At("poll_wait", "poll_check") /\ h.complete > 0
  /\ h' = [h EXCEPT !.complete = @ - 1]
  /\ UNCHANGED polls

(* The timer of wait_for_completion_timeout: the registers are printed,    *)
(* and the loop goes on with what cmd and resp hold.                       *)
PollTimeout ==
  /\ At("poll_wait", "poll_check") /\ h.complete = 0
  /\ h' = [h EXCEPT !.late = TRUE]
  /\ UNCHANGED polls

(* The loop also ends when the card was never in that state.               *)
PollCheck ==
  /\ At("poll_check", IF h.cmd_error THEN "end"
                      ELSE IF h.resp # "tran" /\ polls > 0 THEN "poll"
                      ELSE "data")
  /\ UNCHANGED <<h, polls>>

(* A mistake: soft_timeout is left as the poll left it.                    *)
DataAnnounce_OldFlag ==
  /\ At("data", "data_prep")
  /\ h' = [h EXCEPT !.done_data = TRUE, !.opcode = h.kind]
  /\ UNCHANGED polls

DataAnnounce ==
  /\ At("data", "data_prep")
  /\ h' = [Announced EXCEPT !.opcode = h.kind]
  /\ UNCHANGED polls

DataWait ==
  /\ At("data_wait", "data_check") /\ h.complete > 0
  /\ h' = [h EXCEPT !.complete = @ - 1]
  /\ UNCHANGED polls

(* The timer of wait_for_completion_timeout, also while the command is     *)
(* still under way.                                                        *)
DataTimeout ==
  /\ At("data_wait", "data_check") /\ h.complete = 0
  /\ UNCHANGED <<h, polls>>

(* After an error host->opcode stays as it is.                             *)
DataCheck ==
  /\ At("data_check", IF h.soft_timeout THEN "data_reset" ELSE "end")
  /\ h' = IF h.soft_timeout \/ h.cmd_error \/ h.data_error THEN h
          ELSE [h EXCEPT !.opcode = "none"]
  /\ UNCHANGED polls

(* A mistake: after a time-out the interrupts stay enabled.                *)
DataReset_MasksOn ==
  /\ At("data_reset", "end")
  /\ h' = BothErrors([h EXCEPT !.pdma = "none", !.ier = FALSE], TRUE)
  /\ UNCHANGED polls

(* The path of a time-out: the DMA engine is reset, the host is not.       *)
DataReset ==
  /\ At("data_reset", "end")
  /\ h' = BothErrors([h EXCEPT !.pdma = "none", !.ier = FALSE, !.mask = {}],
                     TRUE)
  /\ UNCHANGED polls

EndData ==
  /\ At("end", "wait")
  /\ h' = atsmb_request_end(h)
  /\ UNCHANGED polls

(* The end of wait_for_completion in mmc_wait_for_req, which then looks at *)
(* the errors, and returns.                                                *)
Report ==
  /\ At("wait", "report") /\ h.done > 0
  /\ UNCHANGED <<h, polls>>

Return ==
  /\ At("report", "idle")
  /\ UNCHANGED <<h, polls>>

Caller ==
  \/ Prepare \/ SetUpDma \/ Issue
  \/ PollAnnounce \/ PollPrepare \/ PollIssue
  \/ PollWait \/ PollTimeout \/ PollCheck
  \/ DataAnnounce \/ DataWait \/ DataTimeout \/ DataCheck \/ DataReset
  \/ EndData
  \/ Report \/ Return

-----------------------------------------------------------------------------
(* The host and its DMA engine.  What a transfer has to report after the   *)
(* response is raised at one time; which handler runs first is open.       *)

Ended == [h EXCEPT !.op = "none"]

(* The response to a command that a transfer follows.                      *)
Response ==
  /\ h.op \in HasData /\ "RSP_DONE" \notin h.status /\ ~RegularIrq /\ ~DmaIrq
  /\ h' = [h EXCEPT !.status = @ \cup {"RSP_DONE"}]
  /\ UNCHANGED <<pc, polls>>

CommandDone ==
  /\ h.op # "none" /\ ~RegularIrq /\ ~DmaIrq
  /\ h' = [Ended EXCEPT
             !.status = @ \cup {"RSP_DONE"} \cup
                        IF h.op \in HasData THEN {"XFER_DONE"} ELSE {},
             !.pdma = IF h.op \in HasData /\ h.ier THEN "ok" ELSE @,
             !.moved = @ \/ (h.own /\ h.op = h.kind)]
  /\ UNCHANGED <<pc, polls>>

CommandFails ==
  /\ h.op # "none" /\ ~RegularIrq /\ ~DmaIrq
  /\ \/ h' = [Ended EXCEPT !.status = @ \cup {"ERROR"}]
     \/ /\ h.op \in HasData /\ h.ier
        /\ \E s \in {{}, {"ERROR"}} :
             h' = [Ended EXCEPT !.status = @ \cup s, !.pdma = "error"]
  /\ UNCHANGED <<pc, polls>>

(* No interrupt tells of the end of a transfer, as after a bad CRC in one  *)
(* of several blocks.                                                      *)
CommandLost ==
  /\ h.op \in StartsData /\ ~RegularIrq /\ ~DmaIrq
  /\ h' = Ended
  /\ UNCHANGED <<pc, polls>>

Hardware == Response \/ CommandDone \/ CommandFails \/ CommandLost

Init ==
  /\ pc = "idle" /\ polls = 0
  /\ h = [kind |-> "cmd", retries |-> 0,
          cmd_error |-> FALSE, data_error |-> FALSE, resp |-> "zero",
          mrq_done |-> 0, done_data |-> FALSE, soft_timeout |-> FALSE,
          opcode |-> "cmd", DmaIntMask |-> FALSE, complete |-> 0, done |-> 0,
          mask |-> {}, status |-> {}, pdma |-> "none", ier |-> FALSE,
          op |-> "none", own |-> FALSE, moved |-> FALSE, late |-> FALSE]

Next ==
  \/ \E r \in Requests : Request(r)
  \/ Caller \/ Interrupt \/ Hardware

(* The caller is scheduled, interrupts are served, the host ends what it   *)
(* was given or says nothing.                                              *)
Spec ==
  Init /\ [][Next]_vars
  /\ WF_vars(Caller) /\ WF_vars(Interrupt) /\ WF_vars(Hardware)

-----------------------------------------------------------------------------
(* Every variable has its type.                                            *)
TypeOK ==
  /\ h \in Host
  /\ pc \in {"idle", "start", "start_dma", "start_issue", "wait", "report",
             "poll", "poll_prep", "poll_issue", "poll_wait", "poll_check",
             "data", "data_prep", "data_dma", "data_issue", "data_wait",
             "data_check", "data_reset", "end"}
  /\ polls \in 0 .. MaxPolls

(* mmc_request_done ends a request once, although an error raises both     *)
(* interrupts, the second of which finds nobody announced and ends the     *)
(* request on its own, and atsmb_start_data ends it again.  A second       *)
(* complete() would write to the stack frame of a caller that has gone.    *)
EndsOnce == h.done <= 1

(* A request reported without an error was carried out, whatever was lost  *)
(* or refused on the way and however often it was tried; but for a request *)
(* with a poll that no answer came to in time, or prepared before the end  *)
(* of a command that had been given up on.                                 *)
SuccessIsTransferred ==
  pc = "report" /\ ~h.cmd_error /\ ~h.data_error /\ ~h.late => h.moved

(* "Now, we can safely issue read/write command" (mmc_atsmb.c:710): a      *)
(* handler writes to the request and completes what done_data points to;   *)
(* whenever it runs, the caller is still there, and if done_data is set,   *)
(* so is the stack frame of atsmb_start_data.  A poll that is answered     *)
(* late breaks it.                                                         *)
CallerIsThere ==
  RegularIrq \/ DmaIrq =>
    /\ pc # "idle"
    /\ h.done_data => pc \notin {"start", "start_dma", "start_issue", "wait",
                                 "report"}

(* Without such a poll, and when no command is prepared before the end of  *)
(* one that was given up on, it holds, although the time-out of a transfer *)
(* leaves done_data pointing at the frame.                                 *)
HandlerFindsCaller == ~h.late => CallerIsThere

(* Every request comes to an end, also one that a handler starts again.    *)
EveryRequestEnds == pc # "idle" ~> pc = "idle"
=============================================================================
