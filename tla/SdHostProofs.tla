---------------------------- MODULE SdHostProofs ----------------------------
(***************************************************************************)
(* The SD/MMC host for every set of requests, any number of retries and of *)
(* polls: a request is ended once; and as long as no command that a timer  *)
(* gave up on can be taken for another (~h.late), what is reported as done *)
(* was done, and no handler runs without its caller.                       *)
(***************************************************************************)
EXTENDS SdHost, TLAPS

Good(x) == ~x.cmd_error /\ ~x.data_error

(* The caller has not given the host a command of its own: a command of an *)
(* earlier request may still be under way after its time-out, but it can   *)
(* interrupt nobody, and no interrupt waits for a response.                *)
Calm(x) ==
  /\ x.mask \cap x.status = {} /\ x.pdma = "none" /\ "RSP_DONE" \notin x.mask
  /\ x.op # "none" => x.mask = {} /\ ~x.ier

(* The host is prepared for the command the request is about.              *)
Ready(x) ==
  /\ x.opcode = x.kind /\ x.op = "none" /\ x.status = {} /\ x.pdma = "none"
  /\ x.kind \in HasData => "RSP_DONE" \notin x.mask

(* That command is under way, or reports its end.                          *)
InFlight(x) ==
  /\ x.opcode = x.kind
  /\ x.kind \in HasData => "RSP_DONE" \notin x.mask
  /\ x.op # "none" => /\ x.op = x.kind /\ x.own /\ x.pdma = "none"
                      /\ x.status \subseteq {"RSP_DONE"}
                      /\ x.kind \in Plain => x.status = {}
  /\ "XFER_DONE" \in x.status => x.moved
  /\ x.kind \in Plain /\ "RSP_DONE" \in x.status => x.moved
  /\ x.pdma = "ok" => x.moved

(* A SEND_STATUS of atsmb_start_data is, or its end was handled.           *)
PollFlight(x) ==
  /\ x.opcode = "status" /\ x.pdma = "none" /\ x.op \in {"none", "status"}
  /\ x.op # "none" => x.status = {}
  /\ x.done_data => x.complete = 0
  /\ ~x.done_data => /\ x.op = "none" /\ x.status = {} /\ x.mask = {}
                     /\ x.complete = 1

(* The transfer is; done_data is cleared by the first handler that reports *)
(* its end.                                                                *)
DataFlight(x) ==
  /\ InFlight(x)
  /\ x.done_data = x.soft_timeout
  /\ ~x.done_data => x.op = "none" /\ (Good(x) => x.moved)

(* A command without atsmb_start_data; done is 1 when it has been ended.   *)
CmdFlight(x) ==
  /\ InFlight(x) /\ ~x.done_data
  /\ x.kind \in Plain => x.pdma = "none"
  /\ x.done = 1 => /\ x.op = "none" /\ "RSP_DONE" \notin x.mask
                   /\ Good(x) => x.moved

(* atsmb_start_data has ended its request.                                 *)
DataEnded(x) == Calm(x) /\ (Good(x) => x.moved)

StartPcs == {"start_dma", "start_issue"}
ReadyPcs == {"data_dma", "data_issue"}
PollPcs == {"poll", "poll_prep", "poll_issue", "poll_wait", "poll_check"}
DataPcs == {"data_wait", "data_check", "data_reset"}
Before == {"poll", "poll_prep", "poll_check", "data", "data_prep"}

(* What holds of the host x while the caller is at w, as long as no        *)
(* command that was given up on can be taken for another.                  *)
HostAt(w, x) ==
  /\ w = "idle" => Calm(x)
  /\ w \in PollPcs => x.kind \in Blocks
  /\ w \in DataPcs \cup ReadyPcs \cup {"data", "data_prep", "end"} =>
       x.kind \in StartsData
  /\ w \in StartPcs \cup {"start"} => /\ x.kind \notin StartsData
                                      /\ ~x.done_data /\ x.done = 0
  /\ w = "start_dma" => x.kind = "back"
  /\ w = "start" => Calm(x)
  /\ w \in StartPcs \cup ReadyPcs => Ready(x)
  /\ w \in Before => Calm(x)
  /\ w \in Before \cup ReadyPcs \cup {"poll_issue"} => x.complete = 0
  /\ w \in {"poll_prep", "poll_issue", "data_prep"} \cup ReadyPcs => x.done_data
  /\ w \in {"data_prep"} \cup ReadyPcs => x.soft_timeout
  /\ w = "poll_issue" => /\ x.opcode = "status" /\ x.op = "none"
                         /\ x.status = {} /\ x.pdma = "none"
  /\ w = "poll_wait" => PollFlight(x)
  /\ w \in DataPcs => DataFlight(x)
  /\ w = "data_wait" => x.complete = IF x.done_data THEN 0 ELSE 1
  /\ w = "end" => DataEnded(x)
  /\ w = "wait" => IF x.kind \in StartsData THEN DataEnded(x) /\ x.done = 1
                   ELSE CmdFlight(x)
  /\ w = "report" => DataEnded(x) /\ x.done = 1

(* What holds of every behaviour: the request is ended once.               *)
Base ==
  /\ TypeOK
  /\ h.kind \in HasData => h.retries = 0
  /\ h.pdma # "none" => h.ier
  /\ pc = "poll" => polls > 0
  /\ pc = "idle" => h.mrq_done = 0 /\ h.done <= 1
  /\ pc # "idle" => h.mrq_done + h.done = 1
  /\ pc = "report" => h.done = 1

(* The inductive invariant.                                                *)
IInv == Base /\ (~h.late => HostAt(pc, h))

-----------------------------------------------------------------------------
(* The update of one field.                                                *)
LEMMA SetField ==
  ASSUME NEW x \in Host
  PROVE  /\ \A v \in Codes : [x EXCEPT !.kind = v] \in Host
         /\ \A v \in Nat : [x EXCEPT !.retries = v] \in Host
         /\ \A v \in BOOLEAN : [x EXCEPT !.cmd_error = v] \in Host
         /\ \A v \in BOOLEAN : [x EXCEPT !.data_error = v] \in Host
         /\ \A v \in {"zero", "busy", "tran"} : [x EXCEPT !.resp = v] \in Host
         /\ \A v \in Nat : [x EXCEPT !.mrq_done = v] \in Host
         /\ \A v \in BOOLEAN : [x EXCEPT !.done_data = v] \in Host
         /\ \A v \in BOOLEAN : [x EXCEPT !.soft_timeout = v] \in Host
         /\ \A v \in Codes \cup {"none"} : [x EXCEPT !.opcode = v] \in Host
         /\ \A v \in BOOLEAN : [x EXCEPT !.DmaIntMask = v] \in Host
         /\ \A v \in Nat : [x EXCEPT !.complete = v] \in Host
         /\ \A v \in Nat : [x EXCEPT !.done = v] \in Host
         /\ \A v \in SUBSET Bits : [x EXCEPT !.mask = v] \in Host
         /\ \A v \in SUBSET Bits : [x EXCEPT !.status = v] \in Host
         /\ \A v \in {"none", "ok", "error"} : [x EXCEPT !.pdma = v] \in Host
         /\ \A v \in BOOLEAN : [x EXCEPT !.ier = v] \in Host
         /\ \A v \in Codes \cup {"none"} : [x EXCEPT !.op = v] \in Host
         /\ \A v \in BOOLEAN : [x EXCEPT !.own = v] \in Host
         /\ \A v \in BOOLEAN : [x EXCEPT !.moved = v] \in Host
         /\ \A v \in BOOLEAN : [x EXCEPT !.late = v] \in Host
<1>1. \A v \in Codes : [x EXCEPT !.kind = v] \in Host
  BY DEF Host
<1>2. \A v \in Nat : [x EXCEPT !.retries = v] \in Host
  BY DEF Host
<1>3. \A v \in BOOLEAN : [x EXCEPT !.cmd_error = v] \in Host
  BY DEF Host
<1>4. \A v \in BOOLEAN : [x EXCEPT !.data_error = v] \in Host
  BY DEF Host
<1>5. \A v \in {"zero", "busy", "tran"} : [x EXCEPT !.resp = v] \in Host
  BY DEF Host
<1>6. \A v \in Nat : [x EXCEPT !.mrq_done = v] \in Host
  BY DEF Host
<1>7. \A v \in BOOLEAN : [x EXCEPT !.done_data = v] \in Host
  BY DEF Host
<1>8. \A v \in BOOLEAN : [x EXCEPT !.soft_timeout = v] \in Host
  BY DEF Host
<1>9. \A v \in Codes \cup {"none"} : [x EXCEPT !.opcode = v] \in Host
  BY DEF Host
<1>10. \A v \in BOOLEAN : [x EXCEPT !.DmaIntMask = v] \in Host
  BY DEF Host
<1>11. \A v \in Nat : [x EXCEPT !.complete = v] \in Host
  BY DEF Host
<1>12. \A v \in Nat : [x EXCEPT !.done = v] \in Host
  BY DEF Host
<1>13. \A v \in SUBSET Bits : [x EXCEPT !.mask = v] \in Host
  BY DEF Host
<1>14. \A v \in SUBSET Bits : [x EXCEPT !.status = v] \in Host
  BY DEF Host
<1>15. \A v \in {"none", "ok", "error"} : [x EXCEPT !.pdma = v] \in Host
  BY DEF Host
<1>16. \A v \in BOOLEAN : [x EXCEPT !.ier = v] \in Host
  BY DEF Host
<1>17. \A v \in Codes \cup {"none"} : [x EXCEPT !.op = v] \in Host
  BY DEF Host
<1>18. \A v \in BOOLEAN : [x EXCEPT !.own = v] \in Host
  BY DEF Host
<1>19. \A v \in BOOLEAN : [x EXCEPT !.moved = v] \in Host
  BY DEF Host
<1>20. \A v \in BOOLEAN : [x EXCEPT !.late = v] \in Host
  BY DEF Host
<1> QED BY <1>1, <1>2, <1>3, <1>4, <1>5, <1>6, <1>7, <1>8, <1>9, <1>10, <1>11,
           <1>12, <1>13, <1>14, <1>15, <1>16, <1>17, <1>18, <1>19, <1>20

(* The types of the fields, for provers that need not see the whole.       *)
LEMMA FieldTypes ==
  ASSUME NEW x \in Host
  PROVE  /\ x.kind \in Codes /\ x.retries \in Nat
         /\ x.cmd_error \in BOOLEAN /\ x.data_error \in BOOLEAN
         /\ x.mrq_done \in Nat /\ x.done \in Nat /\ x.complete \in Nat
         /\ x.done_data \in BOOLEAN /\ x.soft_timeout \in BOOLEAN
         /\ x.DmaIntMask \in BOOLEAN /\ x.ier \in BOOLEAN
         /\ x.own \in BOOLEAN /\ x.moved \in BOOLEAN /\ x.late \in BOOLEAN
         /\ x.opcode \in Codes \cup {"none"} /\ x.op \in Codes \cup {"none"}
         /\ x.mask \in SUBSET Bits /\ x.status \in SUBSET Bits
         /\ x.pdma \in {"none", "ok", "error"}
BY DEF Host

(* Two hosts that agree on the request and its completions, on the command *)
(* under way, on the registers.                                            *)
SameRequest(y, x) ==
  /\ y.kind = x.kind /\ y.mrq_done = x.mrq_done /\ y.done = x.done
  /\ y.done_data = x.done_data /\ y.soft_timeout = x.soft_timeout
  /\ y.complete = x.complete
SameErrors(y, x) == y.cmd_error = x.cmd_error /\ y.data_error = x.data_error
SameCommand(y, x) ==
  /\ y.opcode = x.opcode /\ y.op = x.op /\ y.own = x.own
  /\ y.moved = x.moved /\ y.late = x.late
SameRegisters(y, x) ==
  /\ y.mask = x.mask /\ y.status = x.status
  /\ y.pdma = x.pdma /\ y.ier = x.ier

LEMMA MasksFacts ==
  ASSUME NEW k \in Codes
  PROVE  /\ Masks(k) \in SUBSET Bits
         /\ k \in HasData => "RSP_DONE" \notin Masks(k)
BY DEF Masks, Bits, Plain, HasData, StartsData, Blocks, Sdio, DmaReports

LEMMA PlainHasNoData == Plain \cap HasData = {} /\ StartsData \subseteq HasData
BY DEF Plain, HasData, StartsData, Blocks, Sdio

-----------------------------------------------------------------------------
(* What the functions of the driver do to the host.                        *)

LEMMA PrepFacts ==
  ASSUME NEW x \in Host, NEW k \in Codes
  PROVE  LET y == atsmb_prep_cmd(x, k)
         IN  /\ y \in Host /\ SameRequest(y, x) /\ SameErrors(y, x)
             /\ y.retries = x.retries /\ y.opcode = k /\ y.op = x.op
             /\ y.status = {} /\ y.mask = x.mask \cup Masks(k)
             /\ y.pdma = x.pdma /\ y.ier = x.ier
             /\ ~y.late => ~x.late /\ x.op = "none"
<1> DEFINE y == atsmb_prep_cmd(x, k)
<1>1. /\ x.mask \cup Masks(k) \in SUBSET Bits /\ {} \in SUBSET Bits
      /\ k \in Codes \cup {"none"} /\ (x.late \/ x.op # "none") \in BOOLEAN
  BY FieldTypes, MasksFacts
<1>2. y \in Host
  BY <1>1, SetField DEF atsmb_prep_cmd
<1>3. /\ SameRequest(y, x) /\ SameErrors(y, x) /\ y.retries = x.retries
      /\ y.opcode = k /\ y.op = x.op
      /\ y.status = {} /\ y.mask = x.mask \cup Masks(k)
      /\ y.pdma = x.pdma /\ y.ier = x.ier
      /\ ~y.late => ~x.late /\ x.op = "none"
  BY DEF Host, atsmb_prep_cmd, SameRequest, SameErrors
<1> QED BY <1>2, <1>3

LEMMA ConfigFacts ==
  ASSUME NEW x \in Host, NEW k \in Codes
  PROVE  LET y == atsmb_config_dma(x, k)
         IN  /\ y \in Host /\ SameRequest(y, x) /\ SameErrors(y, x)
             /\ SameCommand(y, x) /\ y.retries = x.retries
             /\ y.mask = x.mask /\ y.status = x.status
             /\ y.pdma = "none" /\ y.ier
<1>1. /\ TRUE \in BOOLEAN /\ (k \in DmaReports) \in BOOLEAN
      /\ "none" \in {"none", "ok", "error"}
  OBVIOUS
<1>2. atsmb_config_dma(x, k) \in Host
  BY <1>1, SetField DEF atsmb_config_dma
<1> QED BY <1>2 DEF Host, atsmb_config_dma, SameRequest, SameErrors, SameCommand

LEMMA IssueFacts ==
  ASSUME NEW x \in Host, NEW k \in Codes
  PROVE  LET y == atsmb_issue_cmd(x, k)
         IN  /\ y \in Host /\ SameRequest(y, x) /\ SameErrors(y, x)
             /\ SameRegisters(y, x) /\ y.retries = x.retries
             /\ y.opcode = x.opcode /\ y.op = k /\ y.own
             /\ y.late = x.late
<1>1. TRUE \in BOOLEAN /\ k \in Codes \cup {"none"}
  OBVIOUS
<1>2. atsmb_issue_cmd(x, k) \in Host
  BY <1>1, SetField DEF atsmb_issue_cmd
<1> QED BY <1>2 DEF Host, atsmb_issue_cmd, SameRequest, SameErrors,
                    SameRegisters

LEMMA StartCmdFacts ==
  ASSUME NEW x \in Host
  PROVE  LET y == atsmb_start_cmd(x)
         IN  /\ y \in Host /\ SameRequest(y, x)
             /\ y.retries = x.retries
             /\ y.opcode = x.kind /\ y.op = x.kind /\ y.own
             /\ y.status = {} /\ y.pdma = x.pdma /\ y.ier = x.ier
             /\ ~y.late => ~x.late /\ x.op = "none"
<1> DEFINE p == atsmb_prep_cmd(x, x.kind)
           y == atsmb_issue_cmd(p, x.kind)
<1>1. x.kind \in Codes
  BY FieldTypes
<1>2. /\ p \in Host /\ SameRequest(p, x) /\ p.retries = x.retries
      /\ p.opcode = x.kind /\ p.status = {} /\ p.pdma = x.pdma
      /\ p.ier = x.ier /\ (~p.late => ~x.late /\ x.op = "none")
  BY <1>1, PrepFacts
<1> HIDE DEF p
<1>3. /\ y \in Host /\ SameRequest(y, p) /\ SameRegisters(y, p)
      /\ y.retries = p.retries /\ y.opcode = p.opcode /\ y.op = x.kind
      /\ y.own /\ y.late = p.late
  BY <1>1, <1>2, IssueFacts
<1> HIDE DEF y
<1>4. atsmb_start_cmd(x) = y
  BY DEF atsmb_start_cmd, y, p
<1>5. SameRequest(y, x) /\ y.status = {} /\ y.pdma = x.pdma /\ y.ier = x.ier
  BY <1>2, <1>3 DEF SameRequest, SameRegisters
<1> QED BY <1>2, <1>3, <1>4, <1>5

LEMMA RequestFacts ==
  ASSUME NEW x \in Host
  PROVE  LET y == atsmb_request(x)
         IN  /\ y \in Host /\ y.mrq_done = x.mrq_done + 1
             /\ y.kind = x.kind /\ y.retries = x.retries /\ y.done = x.done
             /\ y.complete = x.complete /\ SameErrors(y, x)
             /\ ~y.done_data /\ y.opcode = x.opcode /\ y.op = x.op
             /\ SameRegisters(y, x) /\ y.late = x.late
<1>1. x.mrq_done + 1 \in Nat /\ FALSE \in BOOLEAN
  BY FieldTypes
<1>2. atsmb_request(x) \in Host
  BY <1>1, SetField DEF atsmb_request
<1> QED BY <1>2 DEF Host, atsmb_request, SameErrors, SameRegisters

(* The three ways a request can end: for the second time, with a retry,    *)
(* and with the completion of its caller.                                  *)
LEMMA EndFacts ==
  ASSUME NEW x \in Host, x.mrq_done + x.done = 1
  PROVE  LET y == atsmb_request_end(x)
         IN  /\ y \in Host /\ y.kind = x.kind
             /\ y.mrq_done + y.done = 1
             /\ y.retries = x.retries \/ y.retries = x.retries - 1
             /\ x.retries = 0 => y.retries = 0
             /\ y.pdma = x.pdma /\ y.ier = x.ier
             /\ \/ /\ y.done = 1 /\ SameErrors(y, x) /\ SameCommand(y, x)
                   /\ y.mask = x.mask /\ y.status = x.status
                   /\ y.done_data = x.done_data /\ y.complete = x.complete
                   /\ y.soft_timeout = x.soft_timeout
                \/ /\ y.done = 0 /\ x.retries > 0 /\ ~y.done_data
                   /\ y.opcode = x.kind /\ y.op = x.kind /\ y.own
                   /\ y.status = {}
                   /\ ~y.late => ~x.late /\ x.op = "none"
<1> DEFINE y == atsmb_request_end(x)
           e == [x EXCEPT !.mrq_done = @ - 1]
           f == [e EXCEPT !.retries = @ - 1]
           g == [f EXCEPT !.cmd_error = FALSE]
           r == atsmb_request(g)
<1>0. x.mrq_done \in Nat /\ x.done \in Nat /\ x.retries \in Nat
  BY FieldTypes
<1>1. CASE x.mrq_done = 0
  BY <1>0, <1>1 DEF atsmb_request_end, SameErrors, SameCommand
<1>2. CASE x.mrq_done # 0
  <2>1. x.mrq_done = 1 /\ x.done = 0 /\ x.mrq_done - 1 \in Nat
    BY <1>0, <1>2
  <2>2. /\ e \in Host /\ e.mrq_done = 0 /\ e.done = 0 /\ e.kind = x.kind
        /\ e.retries = x.retries /\ SameErrors(e, x) /\ SameCommand(e, x)
        /\ SameRegisters(e, x) /\ e.done_data = x.done_data
        /\ e.complete = x.complete /\ e.soft_timeout = x.soft_timeout
    BY <2>1 DEF Host, SameErrors, SameCommand, SameRegisters
  <2>3. y = mmc_request_done(e)
    BY <1>2 DEF atsmb_request_end
  <2> HIDE DEF e
  <2>4. CASE e.cmd_error /\ e.retries > 0
    <3>1. /\ f \in Host /\ f.mrq_done = 0 /\ f.done = 0 /\ f.kind = x.kind
          /\ f.retries = x.retries - 1 /\ f.pdma = x.pdma /\ f.ier = x.ier
          /\ f.late = x.late /\ f.op = x.op
      <4>1. e.retries - 1 \in Nat
        BY <2>4, <2>2, <1>0
      <4> QED BY <4>1, <2>2 DEF Host, SameRegisters, SameCommand
    <3> HIDE DEF f
    <3>2. /\ g \in Host /\ g.mrq_done = 0 /\ g.done = 0 /\ g.kind = x.kind
          /\ g.retries = x.retries - 1 /\ g.pdma = x.pdma /\ g.ier = x.ier
          /\ g.late = x.late /\ g.op = x.op
      BY <3>1 DEF Host
    <3>3. y = atsmb_start_cmd(r)
      BY <2>3, <2>4 DEF mmc_request_done, f
    <3> HIDE DEF g, y
    <3>4. /\ r \in Host /\ r.mrq_done = 1 /\ r.done = 0 /\ r.kind = x.kind
          /\ r.retries = x.retries - 1 /\ r.pdma = x.pdma /\ r.ier = x.ier
          /\ ~r.done_data /\ r.late = x.late /\ r.op = x.op
      BY <3>2, RequestFacts DEF SameRegisters
    <3> HIDE DEF r
    <3>5. /\ y \in Host /\ SameRequest(y, r) /\ y.retries = r.retries
          /\ y.opcode = r.kind /\ y.op = r.kind /\ y.own
          /\ y.status = {} /\ y.pdma = r.pdma /\ y.ier = r.ier
          /\ ~y.late => ~r.late /\ r.op = "none"
      BY <3>3, <3>4, StartCmdFacts
    <3> QED BY <3>4, <3>5, <2>2, <2>4, <1>0 DEF SameRequest, y
  <2>5. CASE ~(e.cmd_error /\ e.retries > 0)
    <3>1. y = [e EXCEPT !.done = @ + 1]
      BY <2>3, <2>5 DEF mmc_request_done
    <3> HIDE DEF y
    <3>2. /\ y \in Host /\ y.done = 1 /\ y.mrq_done = 0 /\ y.kind = e.kind
          /\ y.retries = e.retries /\ SameErrors(y, e) /\ SameCommand(y, e)
          /\ SameRegisters(y, e) /\ y.done_data = e.done_data
          /\ y.complete = e.complete /\ y.soft_timeout = e.soft_timeout
      BY <3>1, <2>2 DEF Host, SameErrors, SameCommand, SameRegisters
    <3> QED BY <3>2, <2>2 DEF SameErrors, SameCommand, SameRegisters, y
  <2> QED BY <2>4, <2>5
<1> QED BY <1>1, <1>2

(* The first handler that finds done_data set completes the caller of      *)
(* atsmb_start_data.                                                       *)
LEMMA CompleteFacts ==
  ASSUME NEW x \in Host, x.done_data
  PROVE  LET y == WakeUp(x)
         IN  /\ y \in Host /\ y.kind = x.kind /\ y.retries = x.retries
             /\ y.mrq_done = x.mrq_done /\ y.done = x.done
             /\ y.complete = x.complete + 1
             /\ ~y.done_data /\ ~y.soft_timeout
             /\ SameErrors(y, x) /\ SameCommand(y, x) /\ SameRegisters(y, x)
<1>1. x.complete + 1 \in Nat /\ FALSE \in BOOLEAN
  BY FieldTypes
<1>2. WakeUp(x) \in Host
  BY <1>1, SetField DEF WakeUp
<1>3. LET y == WakeUp(x)
      IN  /\ y.kind = x.kind /\ y.retries = x.retries
          /\ y.mrq_done = x.mrq_done /\ y.done = x.done
          /\ y.complete = x.complete + 1
          /\ ~y.done_data /\ ~y.soft_timeout
  BY DEF Host, WakeUp
<1>4. LET y == WakeUp(x)
      IN  SameErrors(y, x) /\ SameCommand(y, x) /\ SameRegisters(y, x)
  BY DEF Host, WakeUp, SameErrors, SameCommand, SameRegisters
<1> QED BY <1>2, <1>3, <1>4

LEMMA BothErrorsFacts ==
  ASSUME NEW x \in Host, NEW bad \in BOOLEAN
  PROVE  LET y == BothErrors(x, bad)
         IN  /\ y \in Host /\ SameRequest(y, x) /\ SameCommand(y, x)
             /\ SameRegisters(y, x) /\ y.retries = x.retries
             /\ y.cmd_error = bad /\ y.data_error = bad
<1>1. BothErrors(x, bad) \in Host
  BY SetField DEF BothErrors
<1> QED BY <1>1 DEF Host, BothErrors, SameRequest, SameCommand, SameRegisters

(* The host has reported the end of a transfer, or the response to a       *)
(* command without one.                                                    *)
Told(x) ==
  "XFER_DONE" \in x.status \/ (x.kind \in Plain /\ "RSP_DONE" \in x.status)

LEMMA VerdictFacts ==
  ASSUME NEW x \in Host, NEW slot \in BOOLEAN
  PROVE  LET y == Verdict(x, slot)
         IN  /\ y \in Host /\ SameRequest(y, x) /\ SameCommand(y, x)
             /\ SameRegisters(y, x) /\ y.retries \in {x.retries, 0}
             /\ x.opcode = x.kind /\ Good(y) => Told(x)
<1> DEFINE y == Verdict(x, slot)
           Fine == /\ y \in Host /\ SameRequest(y, x) /\ SameCommand(y, x)
                   /\ SameRegisters(y, x) /\ y.retries \in {x.retries, 0}
                   /\ x.opcode = x.kind /\ Good(y) => Told(x)
<1>1. ASSUME NEW bad \in BOOLEAN, y = BothErrors(x, bad),
             ~bad => "XFER_DONE" \in x.status
      PROVE  Fine
  <2> HIDE DEF y
  <2> QED BY <1>1, BothErrorsFacts DEF Good, Told
<1>2. CASE x.opcode \in {"write1", "iowrite"}
  <2> DEFINE bad == ~({"XFER_DONE", "RSP_DONE"} \subseteq x.status)
  <2>1. y = BothErrors(x, bad)
    BY <1>2 DEF Verdict, StartsData, Blocks, Sdio
  <2>2. bad \in BOOLEAN /\ (~bad => "XFER_DONE" \in x.status)
    OBVIOUS
  <2> QED BY <2>1, <2>2, <1>1
<1>3. CASE x.opcode \in {"readN", "writeN"}
  <2> DEFINE bad == "XFER_DONE" \notin x.status
  <2>1. y = BothErrors(x, bad)
    BY <1>3 DEF Verdict, StartsData, Blocks, Sdio
  <2>2. bad \in BOOLEAN /\ (~bad => "XFER_DONE" \in x.status)
    OBVIOUS
  <2> QED BY <2>1, <2>2, <1>1
<1>4. CASE x.opcode \in {"read1", "ioread"}
  <2>1. y = BothErrors(x, TRUE)
    BY <1>4 DEF Verdict
  <2> QED BY <2>1, <1>1
<1>5. CASE x.opcode \notin StartsData \cup {"status"} /\ x.kind \in HasData
  <2>1. y = BothErrors(x, TRUE)
    BY <1>5 DEF Verdict, StartsData, Blocks, Sdio
  <2> QED BY <2>1, <1>1
<1>6. CASE /\ x.opcode \notin StartsData
           /\ x.opcode = "status" \/ x.kind \notin HasData
  <2>1. y = IF "RSP_DONE" \in x.status /\ x.opcode = "status" /\ ~slot
            THEN [x EXCEPT !.cmd_error = TRUE, !.retries = 0]
            ELSE [x EXCEPT !.cmd_error = "RSP_DONE" \notin x.status]
    BY <1>6 DEF Verdict, StartsData, Blocks, Sdio
  <2> HIDE DEF y
  <2>2. CASE y = [x EXCEPT !.cmd_error = TRUE, !.retries = 0]
    <3>1. y \in Host
      BY <2>2, SetField
    <3>2. SameRequest(y, x) /\ SameCommand(y, x) /\ SameRegisters(y, x)
      BY <2>2 DEF Host, SameRequest, SameCommand, SameRegisters
    <3>3. y.retries = 0 /\ ~Good(y)
      BY <2>2 DEF Host, Good
    <3> QED BY <3>1, <3>2, <3>3 DEF y
  <2>3. CASE y = [x EXCEPT !.cmd_error = "RSP_DONE" \notin x.status]
    <3>1. y \in Host
      BY <2>3, SetField
    <3>2. SameRequest(y, x) /\ SameCommand(y, x) /\ SameRegisters(y, x)
      BY <2>3 DEF Host, SameRequest, SameCommand, SameRegisters
    <3>3. y.retries = x.retries /\ (Good(y) => "RSP_DONE" \in x.status)
      BY <2>3 DEF Host, Good
    <3>4. x.opcode = x.kind => x.kind \in Plain
      BY <1>6, FieldTypes DEF Codes, Plain
    <3> QED BY <3>1, <3>2, <3>3, <3>4 DEF y, Told
  <2> QED BY <2>1, <2>2, <2>3
<1> QED BY <1>2, <1>3, <1>4, <1>5, <1>6 DEF StartsData, Blocks, Sdio

LEMMA CheckRspFacts ==
  ASSUME NEW x \in Host, NEW rsp \in {"zero", "busy", "tran"}
  PROVE  LET y == atsmb_fmt_check_rsp(x, rsp)
         IN  /\ y \in Host /\ SameRequest(y, x) /\ SameCommand(y, x)
             /\ SameRegisters(y, x) /\ y.retries = x.retries
             /\ Good(y) => Good(x)
<1>1. (x.cmd_error \/ rsp = "zero") \in BOOLEAN
  OBVIOUS
<1>2. atsmb_fmt_check_rsp(x, rsp) \in Host
  BY <1>1, SetField DEF atsmb_fmt_check_rsp
<1> QED BY <1>2 DEF Host, atsmb_fmt_check_rsp, SameRequest, SameCommand,
                    SameRegisters, Good

(* What atsmb_regular_isr has found out when it wakes somebody up.         *)
Judged(x, rsp, slot) == Quiet(atsmb_fmt_check_rsp(Verdict(x, slot), rsp))

LEMMA RegularFacts ==
  ASSUME NEW x \in Host, NEW rsp \in {"zero", "busy", "tran"},
         NEW slot \in BOOLEAN
  PROVE  LET y == Judged(x, rsp, slot)
         IN  /\ y \in Host /\ SameRequest(y, x) /\ SameCommand(y, x)
             /\ y.mask = {} /\ y.status = {} /\ y.pdma = "none"
             /\ y.retries \in {x.retries, 0}
             /\ x.opcode = x.kind /\ Good(y) => Told(x)
<1> DEFINE v == Verdict(x, slot)
           c == atsmb_fmt_check_rsp(v, rsp)
           y == Judged(x, rsp, slot)
<1>1. /\ v \in Host /\ SameRequest(v, x) /\ SameCommand(v, x)
      /\ v.retries \in {x.retries, 0}
      /\ x.opcode = x.kind /\ Good(v) => Told(x)
  BY VerdictFacts
<1> HIDE DEF v
<1>2. /\ c \in Host /\ SameRequest(c, v) /\ SameCommand(c, v)
      /\ c.retries = v.retries /\ (Good(c) => Good(v))
  BY <1>1, CheckRspFacts
<1>3. y = Quiet(c)
  BY DEF Judged, v
<1> HIDE DEF c, y
<1>4. y \in Host
  <2>1. {} \in SUBSET Bits
    OBVIOUS
  <2> QED BY <2>1, <1>2, <1>3, SetField DEF Quiet
<1>5. /\ SameRequest(y, c) /\ SameCommand(y, c) /\ y.mask = {}
      /\ y.status = {} /\ y.pdma = "none" /\ y.retries = c.retries
  BY <1>2, <1>3 DEF Host, Quiet, SameRequest, SameCommand
<1>6. Good(y) => Good(c)
  BY <1>2, <1>3 DEF Host, Quiet, Good
<1>7. SameRequest(y, x) /\ SameCommand(y, x)
  BY <1>1, <1>2, <1>5 DEF SameRequest, SameCommand
<1>8. x.opcode = x.kind /\ Good(y) => Told(x)
  BY <1>1, <1>2, <1>6
<1> QED BY <1>1, <1>2, <1>4, <1>5, <1>7, <1>8, Zenon DEF y

(* The same for atsmb_dma_isr, which wakes nobody up when the host will    *)
(* report the end of the command too.                                      *)
Wakes(x) == x.pdma # "ok" \/ x.DmaIntMask

DmaJudged(y, x) ==
  /\ SameRequest(y, x) /\ SameCommand(y, x)
  /\ y.mask = x.mask /\ y.status = x.status /\ y.pdma = "none"
  /\ y.retries = x.retries
  /\ x.kind \in HasData /\ Wakes(x) /\ Good(y) => x.pdma = "ok"
  /\ ~Wakes(x) => SameErrors(y, x)

LEMMA DmaFacts ==
  ASSUME NEW x \in Host, NEW rsp \in {"zero", "busy", "tran"}
  PROVE  \E y \in Host :
           /\ atsmb_dma_isr(x, rsp) = IF Wakes(x) THEN WakeUp(y) ELSE y
           /\ DmaJudged(y, x)
<1> DEFINE good == x.pdma = "ok"
           judged == IF x.kind \in HasData /\ (~good \/ x.DmaIntMask)
                     THEN BothErrors(x, ~good) ELSE x
           read == IF x.DmaIntMask THEN atsmb_fmt_check_rsp(judged, rsp)
                   ELSE judged
           y == [read EXCEPT !.pdma = "none", !.ier = FALSE]
<1>1. x.DmaIntMask \in BOOLEAN /\ good \in BOOLEAN
  BY FieldTypes
<1>2. /\ judged \in Host /\ SameRequest(judged, x) /\ SameCommand(judged, x)
      /\ SameRegisters(judged, x) /\ judged.retries = x.retries
      /\ x.kind \in HasData /\ Wakes(x) /\ Good(judged) => good
      /\ ~Wakes(x) => SameErrors(judged, x)
  <2>1. CASE x.kind \in HasData /\ Wakes(x)
    BY <2>1, <1>1, BothErrorsFacts DEF Wakes, Good
  <2>2. CASE ~(x.kind \in HasData /\ Wakes(x))
    BY <2>2 DEF Wakes, SameRequest, SameCommand, SameRegisters, SameErrors
  <2> QED BY <2>1, <2>2
<1>3. atsmb_dma_isr(x, rsp) = IF Wakes(x) THEN WakeUp(y) ELSE y
  BY <1>1 DEF atsmb_dma_isr, Wakes
<1> HIDE DEF judged
<1>4. /\ read \in Host /\ SameRequest(read, x) /\ SameCommand(read, x)
      /\ SameRegisters(read, x) /\ read.retries = x.retries
      /\ x.kind \in HasData /\ Wakes(x) /\ Good(read) => good
      /\ ~Wakes(x) => SameErrors(read, x)
  <2>1. CASE x.DmaIntMask
    <3>1. /\ read \in Host /\ SameRequest(read, judged)
          /\ SameCommand(read, judged) /\ SameRegisters(read, judged)
          /\ read.retries = judged.retries /\ (Good(read) => Good(judged))
      BY <2>1, <1>2, CheckRspFacts
    <3> HIDE DEF read
    <3>2. SameRequest(read, x) /\ SameCommand(read, x)
          /\ SameRegisters(read, x) /\ read.retries = x.retries
      BY <3>1, <1>2 DEF SameRequest, SameCommand, SameRegisters
    <3>3. Wakes(x) /\ (x.kind \in HasData /\ Good(read) => good)
      BY <3>1, <2>1, <1>2 DEF Wakes
    <3> QED BY <3>1, <3>2, <3>3
  <2>2. CASE ~x.DmaIntMask
    BY <2>2, <1>2
  <2> QED BY <1>1, <2>1, <2>2
<1> HIDE DEF read
<1>5. y \in Host
  BY <1>4, SetField
<1>6. /\ SameRequest(y, read) /\ SameCommand(y, read)
      /\ y.mask = read.mask /\ y.status = read.status /\ y.pdma = "none"
      /\ y.retries = read.retries
  BY <1>4 DEF Host, SameRequest, SameCommand
<1>7. SameErrors(y, read) /\ (Good(y) => Good(read))
  BY <1>4 DEF Host, SameErrors, Good
<1> HIDE DEF y
<1>8. SameRequest(y, x) /\ SameCommand(y, x)
  BY <1>4, <1>6 DEF SameRequest, SameCommand
<1>9. /\ y.mask = x.mask /\ y.status = x.status
      /\ ~Wakes(x) => SameErrors(y, x)
      /\ x.kind \in HasData /\ Wakes(x) /\ Good(y) => good
  BY <1>4, <1>6, <1>7 DEF SameRegisters, SameErrors
<1>10. DmaJudged(y, x)
  BY <1>4, <1>6, <1>8, <1>9 DEF DmaJudged
<1> QED BY <1>3, <1>5, <1>10

-----------------------------------------------------------------------------
(* The invariant at first.                                                 *)

LEMMA InitInv == Init => IInv
<1> SUFFICES ASSUME Init PROVE IInv
  OBVIOUS
<1>1. h \in Host
  BY DEF Init, Host, Codes, Plain, HasData, Bits
<1>2. TypeOK
  BY <1>1, SdAssumption DEF Init, TypeOK
<1>3. Calm(h) /\ h.mrq_done = 0 /\ h.done = 0 /\ h.kind = "cmd"
      /\ h.pdma = "none" /\ pc = "idle"
  BY DEF Init, Calm
<1>4. HostAt(pc, h)
  BY <1>3 DEF HostAt, PollPcs, DataPcs, Before, StartPcs, ReadyPcs
<1>5. h.kind \notin HasData
  BY <1>3 DEF HasData, StartsData, Blocks, Sdio
<1> QED BY <1>2, <1>3, <1>4, <1>5 DEF IInv, Base

-----------------------------------------------------------------------------
(* The steps of the caller.                                                *)

(* The part of the invariant that is the same for all of them.             *)
LEMMA CallerInv ==
  ASSUME IInv, pc # "idle", h' \in Host, h'.kind = h.kind,
         h.retries = 0 => h'.retries = 0,
         h'.pdma # "none" => h'.ier, h'.mrq_done + h'.done = 1,
         polls' \in 0 .. MaxPolls, ~h'.late => HostAt(pc', h'),
         pc' \in {"start_dma", "start_issue", "wait", "end",
                  "poll_prep", "poll_issue", "poll_wait", "poll_check",
                  "data", "data_prep", "data_dma", "data_issue", "data_wait",
                  "data_check", "data_reset"}
  PROVE  IInv'
BY DEF IInv, Base, TypeOK

(* What they find.                                                         *)
LEMMA CallerFinds ==
  ASSUME IInv, pc # "idle"
  PROVE  /\ h \in Host /\ polls \in 0 .. MaxPolls
         /\ h.mrq_done + h.done = 1 /\ (h.pdma # "none" => h.ier)
         /\ h.kind \in Codes /\ (~h.late => HostAt(pc, h))
BY FieldTypes DEF IInv, Base, TypeOK

LEMMA RequestInv ==
  ASSUME IInv, NEW r \in Requests, Request(r) PROVE IInv'
<1> DEFINE l == h.late /\ (h.op # "none" \/ "RSP_DONE" \in h.mask)
           x == [h EXCEPT !.kind = r.kind, !.retries = r.retries,
                          !.resp = "zero", !.cmd_error = FALSE,
                          !.data_error = FALSE, !.complete = 0, !.done = 0,
                          !.late = l]
<1>0. h \in Host
  BY DEF IInv, Base, TypeOK
<1>1. /\ pc = "idle" /\ h' = atsmb_request(x) /\ polls' = MaxPolls
      /\ ~RegularIrq /\ ~DmaIrq
      /\ pc' = CASE r.kind \in Blocks -> "poll" [] r.kind \in Sdio -> "data"
                 [] OTHER -> "start"
  BY <1>0 DEF Request, At, Host
<1>2. /\ h.mrq_done = 0 /\ (h.pdma # "none" => h.ier)
      /\ ~h.late => Calm(h)
  BY <1>1 DEF IInv, Base, HostAt
<1>3. /\ r.kind \in Codes /\ r.retries \in Nat
      /\ r.kind \in HasData => r.retries = 0
  BY SdAssumption DEF Codes
<1>4. /\ "zero" \in {"zero", "busy", "tran"} /\ FALSE \in BOOLEAN /\ 0 \in Nat
      /\ l \in BOOLEAN
  BY <1>0, FieldTypes
<1>12. ~l => Calm(h)
  <2> SUFFICES ASSUME ~l PROVE Calm(h)
    OBVIOUS
  <2>1. CASE ~h.late
    BY <2>1, <1>2
  <2>2. CASE h.late
    <3>1. h.op = "none" /\ "RSP_DONE" \notin h.mask
      BY <2>2
    <3>2. h.pdma = "none"
      BY <1>1, <1>2 DEF DmaIrq
    <3> QED BY <3>1, <3>2, <1>1 DEF Calm, RegularIrq
  <2> QED BY <2>1, <2>2
<1> HIDE DEF l
<1>5. x \in Host
  BY <1>0, <1>3, <1>4, SetField
<1>6. /\ x.kind = r.kind /\ x.retries = r.retries /\ x.mrq_done = 0
      /\ x.complete = 0 /\ x.done = 0 /\ SameRegisters(x, h) /\ x.op = h.op
      /\ x.late = l
  BY <1>0, <1>2 DEF Host, SameRegisters
<1> HIDE DEF x
<1> DEFINE y == h'
<1>7. /\ y \in Host /\ y.mrq_done = 1 /\ y.done = 0 /\ y.complete = 0
      /\ y.kind = r.kind /\ y.retries = r.retries /\ ~y.done_data
      /\ SameRegisters(y, h) /\ y.op = h.op /\ y.late = l
  BY <1>1, <1>5, <1>6, RequestFacts DEF SameRegisters
<1> HIDE DEF y
<1>9. ASSUME ~y.late PROVE HostAt(pc', y)
  <2>0. Calm(y)
    BY <1>9, <1>12, <1>7 DEF Calm, SameRegisters
  <2>1. CASE r.kind \in Blocks
    <3>1. pc' = "poll" /\ r.kind \in StartsData
      BY <2>1, <1>1 DEF StartsData, Blocks, Sdio
    <3> QED BY <3>1, <2>0, <2>1, <1>7
            DEF HostAt, PollPcs, DataPcs, Before, StartPcs, ReadyPcs
  <2>2. CASE r.kind \in Sdio
    <3>1. pc' = "data" /\ r.kind \in StartsData
      BY <2>2, <1>1 DEF StartsData, Blocks, Sdio
    <3> QED BY <3>1, <2>0, <2>2, <1>7
            DEF HostAt, PollPcs, DataPcs, Before, StartPcs, ReadyPcs
  <2>3. CASE r.kind \notin StartsData
    <3>1. pc' = "start"
      BY <2>3, <1>1 DEF StartsData
    <3> QED BY <3>1, <2>0, <2>3, <1>7
            DEF HostAt, PollPcs, DataPcs, Before, StartPcs, ReadyPcs
  <2> QED BY <2>1, <2>2, <2>3 DEF StartsData
<1>10. /\ polls' > 0 /\ polls' \in 0 .. MaxPolls
       /\ pc' \in {"poll", "data", "start"}
  BY <1>1, SdAssumption DEF Blocks, Sdio
<1>11. y.pdma # "none" => y.ier
  BY <1>2, <1>7 DEF SameRegisters
<1> QED BY <1>3, <1>7, <1>9, <1>10, <1>11 DEF IInv, Base, TypeOK, y

LEMMA PrepareInv == ASSUME IInv, Prepare PROVE IInv'
<1> DEFINE y == h'
<1>1. /\ y = atsmb_prep_cmd(h, h.kind) /\ polls' = polls
      /\ \/ pc = "start" /\ pc' = IF h.kind = "back" THEN "start_dma"
                                  ELSE "start_issue"
         \/ pc = "data_prep" /\ pc' = "data_dma"
  BY DEF Prepare, At
<1>2. /\ h \in Host /\ polls \in 0 .. MaxPolls /\ pc # "idle"
      /\ h.mrq_done + h.done = 1 /\ (h.pdma # "none" => h.ier)
      /\ h.kind \in Codes /\ (~h.late => HostAt(pc, h))
  BY <1>1, CallerFinds
<1> HIDE DEF y
<1>3. /\ y \in Host /\ SameRequest(y, h) /\ y.retries = h.retries
      /\ y.opcode = h.kind /\ y.op = h.op /\ y.status = {}
      /\ y.mask = h.mask \cup Masks(h.kind)
      /\ y.pdma = h.pdma /\ y.ier = h.ier
      /\ ~y.late => ~h.late /\ h.op = "none"
  BY <1>1, <1>2, PrepFacts
<1>4. ASSUME ~y.late PROVE HostAt(pc', y)
  <2>1. HostAt(pc, h) /\ h.op = "none"
    BY <1>2, <1>3, <1>4
  <2>2. Calm(h)
    BY <1>1, <2>1 DEF HostAt, Before
  <2>3. Ready(y)
    BY <1>2, <1>3, <2>1, <2>2, MasksFacts DEF Ready, Calm, SameRequest
  <2>4. CASE pc = "start"
    BY <1>1, <1>3, <2>1, <2>3, <2>4
    DEF HostAt, PollPcs, DataPcs, Before, StartPcs, ReadyPcs, SameRequest
  <2>5. CASE pc = "data_prep"
    BY <1>1, <1>3, <2>1, <2>3, <2>5
    DEF HostAt, PollPcs, DataPcs, Before, StartPcs, ReadyPcs, SameRequest
  <2> QED BY <1>1, <2>4, <2>5
<1> QED BY <1>1, <1>2, <1>3, <1>4, CallerInv DEF y, SameRequest

LEMMA SetUpDmaInv == ASSUME IInv, SetUpDma PROVE IInv'
<1> DEFINE y == h'
<1>1. /\ y = atsmb_config_dma(h, h.kind) /\ polls' = polls
      /\ \/ pc = "start_dma" /\ pc' = "start_issue"
         \/ pc = "data_dma" /\ pc' = "data_issue"
  BY DEF SetUpDma, At
<1>2. /\ h \in Host /\ polls \in 0 .. MaxPolls /\ pc # "idle"
      /\ h.mrq_done + h.done = 1
      /\ h.kind \in Codes /\ (~h.late => HostAt(pc, h))
  BY <1>1, CallerFinds
<1> HIDE DEF y
<1>3. /\ y \in Host /\ SameRequest(y, h) /\ SameCommand(y, h)
      /\ y.retries = h.retries /\ y.mask = h.mask /\ y.status = h.status
      /\ y.pdma = "none" /\ y.ier
  BY <1>1, <1>2, ConfigFacts
<1>4. ASSUME ~y.late PROVE HostAt(pc', y)
  <2>1. HostAt(pc, h)
    BY <1>2, <1>3, <1>4 DEF SameCommand
  <2>2. Ready(h)
    BY <1>1, <2>1 DEF HostAt, StartPcs, ReadyPcs
  <2>3. Ready(y)
    BY <1>3, <2>2 DEF Ready, SameRequest, SameCommand
  <2> QED BY <1>1, <1>3, <2>1, <2>3
          DEF HostAt, PollPcs, DataPcs, Before, StartPcs, ReadyPcs, SameRequest
<1> QED BY <1>1, <1>2, <1>3, <1>4, CallerInv DEF y, SameRequest

LEMMA IssueInv == ASSUME IInv, Issue PROVE IInv'
<1> DEFINE y == h'
<1>1. /\ y = atsmb_issue_cmd(h, h.kind) /\ polls' = polls
      /\ \/ pc = "start_issue" /\ pc' = "wait"
         \/ pc = "data_issue" /\ pc' = "data_wait"
  BY DEF Issue, At
<1>2. /\ h \in Host /\ polls \in 0 .. MaxPolls /\ pc # "idle"
      /\ h.mrq_done + h.done = 1 /\ (h.pdma # "none" => h.ier)
      /\ h.kind \in Codes /\ (~h.late => HostAt(pc, h))
  BY <1>1, CallerFinds
<1> HIDE DEF y
<1>3. /\ y \in Host /\ SameRequest(y, h) /\ SameRegisters(y, h)
      /\ y.retries = h.retries /\ y.opcode = h.opcode /\ y.op = h.kind
      /\ y.own /\ y.late = h.late
  BY <1>1, <1>2, IssueFacts
<1>4. ASSUME ~y.late PROVE HostAt(pc', y)
  <2>1. HostAt(pc, h)
    BY <1>2, <1>3, <1>4
  <2>2. Ready(h)
    BY <1>1, <2>1 DEF HostAt, StartPcs, ReadyPcs
  <2>3. InFlight(y)
    BY <1>3, <2>2 DEF Ready, InFlight, SameRequest, SameRegisters
  <2>4. CASE pc = "start_issue"
    <3>1. ~y.done_data /\ y.done = 0 /\ y.pdma = "none"
      BY <1>3, <2>1, <2>2, <2>4
      DEF HostAt, StartPcs, Ready, SameRequest, SameRegisters
    <3>2. CmdFlight(y)
      BY <2>3, <3>1 DEF CmdFlight
    <3> QED BY <1>1, <1>3, <2>1, <2>4, <3>2
        DEF HostAt, PollPcs, DataPcs, Before, StartPcs, ReadyPcs, SameRequest
  <2>5. CASE pc = "data_issue"
    <3>1. y.done_data /\ y.soft_timeout /\ y.complete = 0
      BY <1>3, <2>1, <2>5 DEF HostAt, ReadyPcs, SameRequest
    <3>2. y.done_data = y.soft_timeout
      BY <1>3, <3>1, FieldTypes
    <3>3. DataFlight(y)
      BY <2>3, <3>1, <3>2 DEF DataFlight
    <3> QED BY <1>1, <1>3, <2>1, <2>5, <3>1, <3>3
        DEF HostAt, PollPcs, DataPcs, Before, StartPcs, ReadyPcs, SameRequest
  <2> QED BY <1>1, <2>4, <2>5
<1>5. y.pdma # "none" => y.ier
  BY <1>2, <1>3 DEF SameRegisters
<1> QED BY <1>1, <1>2, <1>3, <1>4, <1>5, CallerInv DEF y, SameRequest

LEMMA AnnounceFacts ==
  ASSUME h \in Host
  PROVE  LET y == Announced
         IN  /\ y \in Host /\ y.kind = h.kind /\ y.retries = h.retries
             /\ y.mrq_done = h.mrq_done /\ y.done = h.done
             /\ y.complete = h.complete /\ y.done_data /\ y.soft_timeout
             /\ SameCommand(y, h) /\ SameRegisters(y, h)
<1>1. Announced \in Host
  BY SetField DEF Announced
<1> QED BY <1>1 DEF Host, Announced, SameCommand, SameRegisters

LEMMA PollAnnounceInv == ASSUME IInv, PollAnnounce PROVE IInv'
<1> DEFINE y == h'
<1>1. pc = "poll" /\ pc' = "poll_prep" /\ y = Announced /\ polls' = polls - 1
  BY DEF PollAnnounce, At
<1>2. /\ h \in Host /\ polls \in 0 .. MaxPolls /\ pc # "idle"
      /\ h.mrq_done + h.done = 1 /\ (h.pdma # "none" => h.ier)
      /\ ~h.late => HostAt(pc, h)
  BY <1>1, CallerFinds
<1> HIDE DEF y
<1>3. /\ y \in Host /\ y.kind = h.kind /\ y.retries = h.retries
      /\ y.mrq_done = h.mrq_done /\ y.done = h.done
      /\ y.complete = h.complete /\ y.done_data
      /\ SameCommand(y, h) /\ SameRegisters(y, h)
  BY <1>1, <1>2, AnnounceFacts
<1>4. y.pdma # "none" => y.ier
  BY <1>2, <1>3 DEF SameRegisters
<1>5. ASSUME ~y.late PROVE HostAt("poll_prep", y)
  <2>1. HostAt("poll", h)
    BY <1>1, <1>2, <1>3, <1>5 DEF SameCommand
  <2>2. Calm(y)
    BY <1>3, <2>1 DEF HostAt, Before, Calm, SameCommand, SameRegisters
  <2> QED BY <1>3, <2>1, <2>2
          DEF HostAt, PollPcs, DataPcs, Before, StartPcs, ReadyPcs
<1>6. polls - 1 \in 0 .. MaxPolls
  BY <1>1, <1>2, SdAssumption DEF IInv, Base
<1> QED BY <1>1, <1>2, <1>3, <1>4, <1>5, <1>6, CallerInv DEF y

LEMMA PollPrepareInv == ASSUME IInv, PollPrepare PROVE IInv'
<1> DEFINE y == h'
<1>1. /\ pc = "poll_prep" /\ pc' = "poll_issue" /\ polls' = polls
      /\ y = atsmb_prep_cmd(h, "status")
  BY DEF PollPrepare, At
<1>2. /\ h \in Host /\ polls \in 0 .. MaxPolls /\ pc # "idle"
      /\ h.mrq_done + h.done = 1 /\ (h.pdma # "none" => h.ier)
      /\ "status" \in Codes /\ (~h.late => HostAt(pc, h))
  BY <1>1, CallerFinds DEF Codes, Plain
<1> HIDE DEF y
<1>3. /\ y \in Host /\ SameRequest(y, h) /\ y.retries = h.retries
      /\ y.opcode = "status" /\ y.op = h.op /\ y.status = {}
      /\ y.pdma = h.pdma /\ y.ier = h.ier
      /\ ~y.late => ~h.late /\ h.op = "none"
  BY <1>1, <1>2, PrepFacts
<1>4. ASSUME ~y.late PROVE HostAt("poll_issue", y)
  <2>1. HostAt("poll_prep", h) /\ h.op = "none"
    BY <1>1, <1>2, <1>3, <1>4
  <2> QED BY <1>3, <2>1 DEF HostAt, PollPcs, DataPcs, Before, StartPcs,
             ReadyPcs, Calm, SameRequest
<1> QED BY <1>1, <1>2, <1>3, <1>4, CallerInv DEF y, SameRequest

LEMMA PollIssueInv == ASSUME IInv, PollIssue PROVE IInv'
<1> DEFINE y == h'
<1>1. /\ pc = "poll_issue" /\ pc' = "poll_wait" /\ polls' = polls
      /\ y = atsmb_issue_cmd(h, "status")
  BY DEF PollIssue, At
<1>2. /\ h \in Host /\ polls \in 0 .. MaxPolls /\ pc # "idle"
      /\ h.mrq_done + h.done = 1 /\ (h.pdma # "none" => h.ier)
      /\ "status" \in Codes /\ (~h.late => HostAt(pc, h))
  BY <1>1, CallerFinds DEF Codes, Plain
<1> HIDE DEF y
<1>3. /\ y \in Host /\ SameRequest(y, h) /\ SameRegisters(y, h)
      /\ y.retries = h.retries /\ y.opcode = h.opcode /\ y.op = "status"
      /\ y.late = h.late
  BY <1>1, <1>2, IssueFacts
<1>4. ASSUME ~y.late PROVE HostAt("poll_wait", y)
  <2>1. HostAt("poll_issue", h)
    BY <1>1, <1>2, <1>3, <1>4
  <2>2. PollFlight(y)
    BY <1>3, <2>1 DEF HostAt, PollFlight, ReadyPcs, SameRequest, SameRegisters
  <2> QED BY <1>3, <2>1, <2>2 DEF HostAt, PollPcs, DataPcs, Before, StartPcs,
             ReadyPcs, SameRequest
<1>5. y.pdma # "none" => y.ier
  BY <1>2, <1>3 DEF SameRegisters
<1> QED BY <1>1, <1>2, <1>3, <1>4, <1>5, CallerInv DEF y, SameRequest

(* The completion is taken.                                                *)
LEMMA TakenFacts ==
  ASSUME h \in Host, h.complete > 0
  PROVE  LET y == [h EXCEPT !.complete = @ - 1]
         IN  /\ y \in Host /\ y.kind = h.kind /\ y.retries = h.retries
             /\ y.mrq_done = h.mrq_done /\ y.done = h.done
             /\ y.complete = h.complete - 1 /\ y.done_data = h.done_data
             /\ y.soft_timeout = h.soft_timeout /\ SameErrors(y, h)
             /\ SameCommand(y, h) /\ SameRegisters(y, h)
<1>1. h.complete - 1 \in Nat
  BY FieldTypes
<1>2. [h EXCEPT !.complete = @ - 1] \in Host
  BY <1>1, SetField
<1> QED BY <1>2 DEF Host, SameErrors, SameCommand, SameRegisters

LEMMA PollWaitInv == ASSUME IInv, PollWait PROVE IInv'
<1> DEFINE y == h'
<1>1. /\ pc = "poll_wait" /\ pc' = "poll_check" /\ polls' = polls
      /\ h.complete > 0 /\ y = [h EXCEPT !.complete = @ - 1]
  BY DEF PollWait, At
<1>2. /\ h \in Host /\ polls \in 0 .. MaxPolls /\ pc # "idle"
      /\ h.mrq_done + h.done = 1 /\ (h.pdma # "none" => h.ier)
      /\ ~h.late => HostAt(pc, h)
  BY <1>1, CallerFinds
<1> HIDE DEF y
<1>4. /\ y \in Host /\ y.kind = h.kind /\ y.retries = h.retries
      /\ y.mrq_done = h.mrq_done /\ y.done = h.done
      /\ y.complete = h.complete - 1
      /\ SameCommand(y, h) /\ SameRegisters(y, h)
  BY <1>1, <1>2, TakenFacts
<1>5. ASSUME ~y.late PROVE HostAt("poll_check", y)
  <2>1. HostAt("poll_wait", h)
    BY <1>1, <1>2, <1>4, <1>5 DEF SameCommand
  <2>2. PollFlight(h)
    BY <2>1 DEF HostAt
  <2>3. /\ h.op = "none" /\ h.status = {} /\ h.pdma = "none" /\ h.mask = {}
        /\ h.complete = 1
    BY <1>1, <1>2, <2>2, FieldTypes DEF PollFlight
  <2>4. Calm(y) /\ y.complete = 0
    BY <1>4, <2>3 DEF Calm, SameCommand, SameRegisters
  <2> QED BY <1>4, <2>1, <2>4
          DEF HostAt, PollPcs, DataPcs, Before, StartPcs, ReadyPcs
<1>6. y.pdma # "none" => y.ier
  BY <1>2, <1>4 DEF SameRegisters
<1> QED BY <1>1, <1>2, <1>4, <1>5, <1>6, CallerInv DEF y

LEMMA PollTimeoutInv == ASSUME IInv, PollTimeout PROVE IInv'
<1> DEFINE y == h'
<1>1. /\ pc = "poll_wait" /\ pc' = "poll_check" /\ polls' = polls
      /\ y = [h EXCEPT !.late = TRUE]
  BY DEF PollTimeout, At
<1>2. /\ h \in Host /\ polls \in 0 .. MaxPolls /\ pc # "idle"
      /\ h.mrq_done + h.done = 1 /\ (h.pdma # "none" => h.ier)
  BY <1>1, CallerFinds
<1> HIDE DEF y
<1>3. y \in Host
  BY <1>1, <1>2, SetField
<1>4. /\ y.kind = h.kind /\ y.retries = h.retries /\ y.mrq_done = h.mrq_done
      /\ y.done = h.done /\ y.pdma = h.pdma /\ y.ier = h.ier /\ y.late
  BY <1>1, <1>2 DEF Host
<1> QED BY <1>1, <1>2, <1>3, <1>4, CallerInv DEF y

LEMMA PollCheckInv == ASSUME IInv, PollCheck PROVE IInv'
<1>1. /\ pc = "poll_check" /\ h' = h /\ polls' = polls
      /\ pc' = IF h.cmd_error THEN "end"
               ELSE IF h.resp # "tran" /\ polls > 0 THEN "poll" ELSE "data"
  BY DEF PollCheck, At
<1>2. ASSUME ~h.late PROVE HostAt(pc', h)
  <2>0. /\ Calm(h) /\ h.kind \in Blocks /\ h.complete = 0
        /\ h.kind \in StartsData
    BY <1>1, <1>2 DEF IInv, HostAt, PollPcs, Before, StartsData
  <2>1. CASE pc' = "end"
    <3>1. DataEnded(h)
      BY <2>1, <1>1, <2>0 DEF DataEnded, Good
    <3> QED BY <3>1, <2>1, <2>0
            DEF HostAt, PollPcs, DataPcs, Before, StartPcs, ReadyPcs
  <2>2. CASE pc' \in {"poll", "data"}
    BY <2>2, <2>0 DEF HostAt, PollPcs, DataPcs, Before, StartPcs, ReadyPcs
  <2> QED BY <2>1, <2>2, <1>1
<1>4. pc' \in {"end", "poll", "data"} /\ (pc' = "poll" => polls > 0)
  BY <1>1
<1> QED BY <1>1, <1>2, <1>4 DEF IInv, Base, TypeOK

LEMMA DataAnnounceInv == ASSUME IInv, DataAnnounce PROVE IInv'
<1> DEFINE a == Announced
           y == h'
<1>1. /\ pc = "data" /\ pc' = "data_prep" /\ polls' = polls
      /\ y = [a EXCEPT !.opcode = h.kind]
  BY DEF DataAnnounce, At
<1>2. /\ h \in Host /\ polls \in 0 .. MaxPolls /\ pc # "idle"
      /\ h.mrq_done + h.done = 1 /\ (h.pdma # "none" => h.ier)
      /\ h.kind \in Codes /\ (~h.late => HostAt(pc, h))
  BY <1>1, CallerFinds
<1>3. /\ a \in Host /\ a.kind = h.kind /\ a.retries = h.retries
      /\ a.mrq_done = h.mrq_done /\ a.done = h.done
      /\ a.complete = h.complete /\ a.done_data /\ a.soft_timeout
      /\ SameCommand(a, h) /\ SameRegisters(a, h)
  BY <1>2, AnnounceFacts
<1> HIDE DEF a, y
<1>4. y \in Host
  BY <1>1, <1>2, <1>3, SetField
<1>5. /\ y.kind = a.kind /\ y.retries = a.retries
      /\ y.mrq_done = a.mrq_done /\ y.done = a.done
      /\ y.complete = a.complete /\ y.done_data /\ y.soft_timeout
      /\ y.op = a.op /\ y.late = a.late /\ SameRegisters(y, a)
  BY <1>1, <1>3 DEF Host, SameRegisters
<1>6. ASSUME ~y.late PROVE HostAt("data_prep", y)
  <2>1. HostAt("data", h)
    BY <1>1, <1>2, <1>3, <1>5, <1>6 DEF SameCommand
  <2>2. Calm(y)
    BY <1>3, <1>5, <2>1 DEF HostAt, Before, Calm, SameCommand, SameRegisters
  <2> QED BY <1>3, <1>5, <2>1, <2>2
          DEF HostAt, PollPcs, DataPcs, Before, StartPcs, ReadyPcs
<1>7. y.pdma # "none" => y.ier
  BY <1>2, <1>3, <1>5 DEF SameRegisters
<1> QED BY <1>1, <1>2, <1>3, <1>4, <1>5, <1>6, <1>7, CallerInv DEF y

LEMMA DataWaitInv == ASSUME IInv, DataWait PROVE IInv'
<1> DEFINE y == h'
<1>1. /\ pc = "data_wait" /\ pc' = "data_check" /\ polls' = polls
      /\ h.complete > 0 /\ y = [h EXCEPT !.complete = @ - 1]
  BY DEF DataWait, At
<1>2. /\ h \in Host /\ polls \in 0 .. MaxPolls /\ pc # "idle"
      /\ h.mrq_done + h.done = 1 /\ (h.pdma # "none" => h.ier)
      /\ ~h.late => HostAt(pc, h)
  BY <1>1, CallerFinds
<1> HIDE DEF y
<1>3. /\ y \in Host /\ y.kind = h.kind /\ y.retries = h.retries
      /\ y.mrq_done = h.mrq_done /\ y.done = h.done
      /\ y.done_data = h.done_data /\ y.soft_timeout = h.soft_timeout
      /\ SameErrors(y, h) /\ SameCommand(y, h) /\ SameRegisters(y, h)
  BY <1>1, <1>2, TakenFacts
<1>4. y.pdma # "none" => y.ier
  BY <1>2, <1>3 DEF SameRegisters
<1>5. ASSUME ~y.late PROVE HostAt("data_check", y)
  <2>1. HostAt("data_wait", h)
    BY <1>1, <1>2, <1>3, <1>5 DEF SameCommand
  <2>2. DataFlight(h) /\ h.kind \in StartsData
    BY <2>1 DEF HostAt, DataPcs
  <2>3. InFlight(y)
    BY <1>3, <2>2 DEF DataFlight, InFlight, SameCommand, SameRegisters
  <2>4. DataFlight(y)
    BY <1>3, <2>2, <2>3 DEF DataFlight, Good, SameErrors, SameCommand
  <2> QED BY <1>3, <2>2, <2>4
          DEF HostAt, PollPcs, DataPcs, Before, StartPcs, ReadyPcs
<1> QED BY <1>1, <1>2, <1>3, <1>4, <1>5, CallerInv DEF y

LEMMA DataTimeoutInv == ASSUME IInv, DataTimeout PROVE IInv'
<1>1. pc = "data_wait" /\ pc' = "data_check" /\ UNCHANGED <<h, polls>>
  BY DEF DataTimeout, At
<1>2. /\ h \in Host /\ polls \in 0 .. MaxPolls /\ pc # "idle"
      /\ h.mrq_done + h.done = 1 /\ (h.pdma # "none" => h.ier)
      /\ ~h.late => HostAt("data_wait", h)
  BY <1>1, CallerFinds
<1>3. ~h.late => HostAt("data_check", h)
  BY <1>2 DEF HostAt, PollPcs, DataPcs, Before, StartPcs, ReadyPcs
<1> QED BY <1>1, <1>2, <1>3, CallerInv

LEMMA DataCheckInv == ASSUME IInv, DataCheck PROVE IInv'
<1> DEFINE y == h'
<1>1. /\ pc = "data_check" /\ polls' = polls /\ ~RegularIrq /\ ~DmaIrq
      /\ pc' = IF h.soft_timeout THEN "data_reset" ELSE "end"
      /\ y = IF h.soft_timeout \/ h.cmd_error \/ h.data_error THEN h
             ELSE [h EXCEPT !.opcode = "none"]
  BY DEF DataCheck, At
<1>2. /\ h \in Host /\ polls \in 0 .. MaxPolls /\ pc # "idle"
      /\ h.mrq_done + h.done = 1 /\ (h.pdma # "none" => h.ier)
      /\ ~h.late => HostAt("data_check", h)
  BY <1>1, CallerFinds
<1> HIDE DEF y
<1>3. /\ y \in Host /\ y.kind = h.kind /\ y.retries = h.retries
      /\ y.mrq_done = h.mrq_done /\ y.done = h.done /\ y.op = h.op
      /\ y.moved = h.moved /\ y.late = h.late
      /\ SameErrors(y, h) /\ SameRegisters(y, h)
  <2>1. CASE y = h
    BY <2>1, <1>2 DEF SameErrors, SameRegisters
  <2>2. CASE y = [h EXCEPT !.opcode = "none"]
    <3>1. y \in Host
      BY <2>2, <1>2, SetField
    <3> QED BY <3>1, <2>2, <1>2 DEF Host, SameErrors, SameRegisters
  <2> QED BY <2>1, <2>2, <1>1
<1>4. ASSUME ~y.late PROVE HostAt(pc', y)
  <2>0. HostAt("data_check", h)
    BY <1>2, <1>3, <1>4
  <2>1. DataFlight(h) /\ h.kind \in StartsData
    BY <2>0 DEF HostAt, DataPcs
  <2>2. CASE h.soft_timeout
    <3>1. y = h /\ pc' = "data_reset"
      BY <1>1, <2>2
    <3> QED BY <3>1, <2>1
            DEF HostAt, PollPcs, DataPcs, Before, StartPcs, ReadyPcs
  <2>3. CASE ~h.soft_timeout
    <3>1. pc' = "end" /\ ~h.done_data
      BY <1>1, <2>1, <2>3 DEF DataFlight
    <3>2. h.pdma = "none"
      BY <1>1, <1>2 DEF DmaIrq
    <3>3. "RSP_DONE" \notin h.mask /\ h.op = "none" /\ (Good(h) => h.moved)
      BY <3>1, <2>1, PlainHasNoData DEF DataFlight, InFlight
    <3>4. DataEnded(y)
      BY <3>2, <3>3, <1>1, <1>3
      DEF DataEnded, Calm, Good, RegularIrq, SameErrors, SameRegisters
    <3> QED BY <3>1, <3>4, <1>3, <2>1
            DEF HostAt, PollPcs, DataPcs, Before, StartPcs, ReadyPcs
  <2> QED BY <2>2, <2>3
<1>5. y.pdma # "none" => y.ier
  BY <1>2, <1>3 DEF SameRegisters
<1> QED BY <1>1, <1>2, <1>3, <1>4, <1>5, CallerInv DEF y

LEMMA DataResetInv == ASSUME IInv, DataReset PROVE IInv'
<1> DEFINE x == [h EXCEPT !.pdma = "none", !.ier = FALSE, !.mask = {}]
           y == h'
<1>1. /\ pc = "data_reset" /\ pc' = "end" /\ polls' = polls
      /\ y = BothErrors(x, TRUE)
  BY DEF DataReset, At
<1>2. /\ h \in Host /\ polls \in 0 .. MaxPolls /\ pc # "idle"
      /\ h.mrq_done + h.done = 1 /\ (~h.late => HostAt("data_reset", h))
  BY <1>1, CallerFinds
<1>3. x \in Host
  <2>1. {} \in SUBSET Bits
    OBVIOUS
  <2> QED BY <2>1, <1>2, SetField
<1>4. /\ SameRequest(x, h) /\ x.retries = h.retries /\ x.pdma = "none"
      /\ ~x.ier /\ x.mask = {} /\ x.late = h.late
  BY <1>2 DEF Host, SameRequest
<1> HIDE DEF x, y
<1>5. /\ y \in Host /\ SameRequest(y, x) /\ SameRegisters(y, x)
      /\ y.retries = x.retries /\ y.cmd_error /\ y.late = x.late
  BY <1>1, <1>3, BothErrorsFacts DEF SameCommand
<1>6. DataEnded(y)
  BY <1>4, <1>5 DEF DataEnded, Calm, Good, SameRegisters
<1>7. ASSUME ~y.late PROVE HostAt("end", y)
  <2>1. h.kind \in StartsData
    BY <1>2, <1>4, <1>5, <1>7 DEF HostAt, DataPcs
  <2> QED BY <2>1, <1>4, <1>5, <1>6 DEF HostAt, PollPcs, DataPcs, Before,
             StartPcs, ReadyPcs, SameRequest
<1>8. y.kind = h.kind /\ y.retries = h.retries /\ y.pdma = "none"
      /\ y.mrq_done = h.mrq_done /\ y.done = h.done
  BY <1>4, <1>5 DEF SameRequest, SameRegisters
<1> QED BY <1>1, <1>2, <1>5, <1>7, <1>8, CallerInv DEF y

LEMMA EndDataInv == ASSUME IInv, EndData PROVE IInv'
<1> DEFINE y == h'
<1>1. /\ pc = "end" /\ pc' = "wait" /\ polls' = polls
      /\ y = atsmb_request_end(h)
  BY DEF EndData, At
<1>2. /\ h \in Host /\ polls \in 0 .. MaxPolls /\ pc # "idle"
      /\ h.mrq_done + h.done = 1 /\ (h.pdma # "none" => h.ier)
      /\ ~h.late => HostAt("end", h)
      /\ h.kind \in HasData => h.retries = 0
  BY <1>1, CallerFinds DEF IInv, Base
<1> HIDE DEF y
<1>3. /\ y \in Host /\ y.kind = h.kind /\ y.mrq_done + y.done = 1
      /\ h.retries = 0 => y.retries = 0
      /\ y.pdma = h.pdma /\ y.ier = h.ier
      /\ \/ /\ y.done = 1 /\ SameErrors(y, h) /\ SameCommand(y, h)
            /\ y.mask = h.mask /\ y.status = h.status
         \/ h.retries > 0 /\ (~y.late => ~h.late)
  BY <1>1, <1>2, EndFacts
<1>4. ASSUME ~y.late PROVE HostAt("wait", y)
  <2>1. HostAt("end", h)
    BY <1>2, <1>3, <1>4 DEF SameCommand
  <2>2. DataEnded(h) /\ h.kind \in StartsData /\ h.retries = 0
    BY <1>2, <2>1, PlainHasNoData DEF HostAt
  <2>3. DataEnded(y) /\ y.done = 1
    BY <1>3, <2>2 DEF DataEnded, Calm, Good, SameErrors, SameCommand
  <2> QED BY <1>3, <2>2, <2>3
          DEF HostAt, PollPcs, DataPcs, Before, StartPcs, ReadyPcs
<1> QED BY <1>1, <1>2, <1>3, <1>4, CallerInv DEF y

LEMMA ReportInv == ASSUME IInv, Report PROVE IInv'
<1>1. /\ pc = "wait" /\ pc' = "report" /\ UNCHANGED <<h, polls>>
      /\ ~RegularIrq /\ ~DmaIrq /\ h.done > 0
  BY DEF Report, At
<1>2. /\ h \in Host /\ polls \in 0 .. MaxPolls /\ h.mrq_done + h.done = 1
      /\ (h.pdma # "none" => h.ier) /\ (~h.late => HostAt("wait", h))
  BY <1>1, CallerFinds
<1>3. h.done = 1
  BY <1>1, <1>2, FieldTypes
<1>4. ASSUME ~h.late PROVE HostAt("report", h)
  <2>1. IF h.kind \in StartsData THEN DataEnded(h) ELSE CmdFlight(h)
    BY <1>2, <1>4 DEF HostAt
  <2>2. h.pdma = "none"
    BY <1>1, <1>2 DEF DmaIrq
  <2>3. DataEnded(h)
    BY <1>1, <1>3, <2>1, <2>2 DEF CmdFlight, DataEnded, Calm, RegularIrq
  <2> QED BY <1>3, <2>3
          DEF HostAt, PollPcs, DataPcs, Before, StartPcs, ReadyPcs
<1> QED BY <1>1, <1>3, <1>4 DEF IInv, Base, TypeOK

LEMMA ReturnInv == ASSUME IInv, Return PROVE IInv'
<1>1. pc = "report" /\ pc' = "idle" /\ UNCHANGED <<h, polls>>
  BY DEF Return, At
<1>2. h \in Host /\ h.mrq_done + h.done = 1 /\ h.done = 1
  BY <1>1 DEF IInv, Base, TypeOK
<1>3. h.mrq_done = 0
  BY <1>2, FieldTypes
<1>4. ASSUME ~h.late PROVE HostAt("idle", h)
  <2>1. Calm(h)
    BY <1>1, <1>4 DEF IInv, HostAt, DataEnded
  <2> QED BY <2>1 DEF HostAt, PollPcs, DataPcs, Before, StartPcs, ReadyPcs
<1> QED BY <1>1, <1>2, <1>3, <1>4 DEF IInv, Base, TypeOK

-----------------------------------------------------------------------------
(* The steps of the host and of its DMA engine.                            *)

(* The end of the command under way, whatever is raised with it.           *)
LEMMA CommandEndInv ==
  ASSUME IInv, UNCHANGED <<pc, polls>>, h' \in Host, h.op # "none",
         SameRequest(h', h), SameErrors(h', h), h'.retries = h.retries,
         h'.opcode = h.opcode, h'.op = "none", h'.own = h.own,
         h'.late = h.late,
         h'.mask = h.mask, h'.ier = h.ier, h.moved => h'.moved,
         h'.pdma = h.pdma \/ (h.op \in HasData /\ h.ier),
         \/ h'.status \subseteq h.status \cup {"ERROR"} /\ h'.pdma # "ok"
         \/ h'.status \subseteq h.status \cup {"ERROR"} /\ h'.pdma = h.pdma
         \/ h.own /\ h.op = h.kind => h'.moved
  PROVE  IInv'
<1> DEFINE y == h'
<1> HIDE DEF y
<1>0. /\ y \in Host /\ SameRequest(y, h) /\ SameErrors(y, h)
      /\ y.retries = h.retries /\ y.opcode = h.opcode /\ y.op = "none"
      /\ y.own = h.own /\ y.mask = h.mask /\ y.ier = h.ier
      /\ y.late = h.late /\ (h.moved => y.moved)
      /\ y.pdma = h.pdma \/ (h.op \in HasData /\ h.ier)
      /\ \/ y.status \subseteq h.status \cup {"ERROR"} /\ y.pdma # "ok"
         \/ y.status \subseteq h.status \cup {"ERROR"} /\ y.pdma = h.pdma
         \/ h.own /\ h.op = h.kind => y.moved
  BY DEF y
<1>1. h \in Host /\ pc' = pc /\ polls' = polls
  BY DEF IInv, Base, TypeOK
<1>2. Calm(h) => Calm(y)
  BY <1>0 DEF Calm
<1>3. InFlight(h) => InFlight(y)
  <2> SUFFICES ASSUME InFlight(h) PROVE InFlight(y)
    OBVIOUS
  <2>1. /\ h.opcode = h.kind /\ h.op = h.kind /\ h.own
        /\ h.status \subseteq {"RSP_DONE"} /\ h.pdma = "none"
        /\ h.kind \in Plain => h.status = {}
        /\ h.kind \in HasData => "RSP_DONE" \notin h.mask
    BY DEF InFlight
  <2>2. /\ y.opcode = y.kind /\ y.op = "none" /\ y.kind = h.kind
        /\ y.kind \in HasData => "RSP_DONE" \notin y.mask
    BY <1>0, <2>1 DEF SameRequest
  <2>3. /\ "XFER_DONE" \in y.status => y.moved
        /\ y.kind \in Plain /\ "RSP_DONE" \in y.status => y.moved
    BY <1>0, <2>1, <2>2
  <2>4. y.pdma = "ok" => y.moved
    BY <1>0, <2>1
  <2> QED BY <2>2, <2>3, <2>4 DEF InFlight
<1>4. PollFlight(h) => PollFlight(y)
  <2>1. "status" \notin HasData
    BY DEF HasData, StartsData, Blocks, Sdio
  <2> QED BY <1>0, <2>1 DEF PollFlight, SameRequest
<1>5. DataFlight(h) => DataFlight(y)
  BY <1>0, <1>3 DEF DataFlight, SameRequest
<1>6. CmdFlight(h) => CmdFlight(y)
  <2> SUFFICES ASSUME CmdFlight(h) PROVE CmdFlight(y)
    OBVIOUS
  <2>1. h.op = h.kind /\ h.done # 1 /\ ~h.done_data /\ InFlight(y)
    BY <1>3 DEF CmdFlight, InFlight
  <2>2. h.kind \in Plain => h.pdma = "none" /\ h.kind \notin HasData
    BY PlainHasNoData DEF CmdFlight
  <2> QED BY <1>0, <2>1, <2>2 DEF CmdFlight, SameRequest
<1>7. DataEnded(h) => DataEnded(y)
  BY <1>0, <1>2 DEF DataEnded, Good, SameErrors
<1>8. ASSUME ~y.late PROVE HostAt(pc, y)
  <2>1. HostAt(pc, h)
    BY <1>0, <1>8 DEF IInv
  <2>2. pc \notin StartPcs \cup ReadyPcs \cup {"poll_issue"}
    BY <2>1 DEF HostAt, Ready
  <2> QED BY <1>0, <1>2, <1>4, <1>5, <1>6, <1>7, <2>1, <2>2
          DEF HostAt, SameRequest
<1>9. /\ y.kind \in HasData => y.retries = 0
      /\ y.pdma # "none" => y.ier
  BY <1>0 DEF IInv, Base, SameRequest
<1>10. y.mrq_done = h.mrq_done /\ y.done = h.done
  BY <1>0 DEF SameRequest
<1> QED BY <1>0, <1>1, <1>8, <1>9, <1>10 DEF IInv, Base, TypeOK, y

LEMMA ResponseInv == ASSUME IInv, Response PROVE IInv'
<1> DEFINE s == h.status \cup {"RSP_DONE"}
           y == h'
<1>1. /\ h \in Host /\ h.op \in HasData /\ UNCHANGED <<pc, polls>>
      /\ y = [h EXCEPT !.status = s]
  BY DEF IInv, Base, TypeOK, Response
<1>2. s \in SUBSET Bits /\ h.op # "none" /\ h.op \notin Plain
  BY <1>1, FieldTypes, PlainHasNoData
  DEF Bits, HasData, StartsData, Blocks, Sdio
<1> HIDE DEF y
<1>3. y \in Host
  BY <1>1, <1>2, SetField
<1>4. /\ SameRequest(y, h) /\ SameErrors(y, h) /\ SameCommand(y, h)
      /\ y.retries = h.retries /\ y.mask = h.mask /\ y.pdma = h.pdma
      /\ y.ier = h.ier /\ y.status = s
  BY <1>1 DEF Host, SameRequest, SameErrors, SameCommand
<1>5. Calm(h) => Calm(y)
  BY <1>2, <1>4 DEF Calm, SameCommand
<1>6. InFlight(h) => InFlight(y)
  BY <1>2, <1>4 DEF InFlight, SameRequest, SameCommand
<1>7. ~PollFlight(h)
  BY <1>1, <1>2 DEF PollFlight, Plain
<1>8. DataFlight(h) => DataFlight(y)
  BY <1>4, <1>6 DEF DataFlight, Good, SameRequest, SameErrors, SameCommand
<1>9. CmdFlight(h) => CmdFlight(y)
  BY <1>4, <1>6 DEF CmdFlight, Good, SameRequest, SameErrors, SameCommand
<1>10. DataEnded(h) => DataEnded(y)
  BY <1>4, <1>5 DEF DataEnded, Good, SameErrors, SameCommand
<1>11. ASSUME ~y.late PROVE HostAt(pc, y)
  <2>1. HostAt(pc, h)
    BY <1>4, <1>11 DEF IInv, SameCommand
  <2>2. pc \notin StartPcs \cup ReadyPcs \cup {"poll_issue", "poll_wait"}
    BY <1>2, <1>7, <2>1 DEF HostAt, Ready
  <2> QED BY <1>4, <1>5, <1>8, <1>9, <1>10, <2>1, <2>2
          DEF HostAt, SameRequest
<1>12. /\ y.kind = h.kind /\ y.mrq_done = h.mrq_done /\ y.done = h.done
  BY <1>4 DEF SameRequest
<1> QED BY <1>1, <1>3, <1>4, <1>11, <1>12 DEF IInv, Base, TypeOK, y

LEMMA CommandDoneInv == ASSUME IInv, CommandDone PROVE IInv'
<1> DEFINE s == h.status \cup {"RSP_DONE"} \cup
                IF h.op \in HasData THEN {"XFER_DONE"} ELSE {}
           p == IF h.op \in HasData /\ h.ier THEN "ok" ELSE h.pdma
           m == h.moved \/ (h.own /\ h.op = h.kind)
           y == h'
<1>1. /\ h \in Host /\ h.op # "none" /\ UNCHANGED <<pc, polls>>
      /\ y = [[h EXCEPT !.op = "none"] EXCEPT !.status = s, !.pdma = p,
                                              !.moved = m]
  BY DEF IInv, Base, TypeOK, CommandDone, Ended, Host
<1>2. /\ s \in SUBSET Bits /\ p \in {"none", "ok", "error"} /\ m \in BOOLEAN
      /\ "none" \in Codes \cup {"none"}
  BY <1>1, FieldTypes DEF Bits
<1>3. p = h.pdma \/ (h.op \in HasData /\ h.ier)
  OBVIOUS
<1>4. (h.moved => m) /\ (h.own /\ h.op = h.kind => m)
  OBVIOUS
<1> HIDE DEF s, p, m, y
<1>5. y \in Host
  BY <1>1, <1>2, SetField
<1>6. /\ SameRequest(y, h) /\ SameErrors(y, h) /\ y.retries = h.retries
      /\ y.opcode = h.opcode /\ y.op = "none" /\ y.own = h.own
      /\ y.late = h.late
      /\ y.mask = h.mask /\ y.ier = h.ier /\ y.moved = m /\ y.pdma = p
  BY <1>1 DEF Host, SameRequest, SameErrors
<1> QED BY <1>1, <1>3, <1>4, <1>5, <1>6, CommandEndInv DEF y

LEMMA CommandFailsInv == ASSUME IInv, CommandFails PROVE IInv'
<1> DEFINE y == h'
<1>1. h \in Host /\ h.op # "none" /\ UNCHANGED <<pc, polls>>
  BY DEF IInv, Base, TypeOK, CommandFails
<1>2. CASE y = [Ended EXCEPT !.status = @ \cup {"ERROR"}]
  <2>1. /\ h.status \cup {"ERROR"} \in SUBSET Bits
        /\ "none" \in Codes \cup {"none"}
    BY <1>1, FieldTypes DEF Bits
  <2>2. y = [[h EXCEPT !.op = "none"] EXCEPT !.status = h.status \cup {"ERROR"}]
    BY <1>1, <1>2 DEF Ended, Host
  <2> HIDE DEF y
  <2>3. y \in Host
    BY <1>1, <2>1, <2>2, SetField
  <2>4. /\ SameRequest(y, h) /\ SameErrors(y, h) /\ y.retries = h.retries
        /\ y.opcode = h.opcode /\ y.op = "none" /\ y.own = h.own
        /\ y.late = h.late
        /\ y.mask = h.mask /\ y.ier = h.ier /\ y.moved = h.moved
        /\ y.pdma = h.pdma /\ y.status = h.status \cup {"ERROR"}
    BY <1>1, <2>2 DEF Host, SameRequest, SameErrors
  <2> QED BY <1>1, <2>3, <2>4, CommandEndInv DEF y
<1>3. ASSUME NEW s \in {{}, {"ERROR"}}, h.op \in HasData, h.ier,
             y = [Ended EXCEPT !.status = @ \cup s, !.pdma = "error"]
      PROVE  IInv'
  <2>1. /\ h.status \cup s \in SUBSET Bits
        /\ "none" \in Codes \cup {"none"}
    BY <1>1, <1>3, FieldTypes DEF Bits
  <2>2. y = [[h EXCEPT !.op = "none"] EXCEPT !.status = h.status \cup s,
                                             !.pdma = "error"]
    BY <1>1, <1>3 DEF Ended, Host
  <2> HIDE DEF y
  <2>3. y \in Host
    BY <1>1, <2>1, <2>2, SetField
  <2>4. /\ SameRequest(y, h) /\ SameErrors(y, h) /\ y.retries = h.retries
        /\ y.opcode = h.opcode /\ y.op = "none" /\ y.own = h.own
        /\ y.late = h.late
        /\ y.mask = h.mask /\ y.ier = h.ier /\ y.moved = h.moved
        /\ y.pdma = "error" /\ y.status = h.status \cup s
    BY <1>1, <2>2 DEF Host, SameRequest, SameErrors
  <2>5. y.status \subseteq h.status \cup {"ERROR"}
    BY <2>4, <1>3
  <2> QED BY <1>1, <1>3, <2>3, <2>4, <2>5, CommandEndInv DEF y
<1> QED BY <1>2, <1>3 DEF CommandFails

LEMMA CommandLostInv == ASSUME IInv, CommandLost PROVE IInv'
<1> DEFINE y == h'
<1>1. /\ h \in Host /\ h.op # "none" /\ UNCHANGED <<pc, polls>>
      /\ y = [h EXCEPT !.op = "none"]
  BY DEF IInv, Base, TypeOK, CommandLost, Ended, StartsData, Blocks, Sdio
<1> HIDE DEF y
<1>2. y \in Host
  BY <1>1, SetField
<1>3. /\ SameRequest(y, h) /\ SameErrors(y, h) /\ y.retries = h.retries
      /\ y.opcode = h.opcode /\ y.op = "none" /\ y.own = h.own
      /\ y.late = h.late
      /\ y.mask = h.mask /\ y.ier = h.ier /\ y.moved = h.moved
      /\ y.pdma = h.pdma /\ y.status = h.status
  BY <1>1 DEF Host, SameRequest, SameErrors
<1> QED BY <1>1, <1>2, <1>3, CommandEndInv DEF y

-----------------------------------------------------------------------------
(* The interrupt handlers.                                                 *)

(* Where the caller is when a handler runs: it waits, or is about to find  *)
(* out that it waited too long.                                            *)
LEMMA PendingFacts ==
  ASSUME IInv, ~h.late, RegularIrq \/ DmaIrq
  PROVE  /\ h \in Host /\ h.op = "none"
         /\ \/ /\ pc = "poll_wait" /\ PollFlight(h) /\ h.done_data
               /\ ~DmaIrq
            \/ pc \in DataPcs /\ DataFlight(h) /\ h.kind \in StartsData
            \/ pc = "wait" /\ CmdFlight(h) /\ h.kind \notin StartsData
<1>1. ~Calm(h) /\ ~Ready(h)
  BY DEF Calm, Ready, RegularIrq, DmaIrq
<1>2. h \in Host /\ HostAt(pc, h)
  BY DEF IInv, Base, TypeOK
<1>3. ~DataEnded(h)
  BY <1>1 DEF DataEnded
<1>4. pc # "poll_issue"
  BY <1>2 DEF HostAt, RegularIrq, DmaIrq
<1>5. pc \in {"poll_wait", "wait"} \cup DataPcs
  BY <1>1, <1>2, <1>3, <1>4
  DEF IInv, Base, TypeOK, HostAt, Before, DataPcs, StartPcs, ReadyPcs
<1>10. InFlight(h) => h.op = "none"
  <2> SUFFICES ASSUME InFlight(h), h.op # "none" PROVE FALSE
    OBVIOUS
  <2>1. h.pdma = "none" /\ h.status \subseteq {"RSP_DONE"} /\ h.kind \in Codes
        /\ (h.kind \in Plain => h.status = {})
        /\ (h.kind \in HasData => "RSP_DONE" \notin h.mask)
    BY <1>2, FieldTypes DEF InFlight
  <2> QED BY <2>1 DEF RegularIrq, DmaIrq, Codes
<1>6. CASE pc = "poll_wait"
  <2>1. PollFlight(h)
    BY <1>2, <1>6 DEF HostAt
  <2> QED BY <2>1, <1>2, <1>6 DEF PollFlight, RegularIrq, DmaIrq
<1>7. CASE pc \in DataPcs
  <2>1. DataFlight(h) /\ h.kind \in StartsData
    BY <1>2, <1>7 DEF HostAt
  <2> QED BY <2>1, <1>2, <1>7, <1>10 DEF DataFlight
<1>8. CASE pc = "wait"
  <2>1. h.kind \notin StartsData /\ CmdFlight(h)
    BY <1>2, <1>3, <1>8 DEF HostAt
  <2> QED BY <2>1, <1>2, <1>8, <1>10 DEF CmdFlight
<1> QED BY <1>5, <1>6, <1>7, <1>8

(* What a handler that has judged the command does in its last lines, for  *)
(* every behaviour: y is the host before them.                             *)
LEMMA WakeUpBase ==
  ASSUME Base, UNCHANGED <<pc, polls>>,
         NEW y \in Host, h' = WakeUp(y),
         SameRequest(y, h), SameCommand(y, h), y.pdma = "none",
         y.retries \in {h.retries, 0}
  PROVE  Base' /\ (~h'.late => ~h.late)
<1> DEFINE z == h'
<1>1. z = WakeUp(y) /\ pc' = pc /\ polls' = polls
  OBVIOUS
<1>2. /\ y.kind = h.kind /\ y.mrq_done = h.mrq_done /\ y.done = h.done
      /\ y.late = h.late
  BY DEF SameRequest, SameCommand
<1>3. y.kind \in HasData => y.retries = 0
  BY <1>2 DEF Base
<1> HIDE DEF z
<1>4. SUFFICES /\ z \in Host /\ z.kind = y.kind /\ z.pdma = "none"
               /\ y.retries = 0 => z.retries = 0
               /\ pc \in {"idle", "report"} =>
                    z.mrq_done = y.mrq_done /\ z.done = y.done
               /\ pc # "idle" => z.mrq_done + z.done = 1
               /\ ~z.late => ~y.late
  BY <1>1, <1>2, <1>3, <1>4 DEF Base, TypeOK, z
<1>5. CASE y.done_data
  <2>1. /\ z \in Host /\ z.kind = y.kind /\ z.retries = y.retries
        /\ z.mrq_done = y.mrq_done /\ z.done = y.done
        /\ SameCommand(z, y) /\ SameRegisters(z, y)
    BY <1>1, <1>5, CompleteFacts
  <2> QED BY <2>1, <1>2 DEF Base, SameCommand, SameRegisters
<1>6. CASE ~y.done_data /\ y.mrq_done = 0
  <2>1. z = y
    BY <1>1, <1>6 DEF WakeUp, atsmb_request_end
  <2> QED BY <2>1, <1>2 DEF Base
<1>7. CASE ~y.done_data /\ y.mrq_done # 0
  <2>1. z = atsmb_request_end(y)
    BY <1>1, <1>7 DEF WakeUp
  <2>2. pc \notin {"idle", "report"} /\ y.mrq_done + y.done = 1
    <3>1. y.mrq_done \in Nat /\ y.done \in Nat
      BY FieldTypes
    <3> QED BY <3>1, <1>2, <1>7 DEF Base
  <2>3. /\ z \in Host /\ z.kind = y.kind /\ z.mrq_done + z.done = 1
        /\ y.retries = 0 => z.retries = 0
        /\ z.pdma = y.pdma /\ (SameCommand(z, y) \/ (~z.late => ~y.late))
    BY <2>1, <2>2, EndFacts
  <2> QED BY <2>2, <2>3 DEF SameCommand
<1> QED BY <1>5, <1>6, <1>7, FieldTypes

(* The same, where no command that was given up on is in the way.          *)
LEMMA WakeUpAt ==
  ASSUME IInv, ~h.late, RegularIrq \/ DmaIrq,
         NEW y \in Host, NEW z, z = WakeUp(y),
         SameRequest(y, h), SameCommand(y, h), y.pdma = "none",
         y.retries \in {h.retries, 0}, y.status \subseteq h.status,
         y.mask \subseteq h.mask, h.kind \in Plain => y.mask = {},
         pc = "poll_wait" => y.status = {} /\ y.mask = {},
         pc # "poll_wait" /\ Good(y) => y.moved
  PROVE  HostAt(pc, z)
<1>1. /\ h \in Host /\ h.op = "none"
      /\ \/ pc = "poll_wait" /\ PollFlight(h) /\ h.done_data
         \/ pc \in DataPcs /\ DataFlight(h) /\ h.kind \in StartsData
         \/ pc = "wait" /\ CmdFlight(h) /\ h.kind \notin StartsData
  BY PendingFacts
<1>3. /\ y.kind = h.kind /\ y.mrq_done + y.done = 1 /\ y.done_data = h.done_data
      /\ y.soft_timeout = h.soft_timeout /\ y.complete = h.complete
      /\ y.op = "none" /\ y.opcode = h.opcode /\ y.moved = h.moved
      /\ y.kind \in Codes
  <2>1. pc # "idle"
    BY <1>1 DEF DataPcs
  <2> QED BY <1>1, <2>1, FieldTypes DEF IInv, Base, SameRequest, SameCommand
<1>4. y.kind \in HasData => y.retries = 0
  BY <1>3 DEF IInv, Base
<1>5. HostAt(pc, h)
  BY DEF IInv
<1>7. ASSUME InFlight(h), NEW w, w.opcode = h.opcode, w.op = "none",
             w.kind = h.kind, w.status = y.status, w.mask = y.mask,
             w.pdma = "none", w.moved = y.moved
      PROVE  InFlight(w) /\ "RSP_DONE" \notin w.mask
  <2>1. /\ "XFER_DONE" \in y.status => y.moved
        /\ y.kind \in Plain /\ "RSP_DONE" \in y.status => y.moved
        /\ y.kind \in HasData => "RSP_DONE" \notin y.mask
    BY <1>3, <1>7 DEF InFlight
  <2> QED BY <2>1, <1>3, <1>7 DEF InFlight, Codes
<1>8. CASE y.done_data
  <2>1. /\ z \in Host /\ z.kind = y.kind
        /\ z.mrq_done = y.mrq_done /\ z.done = y.done
        /\ z.complete = y.complete + 1
        /\ ~z.done_data /\ ~z.soft_timeout
        /\ SameErrors(z, y) /\ SameCommand(z, y) /\ SameRegisters(z, y)
    BY <1>8, CompleteFacts
  <2>2. CASE pc = "poll_wait"
    <3>1. PollFlight(z)
      BY <1>1, <1>3, <1>8, <2>1, <2>2
      DEF PollFlight, DataPcs, SameCommand, SameRegisters
    <3>2. z.kind \in Blocks
      BY <1>3, <1>5, <2>1, <2>2 DEF HostAt, PollPcs
    <3> QED BY <2>2, <3>1, <3>2
            DEF HostAt, PollPcs, DataPcs, Before, StartPcs, ReadyPcs
  <2>3. CASE pc \in DataPcs
    <3>1. DataFlight(h) /\ h.kind \in StartsData
      BY <1>1, <2>3 DEF DataPcs
    <3>2. pc # "poll_wait" /\ (Good(y) => y.moved)
      BY <2>3 DEF DataPcs
    <3>3. z.done_data = z.soft_timeout
      BY <2>1, FieldTypes
    <3>4. InFlight(z)
      BY <1>3, <1>7, <2>1, <3>1 DEF DataFlight, SameCommand, SameRegisters
    <3>5. DataFlight(z)
      BY <3>2, <3>3, <3>4, <2>1, <1>3
      DEF DataFlight, Good, SameErrors, SameCommand
    <3>6. pc = "data_wait" => z.complete = 1
      BY <1>3, <1>5, <1>8, <2>1, FieldTypes DEF HostAt
    <3> QED BY <1>3, <2>1, <2>3, <3>1, <3>5, <3>6
            DEF HostAt, PollPcs, DataPcs, Before, StartPcs, ReadyPcs
  <2>4. pc # "wait"
    BY <1>1, <1>3, <1>8 DEF CmdFlight, DataPcs
  <2> QED BY <2>2, <2>3, <2>4, <1>1
<1>9. CASE ~y.done_data
  <2>1. z = atsmb_request_end(y)
    BY <1>9 DEF WakeUp
  <2>2. /\ z \in Host /\ z.kind = y.kind /\ z.mrq_done + z.done = 1
        /\ z.pdma = y.pdma
        /\ \/ /\ z.done = 1 /\ SameErrors(z, y) /\ SameCommand(z, y)
              /\ z.mask = y.mask /\ z.status = y.status
              /\ z.done_data = y.done_data /\ z.complete = y.complete
              /\ z.soft_timeout = y.soft_timeout
           \/ /\ z.done = 0 /\ y.retries > 0 /\ ~z.done_data
              /\ z.opcode = y.kind /\ z.op = y.kind /\ z.own
              /\ z.status = {}
    BY <2>1, <1>3, EndFacts
  <2>3. pc # "poll_wait" /\ (Good(y) => y.moved)
    BY <1>1, <1>3, <1>9 DEF DataPcs
  <2>4. CASE pc \in DataPcs
    <3>1. DataFlight(h) /\ h.kind \in StartsData /\ y.retries = 0
      BY <1>1, <1>3, <1>4, <2>4, PlainHasNoData DEF DataPcs
    <3>2. /\ z.done = 1 /\ SameErrors(z, y) /\ SameCommand(z, y)
          /\ z.mask = y.mask /\ z.status = y.status
          /\ z.done_data = y.done_data /\ z.complete = y.complete
          /\ z.soft_timeout = y.soft_timeout
      BY <2>2, <3>1
    <3>3. InFlight(z)
      BY <1>3, <1>7, <2>2, <3>1, <3>2 DEF DataFlight, SameCommand
    <3>4. DataFlight(z)
      BY <2>3, <3>1, <3>2, <3>3, <1>3
      DEF DataFlight, Good, SameErrors, SameCommand
    <3> QED BY <1>3, <1>5, <2>2, <2>4, <3>1, <3>2, <3>4
            DEF HostAt, PollPcs, DataPcs, Before, StartPcs, ReadyPcs
  <2>5. CASE pc = "wait"
    <3>1. CmdFlight(h) /\ h.kind \notin StartsData
      BY <1>1, <2>5 DEF DataPcs
    <3>2. CmdFlight(z)
      <4>1. CASE z.done = 1 /\ SameErrors(z, y) /\ SameCommand(z, y)
              /\ z.status = y.status /\ z.mask = y.mask
              /\ z.done_data = y.done_data
        <5>1. InFlight(z) /\ "RSP_DONE" \notin z.mask
          BY <1>3, <1>7, <2>2, <3>1, <4>1 DEF CmdFlight, SameCommand
        <5> QED BY <4>1, <5>1, <1>3, <1>9, <2>2, <2>3
                DEF CmdFlight, Good, SameErrors, SameCommand
      <4>2. CASE z.done = 0 /\ y.retries > 0 /\ ~z.done_data
              /\ z.opcode = y.kind /\ z.op = y.kind /\ z.own /\ z.status = {}
        <5>1. y.kind \notin HasData
          BY <4>2, <1>4
        <5> QED BY <4>2, <5>1, <2>2 DEF CmdFlight, InFlight
      <4> QED BY <4>1, <4>2, <2>2
    <3> QED BY <1>3, <2>2, <2>5, <3>1, <3>2
            DEF HostAt, PollPcs, DataPcs, Before, StartPcs, ReadyPcs
  <2> QED BY <2>3, <2>4, <2>5, <1>1
<1> QED BY <1>3, <1>8, <1>9, FieldTypes

LEMMA RegularInv ==
  ASSUME IInv, RegularIrq, UNCHANGED <<pc, polls>>,
         NEW rsp \in {"zero", "busy", "tran"}, NEW slot \in BOOLEAN,
         h' = atsmb_regular_isr(h, rsp, slot)
  PROVE  IInv'
<1> DEFINE y == Judged(h, rsp, slot)
<1>1. h \in Host /\ Base
  BY DEF IInv, Base, TypeOK
<1>2. h' = WakeUp(y)
  BY DEF atsmb_regular_isr, Judged
<1>3. /\ y \in Host /\ SameRequest(y, h) /\ SameCommand(y, h)
      /\ y.mask = {} /\ y.status = {} /\ y.pdma = "none"
      /\ y.retries \in {h.retries, 0}
      /\ h.opcode = h.kind /\ Good(y) => Told(h)
  BY <1>1, RegularFacts
<1> HIDE DEF y
<1>4. Base' /\ (~h'.late => ~h.late)
  BY <1>1, <1>2, <1>3, WakeUpBase
<1>5. ASSUME ~h'.late PROVE HostAt(pc, h')
  <2>1. ~h.late
    BY <1>4, <1>5
  <2>2. \/ pc = "poll_wait"
        \/ pc \in DataPcs /\ DataFlight(h)
        \/ pc = "wait" /\ CmdFlight(h)
    BY <2>1, PendingFacts
  <2>3. pc # "poll_wait" /\ Good(y) => y.moved
    BY <2>2, <1>3 DEF DataFlight, CmdFlight, InFlight, Told, SameCommand
  <2> QED BY <1>2, <1>3, <2>1, <2>3, WakeUpAt
<1> QED BY <1>4, <1>5 DEF IInv

LEMMA DmaInv ==
  ASSUME IInv, DmaIrq, UNCHANGED <<pc, polls>>,
         NEW rsp \in {"zero", "busy", "tran"}, h' = atsmb_dma_isr(h, rsp)
  PROVE  IInv'
<1>1. h \in Host /\ Base
  BY DEF IInv, Base, TypeOK
<1>6. PICK y \in Host :
        h' = (IF Wakes(h) THEN WakeUp(y) ELSE y) /\ DmaJudged(y, h)
  BY <1>1, DmaFacts
<1>2. /\ y \in Host /\ h' = IF Wakes(h) THEN WakeUp(y) ELSE y
      /\ SameRequest(y, h) /\ SameCommand(y, h)
      /\ y.mask = h.mask /\ y.status = h.status /\ y.pdma = "none"
      /\ y.retries = h.retries
      /\ h.kind \in HasData /\ Wakes(h) /\ Good(y) => h.pdma = "ok"
      /\ ~Wakes(h) => SameErrors(y, h)
  BY <1>6 DEF DmaJudged
<1>3. ASSUME ~h.late
      PROVE  /\ h.kind \in HasData /\ h.kind \notin Plain
             /\ InFlight(h) /\ pc # "poll_wait"
             /\ \/ pc \in DataPcs /\ DataFlight(h)
                \/ pc = "wait" /\ CmdFlight(h)
  <2>1. \/ pc \in DataPcs /\ DataFlight(h) /\ h.kind \in StartsData
        \/ pc = "wait" /\ CmdFlight(h) /\ h.kind \notin StartsData
    BY <1>3, PendingFacts
  <2>2. h.pdma # "none" /\ h.kind \in Codes
    BY <1>1, FieldTypes DEF DmaIrq
  <2> QED BY <2>1, <2>2, PlainHasNoData DEF DataFlight, CmdFlight, Codes, DataPcs
<1>4. CASE Wakes(h)
  <2>1. h' = WakeUp(y)
    BY <1>2, <1>4
  <2>2. Base' /\ (~h'.late => ~h.late)
    BY <1>1, <1>2, <2>1, WakeUpBase
  <2>3. ASSUME ~h'.late PROVE HostAt(pc, h')
    <3>1. ~h.late
      BY <2>2, <2>3
    <3>2. Good(y) => y.moved
      BY <1>2, <1>3, <1>4, <3>1 DEF InFlight, SameCommand
    <3> QED BY <1>2, <1>3, <2>1, <3>1, <3>2, WakeUpAt
  <2> QED BY <2>2, <2>3 DEF IInv
<1>5. CASE ~Wakes(h)
  <2>1. h' = y /\ SameErrors(y, h)
    BY <1>2, <1>5
  <2>2. /\ y.kind = h.kind /\ y.mrq_done = h.mrq_done /\ y.done = h.done
        /\ y.late = h.late
    BY <1>2 DEF SameRequest, SameCommand
  <2>3. Base'
    BY <1>1, <1>2, <2>1, <2>2 DEF Base, TypeOK
  <2>4. ASSUME ~y.late PROVE HostAt(pc, y)
    <3>0. ~h.late
      BY <2>2, <2>4
    <3>1. HostAt(pc, h)
      BY <3>0 DEF IInv
    <3>2. InFlight(y)
      BY <1>2, <1>3, <3>0 DEF InFlight, SameCommand, SameRequest
    <3>3. CASE pc \in DataPcs
      <4>1. DataFlight(y)
        BY <1>2, <1>3, <2>1, <3>0, <3>2, <3>3
        DEF DataFlight, DataPcs, Good, SameRequest, SameErrors, SameCommand
      <4> QED BY <1>2, <3>1, <3>3, <4>1 DEF HostAt, PollPcs, DataPcs, Before,
                 StartPcs, ReadyPcs, SameRequest
    <3>4. CASE pc = "wait"
      <4>1. CmdFlight(h)
        BY <1>3, <3>0, <3>4 DEF DataPcs
      <4>2. CmdFlight(y)
        BY <1>2, <2>1, <3>2, <4>1
        DEF CmdFlight, Good, SameRequest, SameErrors, SameCommand
      <4>3. h.kind \notin StartsData
        BY <3>0, <3>4, PendingFacts DEF DataPcs
      <4> QED BY <1>2, <3>4, <4>2, <4>3 DEF HostAt, PollPcs, DataPcs, Before,
                 StartPcs, ReadyPcs, SameRequest
    <3> QED BY <1>3, <3>0, <3>3, <3>4
  <2> QED BY <2>1, <2>3, <2>4 DEF IInv
<1> QED BY <1>4, <1>5

-----------------------------------------------------------------------------
LEMMA NextInv == IInv /\ [Next]_vars => IInv'
<1> SUFFICES ASSUME IInv, [Next]_vars PROVE IInv'
  OBVIOUS
<1>1. ASSUME NEW r \in Requests, Request(r) PROVE IInv'
  BY <1>1, RequestInv
<1>2. CASE Caller
  BY <1>2, PrepareInv, SetUpDmaInv, IssueInv, PollAnnounceInv, PollPrepareInv,
     PollIssueInv, PollWaitInv, PollTimeoutInv, PollCheckInv, DataAnnounceInv,
     DataWaitInv, DataTimeoutInv, DataCheckInv, DataResetInv, EndDataInv,
     ReportInv, ReturnInv DEF Caller
<1>3. CASE Interrupt
  BY <1>3, RegularInv, DmaInv DEF Interrupt
<1>4. CASE Hardware
  BY <1>4, ResponseInv, CommandDoneInv, CommandFailsInv, CommandLostInv
  DEF Hardware
<1>5. CASE UNCHANGED vars
  BY <1>5 DEF vars, IInv, Base, TypeOK, HostAt, Calm, Ready, PollFlight,
     DataFlight, CmdFlight, InFlight, DataEnded, Good
<1> QED BY <1>1, <1>2, <1>3, <1>4, <1>5 DEF Next

(* The inductive invariant holds of every behaviour of the driver.         *)
THEOREM Invariant == Spec => []IInv
BY InitInv, NextInv, PTL DEF Spec

(* Every field of atsmb_host keeps its type, and no counter of             *)
(* completions falls below zero.                                           *)
THEOREM TypeCorrect == Spec => []TypeOK
<1>1. IInv => TypeOK
  BY DEF IInv, Base
<1> QED BY <1>1, Invariant, PTL

(* mmc_request_done completes the caller of mmc_wait_for_req at most once, *)
(* whichever of the two handlers, atsmb_start_data and its time-out end    *)
(* the request, and however often it is tried again; also when a poll or   *)
(* an earlier command answers too late.                                    *)
THEOREM RequestEndsOnce == Spec => []EndsOnce
<1>1. IInv => EndsOnce
  <2> SUFFICES ASSUME IInv PROVE EndsOnce
    OBVIOUS
  <2>1. h \in Host
    BY DEF IInv, Base, TypeOK
  <2> QED BY <2>1, FieldTypes DEF IInv, Base, EndsOnce
<1> QED BY <1>1, Invariant, PTL

(* A request that mmc_wait_for_req reports without an error was carried    *)
(* out by the card, whatever was lost or tried again; unless the timer     *)
(* ended one of its polls, or it began to give the host a command before   *)
(* one that a timer had given up on was over (~h.late in the property).    *)
THEOREM SuccessWasTransferred == Spec => []SuccessIsTransferred
<1>1. IInv => SuccessIsTransferred
  BY DEF IInv, HostAt, DataEnded, Good, SuccessIsTransferred
<1> QED BY <1>1, Invariant, PTL

(* When atsmb_regular_isr or atsmb_dma_isr runs, the request it writes to  *)
(* and the completion done_data points to are those of a caller that has   *)
(* not returned from the function they live in; with the same two          *)
(* exceptions, in which they need not be.                                  *)
THEOREM HandlersFindCaller == Spec => []HandlerFindsCaller
<1>1. IInv => HandlerFindsCaller
  <2> SUFFICES ASSUME IInv, ~h.late, RegularIrq \/ DmaIrq
               PROVE  /\ pc # "idle"
                      /\ h.done_data =>
                           pc \notin {"start", "start_dma", "start_issue",
                                      "wait", "report"}
    BY DEF HandlerFindsCaller, CallerIsThere
  <2> QED BY PendingFacts DEF DataPcs, CmdFlight
<1> QED BY <1>1, Invariant, PTL
=============================================================================
