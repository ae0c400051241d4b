------------------------------ MODULE St25r3916 ------------------------------
(***************************************************************************)
(* The NFC reader driver st25r3916_init.c.  One thread calls it; the chip   *)
(* works on its own: a tag in the field may answer between any two accesses *)
(* of the driver.  Interrupt flags are cleared by reading them.            *)
(* Registers that only tune the analogue part, and delays, are left out.   *)
(***************************************************************************)
EXTENDS Naturals, Integers, FiniteSetsExt

CONSTANTS
  NFC_FIFO_SIZE,  \* ST25R3916_FIFO_SIZE_VAL (512)
  NfcBufSizes,    \* *rx_len of the callers
  NfcPolls        \* bound: rounds of the polling loop (timeout_ms * 1500)

ASSUME NfcAssumption ==
  NFC_FIFO_SIZE \in Nat /\ NfcBufSizes \subseteq Nat /\ NfcPolls \in Nat \ {0}

VARIABLES
  nfc_field,    \* the transmitter is on
  nfc_op_ctrl,  \* OP_CTRL: "off" (0x00) or "rxtx" (0x03)
  nfc_irq,      \* interrupt flags that are set
  nfc_received, \* NUM_RX_BYTES
  nfc_pc,       \* the access the driver is at, "out" between two calls
  nfc_polls,    \* rounds of the polling loop left
  nfc_seen,     \* flags the running round has read (irq1, irq3)
  nfc_rx_len,   \* *rx_len
  nfc_last,     \* the last call that finished and its result
  nfc_answered  \* history: a tag answered since the running call began

nfcChip == <<nfc_field, nfc_op_ctrl, nfc_irq, nfc_received>>
nfcVars == <<nfcChip, nfc_pc, nfc_polls, nfc_seen, nfc_rx_len, nfc_last,
             nfc_answered>>

IRQ1 == {"OSC", "RXE"}
IRQ3 == {"CRC"}
NfcReturn(call, rc) == nfc_last' = [call |-> call, rc |-> rc] /\ nfc_pc' = "out"

-----------------------------------------------------------------------------
(* The chip: the field wakes a tag, its answer ends (RXE), or ends with a bad *)
(* checksum.                                                                 *)
TagAnswers(n, flags) ==
  /\ nfc_field /\ nfc_op_ctrl = "rxtx"
  /\ nfc_irq' = nfc_irq \cup flags /\ nfc_received' = n
  /\ nfc_answered' = TRUE
  /\ UNCHANGED <<nfc_field, nfc_op_ctrl, nfc_pc, nfc_polls, nfc_seen,
                 nfc_rx_len, nfc_last>>

-----------------------------------------------------------------------------
(* st25r3916_init: -1 for an unknown chip, which is left alone; otherwise      *)
(* SET_DEFAULT, configuration, receiver and transmitter enabled, flags        *)
(* cleared; -2 when the oscillator flag does not come.                       *)
st25r3916_init(rc) ==
  /\ nfc_pc = "out"
  /\ IF rc = -1
     THEN UNCHANGED nfcChip
     ELSE /\ nfc_field' = FALSE /\ nfc_op_ctrl' = "rxtx"
          /\ nfc_irq' = {} /\ nfc_received' = 0
  /\ NfcReturn("init", rc)
  /\ UNCHANGED <<nfc_polls, nfc_seen, nfc_rx_len, nfc_answered>>

NfcSwitch(call, field, op_ctrl, irq) ==
  /\ nfc_pc = "out"
  /\ nfc_field' = field /\ nfc_op_ctrl' = op_ctrl /\ nfc_irq' = irq
  /\ NfcReturn(call, 0)
  /\ UNCHANGED <<nfc_received, nfc_polls, nfc_seen, nfc_rx_len, nfc_answered>>

st25r3916_field_on == NfcSwitch("field_on", TRUE, nfc_op_ctrl, nfc_irq)
st25r3916_field_off == NfcSwitch("field_off", FALSE, nfc_op_ctrl, nfc_irq)
st25r3916_sleep == NfcSwitch("sleep", FALSE, "off", nfc_irq)
st25r3916_start_polling == NfcSwitch("start_polling", TRUE, "rxtx", {})

st25r3916_stop_polling == NfcSwitch("stop_polling", FALSE, "off", {})

(* A measurement reads another register.                                     *)
st25r3916_measure_vdd == NfcSwitch("measure_vdd", nfc_field, nfc_op_ctrl, nfc_irq)

(* The wait loop reads, and thereby clears, the flags of IRQ_STATUS1.        *)
st25r3916_get_field_strength_mv ==
  NfcSwitch("get_field_strength", nfc_field, nfc_op_ctrl, nfc_irq \ IRQ1)

(* Bug shape: the flags of the exchange before are not cleared.              *)
MutReqaBegin ==
  /\ nfc_pc = "out" /\ nfc_pc' = "reqa_tx"
  /\ nfc_answered' = FALSE
  /\ UNCHANGED <<nfcChip, nfc_polls, nfc_seen, nfc_rx_len, nfc_last>>

(* st25r3916_iso14443a_reqa: CLEAR_IRQS, ...                                 *)
ReqaBegin ==
  /\ nfc_pc = "out" /\ nfc_pc' = "reqa_tx"
  /\ nfc_irq' = {} /\ nfc_answered' = FALSE
  /\ UNCHANGED <<nfc_field, nfc_op_ctrl, nfc_received, nfc_polls, nfc_seen,
                 nfc_rx_len, nfc_last>>

(* ... the transmit FIFO, then TX_ON: with a field that was already on, a tag *)
(* may answer in between.                                                    *)
ReqaTransmit ==
  /\ nfc_pc = "reqa_tx" /\ nfc_pc' = "reqa"
  /\ nfc_field' = TRUE
  /\ UNCHANGED <<nfc_op_ctrl, nfc_irq, nfc_received, nfc_polls, nfc_seen,
                 nfc_rx_len, nfc_last, nfc_answered>>

(* ... and the flags are read; the field stays on.                           *)

ReqaEnd ==
  /\ nfc_pc = "reqa"
  /\ NfcReturn("reqa", IF "RXE" \in nfc_irq THEN 0 ELSE -1)
  /\ nfc_irq' = {}
  /\ UNCHANGED <<nfc_field, nfc_op_ctrl, nfc_received, nfc_polls, nfc_seen,
                 nfc_rx_len, nfc_answered>>

-----------------------------------------------------------------------------
(* st25r3916_transact: wrong parameters, ...                                 *)
TransactRefused ==
  /\ nfc_pc = "out" /\ NfcReturn("refused", -3)
  /\ UNCHANGED <<nfcChip, nfc_polls, nfc_seen, nfc_rx_len, nfc_answered>>

(* ... or CLEAR_IRQS, ...                                                    *)
TransactBegin(len) ==
  /\ nfc_pc = "out" /\ nfc_pc' = "tx"
  /\ nfc_irq' = {}
  /\ nfc_polls' = NfcPolls /\ nfc_rx_len' = len /\ nfc_answered' = FALSE
  /\ UNCHANGED <<nfc_field, nfc_op_ctrl, nfc_received, nfc_seen, nfc_last>>

(* ... the transmit FIFO, then TX_ON, ...                                    *)
TransactTransmit ==
  /\ nfc_pc = "tx" /\ nfc_pc' = "poll1"
  /\ nfc_field' = TRUE
  /\ UNCHANGED <<nfc_op_ctrl, nfc_irq, nfc_received, nfc_polls, nfc_seen,
                 nfc_rx_len, nfc_last, nfc_answered>>

(* ... rounds of the polling loop: IRQ_STATUS1, ...                          *)
PollIrq1 ==
  /\ nfc_pc = "poll1" /\ nfc_polls > 0
  /\ nfc_pc' = "poll3" /\ nfc_polls' = nfc_polls - 1
  /\ nfc_seen' = nfc_irq \cap IRQ1 /\ nfc_irq' = nfc_irq \ IRQ1
  /\ UNCHANGED <<nfc_field, nfc_op_ctrl, nfc_received, nfc_rx_len, nfc_last,
                 nfc_answered>>

(* ... then IRQ_STATUS3: an answer leaves the loop, ...                      *)
PollIrq3 ==
  /\ nfc_pc = "poll3" /\ ("RXE" \in nfc_seen \/ IRQ3 \cap nfc_irq = {})
  /\ nfc_pc' = IF "RXE" \in nfc_seen THEN "clear" ELSE "poll1"
  /\ nfc_irq' = nfc_irq \ IRQ3
  /\ UNCHANGED <<nfc_field, nfc_op_ctrl, nfc_received, nfc_polls, nfc_seen,
                 nfc_rx_len, nfc_last, nfc_answered>>

(* Bug shape: the checksum error returns with the field on.                  *)
MutPollCrcError ==
  /\ nfc_pc = "poll3" /\ "RXE" \notin nfc_seen /\ IRQ3 \cap nfc_irq # {}
  /\ nfc_irq' = {}
  /\ NfcReturn("transact", -2)
  /\ UNCHANGED <<nfc_field, nfc_op_ctrl, nfc_received, nfc_polls, nfc_seen,
                 nfc_rx_len, nfc_answered>>

(* ... a checksum error ends the call, ...                                   *)
PollCrcError ==
  /\ nfc_pc = "poll3" /\ "RXE" \notin nfc_seen /\ IRQ3 \cap nfc_irq # {}
  /\ nfc_irq' = {} /\ nfc_field' = FALSE
  /\ NfcReturn("transact", -2)
  /\ UNCHANGED <<nfc_op_ctrl, nfc_received, nfc_polls, nfc_seen, nfc_rx_len,
                 nfc_answered>>

PollTimeout ==
  /\ nfc_pc = "poll1" /\ nfc_polls = 0 /\ nfc_pc' = "clear"
  /\ UNCHANGED <<nfcChip, nfc_polls, nfc_seen, nfc_rx_len, nfc_last,
                 nfc_answered>>

(* ... the flags are read once more into the same variables, which forgets    *)
(* the answer the loop has seen, ...                                         *)
TransactClear ==
  /\ nfc_pc = "clear" /\ nfc_pc' = "verdict"
  /\ nfc_seen' = nfc_irq \cap IRQ1 /\ nfc_irq' = {}
  /\ UNCHANGED <<nfc_field, nfc_op_ctrl, nfc_received, nfc_polls, nfc_rx_len,
                 nfc_last, nfc_answered>>

TransactNoResponse ==
  /\ nfc_pc = "verdict" /\ "RXE" \notin nfc_seen
  /\ nfc_field' = FALSE
  /\ NfcReturn("transact", -1)
  /\ UNCHANGED <<nfc_op_ctrl, nfc_irq, nfc_received, nfc_polls, nfc_seen,
                 nfc_rx_len, nfc_answered>>

(* The bytes copied: clamped to the FIFO and to the caller's buffer.         *)
RxBytes(asked) == Min({nfc_received, NFC_FIFO_SIZE, asked})

(* ... and only an answer that ends in this last moment is handed over, if    *)
(* the caller gave a buffer.                                                 *)
TransactDone ==
  /\ nfc_pc = "verdict" /\ "RXE" \in nfc_seen
  /\ nfc_rx_len' \in {nfc_rx_len, RxBytes(nfc_rx_len)}
  /\ nfc_field' = FALSE
  /\ NfcReturn("transact", 0)
  /\ UNCHANGED <<nfc_op_ctrl, nfc_irq, nfc_received, nfc_polls, nfc_seen,
                 nfc_answered>>

-----------------------------------------------------------------------------
NfcInit ==
  /\ nfc_field = FALSE /\ nfc_op_ctrl = "off" /\ nfc_irq = {} /\ nfc_received = 0
  /\ nfc_pc = "out" /\ nfc_polls = 0 /\ nfc_seen = {} /\ nfc_rx_len = 0
  /\ nfc_last = [call |-> "none", rc |-> 0] /\ nfc_answered = FALSE

NfcNext ==
  \/ \E n \in {0, NFC_FIFO_SIZE + 1}, flags \in {{"RXE"}, {"CRC"}, {"RXE", "CRC"}} :
       TagAnswers(n, flags)
  \/ \E rc \in {0, -1, -2} : st25r3916_init(rc)
  \/ st25r3916_field_on \/ st25r3916_field_off \/ st25r3916_sleep
  \/ st25r3916_start_polling \/ st25r3916_stop_polling
  \/ st25r3916_get_field_strength_mv \/ st25r3916_measure_vdd
  \/ ReqaBegin \/ ReqaTransmit \/ ReqaEnd
  \/ TransactRefused \/ (\E len \in NfcBufSizes : TransactBegin(len))
  \/ TransactTransmit
  \/ PollIrq1 \/ PollIrq3 \/ PollCrcError \/ PollTimeout
  \/ TransactClear \/ TransactNoResponse \/ TransactDone

-----------------------------------------------------------------------------
(* The field is never left on behind the caller's back: after every call that  *)
(* ends an exchange, on each of its exits, the transmitter is off; only reqa, *)
(* field_on, start_polling (or a call that touched nothing) leave it on.     *)
FieldOffAfterExchange ==
  nfc_pc = "out" /\ nfc_last.call \in {"transact", "sleep", "stop_polling", "field_off"}
    => ~nfc_field

(* A success of transact or reqa reports an answer that ended during this     *)
(* call, never the flag an earlier call left behind.  (That the tag answers   *)
(* this request and not the one before is more than the driver can tell: in a *)
(* field left on, an answer may end after CLEAR_IRQS and before TX_ON.)       *)
AnswerIsOfThisCall ==
  nfc_pc = "out" /\ nfc_last.rc = 0 /\ nfc_last.call \in {"transact", "reqa"} =>
    nfc_answered
=============================================================================
