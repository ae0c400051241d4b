------------------------------- MODULE Cc1101 --------------------------------
(***************************************************************************)
(* The sub-GHz radio driver cc1101_init.c and the SPI helpers it calls in   *)
(* rp2350b_init.c.  One thread calls it and it keeps no state of its own:   *)
(* all state is the chip's.  A call is one step whose waits end or time out.*)
(* The chip is external.  It tells a status register from a command strobe  *)
(* of the same address by the burst bit of the header; cc1101_read_status   *)
(* sends the header without it, so every status read is the strobe of that  *)
(* address, and what it returns says nothing of the register: the waits and *)
(* the part-number check end either way.  The three register tables differ  *)
(* in FREQ2..FREQ0 only, so the configuration is that word; a byte in a     *)
(* FIFO is the carrier it was received on or queued for.                    *)
(***************************************************************************)
EXTENDS Integers, SequencesExt

CONSTANTS
  CC1101_FIFO,  \* bytes of each FIFO (64)
  CcLens        \* lengths the callers ask for

ASSUME CcAssumption == CC1101_FIFO \in Nat \ {0} /\ CcLens \subseteq Nat

VARIABLES
  cc_cs,      \* chip select is asserted
  cc_marc,    \* MARCSTATE: "IDLE", "RX", "TX", "FSTXON", "WOR", "SLEEP" or "STUCK"
  cc_freq,    \* FREQ2..FREQ0, 0 while the registers have their reset values
  cc_sync,    \* SYNC1 and SYNC0: of the "table", or "user"
  cc_pa,      \* PATABLE entry 0, in dBm
  cc_rx,      \* RX FIFO
  cc_tx,      \* TX FIFO
  cc_ret,     \* the last call that reached the chip, and its result
  cc_half     \* history: a band switch gave up after its table, no reset since

ccVars == <<cc_cs, cc_marc, cc_freq, cc_sync, cc_pa, cc_rx, cc_tx, cc_ret, cc_half>>

cc1101_config_868mhz == 2187894   \* 0x216276
cc1101_config_433mhz == 1091426   \* 0x10A762
cc1101_config_915mhz == 2306363   \* 0x23313B
BandTable == [band \in {433, 868, 915} |->
                CASE band = 433 -> cc1101_config_433mhz
                  [] band = 868 -> cc1101_config_868mhz
                  [] band = 915 -> cc1101_config_915mhz]

(* The carrier of a frequency word in kHz: word * 26 MHz / 2^16.             *)
CarrierKHz(word) ==
  (word \div 65536) * 26000 + ((word % 65536) * 26000) \div 65536

CcReturn(call, rc) == cc_ret' = [call |-> call, rc |-> rc]
ReturnsVoid == CcReturn("other", 0)

-----------------------------------------------------------------------------
(* The chip on its own: a byte is received, or sent.                         *)
CcReceives ==
  /\ cc_marc = "RX" /\ Len(cc_rx) < CC1101_FIFO
  /\ cc_rx' = Append(cc_rx, cc_freq)
  /\ UNCHANGED <<cc_cs, cc_marc, cc_freq, cc_sync, cc_pa, cc_tx, cc_ret, cc_half>>

CcSends ==
  /\ cc_marc = "TX" /\ cc_tx # << >>
  /\ cc_tx' = Tail(cc_tx)
  /\ UNCHANGED <<cc_cs, cc_marc, cc_freq, cc_sync, cc_pa, cc_rx, cc_ret, cc_half>>

-----------------------------------------------------------------------------
(* An access asserts chip select, transfers bytes and releases it, also when  *)
(* cc1101_init had left it asserted.                                         *)
Accessed == cc_cs' = FALSE

(* The register table and PATABLE of a band.                                 *)
WriteTable(word) ==
  cc_freq' = word /\ cc_sync' = "table" /\ cc_pa' = 0

(* SRES: reset values, empty FIFOs, IDLE.                                    *)
ChipReset ==
  /\ cc_freq' = 0 /\ cc_sync' = "table" /\ cc_pa' = 10
  /\ cc_rx' = << >> /\ cc_tx' = << >>
  /\ cc_half' = FALSE

(* The chip heeds a strobe, or is in a state in which it does not; SFRX and   *)
(* SFTX are sure to act in IDLE only.                                        *)
Heeds(state)  == cc_marc' \in {cc_marc, state}
Flushed(fifo) == IF cc_marc = "IDLE" THEN {<< >>} ELSE {<< >>, fifo}

(* A wait for MARCSTATE = IDLE strobes STX: the chip transmits, or is stuck.  *)
PolledMarcstate == cc_marc' \in {"TX", "STUCK"}

(* cc1101_init: -2, the chip does not pull MISO low and chip select stays     *)
(* asserted; -3, the same after the reset strobe; -4, the wait after the      *)
(* calibration runs out; else the read of PARTNUM, which is SRES, undoes the  *)
(* table just written, whether its result is taken as wrong (-1) or not.     *)
cc1101_init(rc) ==
  /\ CcReturn("init", rc)
  /\ cc_cs' = (rc = -2)
  /\ CASE rc = -2 -> UNCHANGED <<cc_marc, cc_freq, cc_sync, cc_pa, cc_rx, cc_tx, cc_half>>
       [] rc = -3 -> /\ cc_marc' = "STUCK"
                     /\ \/ UNCHANGED <<cc_freq, cc_sync, cc_pa, cc_rx, cc_tx, cc_half>>
                        \/ ChipReset
       [] rc = -4 -> /\ WriteTable(cc1101_config_868mhz)
                     /\ cc_rx' = << >> /\ cc_tx' = << >> /\ cc_half' = FALSE
                     /\ PolledMarcstate
       [] OTHER   -> ChipReset /\ cc_marc' = "IDLE"

(* Bug shape: the table is written before the wait for IDLE.                 *)
MutSetBandNotIdle ==
  /\ CcReturn("set_band", -4)
  /\ Accessed /\ PolledMarcstate
  /\ \E band \in DOMAIN BandTable : WriteTable(BandTable[band])
  /\ UNCHANGED <<cc_rx, cc_tx, cc_half>>

(* cc1101_set_band: the first wait runs out, ...                             *)
SetBandNotIdle ==
  /\ CcReturn("set_band", -4)
  /\ Accessed /\ PolledMarcstate
  /\ UNCHANGED <<cc_freq, cc_sync, cc_pa, cc_rx, cc_tx, cc_half>>

(* ... the second does, after the FIFOs were flushed in TX and the table and  *)
(* PATABLE written, ...                                                      *)
SetBandUncalibrated(band) ==
  /\ CcReturn("set_band", -4)
  /\ Accessed /\ PolledMarcstate
  /\ cc_rx' \in {<< >>, cc_rx} /\ cc_tx' \in {<< >>, cc_tx}
  /\ WriteTable(BandTable[band]) /\ cc_half' = TRUE

(* ... or neither: the read of PARTNUM resets the chip as in cc1101_init.     *)
cc1101_set_band(rc) ==
  /\ CcReturn("set_band", rc)
  /\ Accessed
  /\ ChipReset /\ cc_marc' = "IDLE"

cc1101_enter_rx ==
  /\ Accessed /\ Heeds("RX") /\ cc_rx' \in Flushed(cc_rx)
  /\ ReturnsVoid
  /\ UNCHANGED <<cc_freq, cc_sync, cc_pa, cc_tx, cc_half>>

(* SFTX before STX: what cc1101_write_tx_fifo has queued is flushed.         *)
cc1101_enter_tx ==
  /\ Accessed /\ Heeds("TX") /\ cc_tx' \in Flushed(cc_tx)
  /\ ReturnsVoid
  /\ UNCHANGED <<cc_freq, cc_sync, cc_pa, cc_rx, cc_half>>

(* SIDLE is heeded in every state but a stuck one.                           *)
cc1101_enter_idle ==
  /\ Accessed /\ cc_marc' = IF cc_marc = "STUCK" THEN cc_marc ELSE "IDLE"
  /\ ReturnsVoid
  /\ UNCHANGED <<cc_freq, cc_sync, cc_pa, cc_rx, cc_tx, cc_half>>

(* The wait for IDLE has strobed STX when the power-down strobe comes.       *)
cc1101_enter_sleep ==
  /\ Accessed /\ cc_marc' \in {"SLEEP", "TX", "STUCK"}
  /\ ReturnsVoid
  /\ UNCHANGED <<cc_freq, cc_sync, cc_pa, cc_rx, cc_tx, cc_half>>

(* A status register's address as a strobe: SRES resets, SFRX and SFTX flush, *)
(* the others move the chip.                                                 *)
StrobeMoves == [VERSION |-> "FSTXON", LQI |-> "IDLE", RSSI |-> "RX", MARCSTATE |-> "TX",
                PKTSTATUS |-> "WOR"]

(* cc1101_get_partnum; cc1101_get_tx_bytes is SFRX, cc1101_get_rx_bytes SFTX; *)
(* the getters of version, link quality, RSSI, state and packet status.      *)
cc1101_get_partnum ==
  /\ Accessed /\ ReturnsVoid
  /\ ChipReset /\ cc_marc' = "IDLE"

cc1101_get_tx_bytes ==
  /\ Accessed /\ ReturnsVoid /\ cc_rx' \in Flushed(cc_rx)
  /\ UNCHANGED <<cc_marc, cc_freq, cc_sync, cc_pa, cc_tx, cc_half>>

cc1101_get_rx_bytes ==
  /\ Accessed /\ ReturnsVoid /\ cc_tx' \in Flushed(cc_tx)
  /\ UNCHANGED <<cc_marc, cc_freq, cc_sync, cc_pa, cc_rx, cc_half>>

cc1101_read_status(reg) ==
  /\ Accessed /\ ReturnsVoid
  /\ Heeds(StrobeMoves[reg])
  /\ UNCHANGED <<cc_freq, cc_sync, cc_pa, cc_rx, cc_tx, cc_half>>

(* A configuration register is below the strobes: its read is one.           *)
cc1101_read_config_reg ==
  /\ Accessed /\ ReturnsVoid
  /\ UNCHANGED <<cc_marc, cc_freq, cc_sync, cc_pa, cc_rx, cc_tx, cc_half>>

(* A length of 0 does nothing, a longer one than the FIFO is cut; what the    *)
(* FIFO has no room for is lost in the chip.                                 *)
cc1101_write_tx_fifo(n) ==
  LET sent == Min({n, CC1101_FIFO})
      fits == Min({sent, CC1101_FIFO - Len(cc_tx)})
  IN  /\ n > 0
      /\ cc_tx' = cc_tx \o [k \in 1 .. fits |-> cc_freq]
      /\ Accessed
      /\ ReturnsVoid
      /\ UNCHANGED <<cc_marc, cc_freq, cc_sync, cc_pa, cc_rx, cc_half>>

cc1101_read_rx_fifo(n) ==
  LET asked == Min({n, CC1101_FIFO})
  IN  /\ n > 0
      /\ cc_rx' = SubSeq(cc_rx, asked + 1, Len(cc_rx))
      /\ Accessed
      /\ ReturnsVoid
      /\ UNCHANGED <<cc_marc, cc_freq, cc_sync, cc_pa, cc_tx, cc_half>>

cc1101_set_sync_word ==
  /\ cc_sync' = "user" /\ Accessed
  /\ ReturnsVoid
  /\ UNCHANGED <<cc_marc, cc_freq, cc_pa, cc_rx, cc_tx, cc_half>>

(* The level of the PATABLE entry chosen for a power in dBm.                 *)
PaLevels == {-30, -20, -15, -10, 0, 5, 7, 10}
PaLevel(dbm) == LET enough == {l \in PaLevels : dbm <= l}
                IN  IF enough = {} THEN 10 ELSE Min(enough)

cc1101_set_tx_power(dbm) ==
  /\ cc_pa' = PaLevel(dbm) /\ Accessed
  /\ ReturnsVoid
  /\ UNCHANGED <<cc_marc, cc_freq, cc_sync, cc_rx, cc_tx, cc_half>>

-----------------------------------------------------------------------------
CcInit ==
  /\ cc_cs = FALSE /\ cc_marc = "IDLE" /\ cc_freq = 0 /\ cc_sync = "table"
  /\ cc_pa = 10 /\ cc_rx = << >> /\ cc_tx = << >>
  /\ cc_ret = [call |-> "other", rc |-> 0]
  /\ cc_half = FALSE

CcNext ==
  \/ CcReceives \/ CcSends
  \/ \E rc \in {0, -1, -2, -3, -4} : cc1101_init(rc)
  \/ SetBandNotIdle
  \/ \E band \in DOMAIN BandTable : SetBandUncalibrated(band)
  \/ \E rc \in {0, -1} : cc1101_set_band(rc)
  \/ cc1101_enter_rx \/ cc1101_enter_tx \/ cc1101_enter_idle \/ cc1101_enter_sleep
  \/ \E n \in CcLens : cc1101_write_tx_fifo(n) \/ cc1101_read_rx_fifo(n)
  \/ cc1101_get_partnum \/ cc1101_get_tx_bytes \/ cc1101_get_rx_bytes
  \/ \E reg \in DOMAIN StrobeMoves : cc1101_read_status(reg)
  \/ cc1101_set_sync_word \/ cc1101_read_config_reg
  \/ \E dbm \in {-29, 127} : cc1101_set_tx_power(dbm)

CcSpec == CcInit /\ [][CcNext]_ccVars

-----------------------------------------------------------------------------
(* Whatever calls failed before: chip select is held between two calls only   *)
(* after an initialisation that gave up on its first wait, a configured       *)
(* carrier is within 1 kHz of its band, and no FIFO holds bytes of another    *)
(* carrier than the one tuned, so nothing is sent or read on the wrong one,   *)
(* unless a band switch gave up after writing its table: its flush comes      *)
(* while the wait before it has the chip in TX.                              *)
ChipLeftUsable ==
  /\ cc_cs => cc_ret = [call |-> "init", rc |-> -2]
  /\ cc_freq # 0 => \E band \in DOMAIN BandTable :
                      CarrierKHz(cc_freq) - 1000 * band \in -1 .. 1
  /\ ~cc_half => /\ \A k \in DOMAIN cc_rx : cc_rx[k] = cc_freq
                 /\ \A k \in DOMAIN cc_tx : cc_tx[k] = cc_freq

(* A call that ends with "Set to IDLE (should already be in IDLE after SCAL)" *)
(* leaves the transmitter off, also when it fails.                           *)
SetUpLeavesTxOff == cc_ret.call \in {"init", "set_band"} => cc_marc # "TX"
=============================================================================
