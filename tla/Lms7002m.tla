------------------------------ MODULE Lms7002m -------------------------------
(***************************************************************************)
(* The SDR driver lms7002m_driver.c, as far as a caller gets.  lms7002m_init *)
(* clears the driver, resets the chip and reads its revision before          *)
(* `initialized' is set, and lms7002m_spi_read refuses a driver that is not  *)
(* initialised: init always fails and every operation that needs it returns  *)
(* NOT_INITIALIZED.  What works without it is modelled whole: register       *)
(* writes, reset, the channel, and the synthesiser arithmetic, with          *)
(* frequencies in units of 10 kHz.                                          *)
(***************************************************************************)
EXTENDS Integers, FiniteSetsExt

CONSTANT LmsFreqs  \* frequencies asked for, in units of 10 kHz

ASSUME LmsAssumption == LmsFreqs \subseteq Nat

VARIABLES
  lms_initialized, \* drv->initialized
  lms_channel,     \* drv->active_channel
  lms_top,         \* register TOP: the channel it selects, or "reset"
  lms_rc,          \* result of the last call
  lms_pll          \* the last synthesiser parameters asked for

lmsVars == <<lms_initialized, lms_channel, lms_top, lms_rc, lms_pll>>

FREQ_MIN == 10
FREQ_MAX == 380000
VCO_MIN == 188000
VCO_MAX == 580000
REF_CLK == 3072
PLL_INT == 1 .. 255

NoPll == [rc |-> "none", freq |-> 0, nint |-> 0, nfrac |-> 0, div |-> 0]

-----------------------------------------------------------------------------
(* Only a driver that is initialised reads a register.                       *)
lms7002m_spi_read_rc == IF lms_initialized THEN "OK" ELSE "NOT_INITIALIZED"

(* lms7002m_reset pulses the reset register.                                 *)
lms7002m_reset ==
  /\ lms_top' = "reset" /\ lms_rc' = "OK"
  /\ UNCHANGED <<lms_initialized, lms_channel, lms_pll>>

(* A speed above 20 MHz touches nothing; otherwise the driver is cleared, the *)
(* chip reset, and the revision cannot be read.                              *)
lms7002m_init(speed_ok) ==
  /\ IF speed_ok
     THEN lms_initialized' = FALSE /\ lms_channel' = "A" /\ lms_top' = "reset"
     ELSE UNCHANGED <<lms_initialized, lms_channel, lms_top>>
  /\ lms_rc' = IF speed_ok THEN "SPI" ELSE "INVALID_PARAM"
  /\ UNCHANGED lms_pll

lms7002m_set_channel(ch) ==
  /\ lms_channel' = ch /\ lms_top' = ch
  /\ UNCHANGED <<lms_initialized, lms_rc, lms_pll>>

(* configure, gain, start, calibrate, FIFO, status: the first test ends them. *)
NeedsInit ==
  /\ lms_rc' = lms7002m_spi_read_rc
  /\ UNCHANGED <<lms_initialized, lms_channel, lms_top, lms_pll>>

(* Bug shape: the divider stops at 16.                                       *)
MutDividers(freq) == {d \in {1, 2, 4, 8, 16} : freq * d \in VCO_MIN .. VCO_MAX}

(* Dividers that bring the VCO into its range.                               *)
Dividers(freq) == {d \in {1, 2, 4, 8, 16, 32} : freq * d \in VCO_MIN .. VCO_MAX}

(* The smallest of them, the integer part of VCO / reference, and 24 bits of  *)
(* its fraction, cut at 0x7FFFFF (2^24 / REF_CLK is 16384 / 3).              *)
PllParams(freq) ==
  LET div == Min(Dividers(freq))
      nint == (freq * div) \div REF_CLK
      nfrac == (((freq * div) % REF_CLK) * 16384) \div 3
  IN  IF freq \notin FREQ_MIN .. FREQ_MAX \/ Dividers(freq) = {} \/ nint \notin PLL_INT
      THEN [NoPll EXCEPT !.rc = "INVALID_PARAM", !.freq = freq]
      ELSE [rc |-> "OK", freq |-> freq, nint |-> nint, nfrac |-> Min({nfrac, 8388607}),
            div |-> div]

lms7002m_calculate_pll_params(freq) ==
  /\ lms_pll' = PllParams(freq) /\ lms_rc' = PllParams(freq).rc
  /\ UNCHANGED <<lms_initialized, lms_channel, lms_top>>

-----------------------------------------------------------------------------
LmsInit ==
  /\ lms_initialized = FALSE /\ lms_channel = "A" /\ lms_top = "reset"
  /\ lms_rc = "OK" /\ lms_pll = NoPll

LmsNext ==
  \/ lms7002m_reset \/ NeedsInit
  \/ \E ok \in BOOLEAN : lms7002m_init(ok)
  \/ \E ch \in {"A", "B"} : lms7002m_set_channel(ch)
  \/ \E freq \in LmsFreqs : lms7002m_calculate_pll_params(freq)

LmsSpec == LmsInit /\ [][LmsNext]_lmsVars

-----------------------------------------------------------------------------
(* The frequency f_REF * (NINT + NFRAC / 2^24) / DIV that parameters give, in  *)
(* units of 10 kHz, rounded down.                                            *)
Synthesised(p) == (p.nint * REF_CLK + (p.nfrac * 3) \div 16384) \div p.div

(* What the synthesiser really covers: the divided ranges of the VCO leave no  *)
(* gap from VCO_MIN / 32 (58.75 MHz) to the upper limit, so every frequency   *)
(* there gets parameters with the VCO in range; a lower one is refused rather *)
(* than mistuned; and the cut of the fraction costs less than half a          *)
(* reference step.                                                          *)
PllCovers ==
  lms_pll # NoPll =>
    /\ lms_pll.rc = "OK" <=> lms_pll.freq \in VCO_MIN \div 32 .. FREQ_MAX
    /\ lms_pll.rc = "OK" =>
         /\ lms_pll.freq * lms_pll.div \in VCO_MIN .. VCO_MAX
         /\ lms_pll.freq - Synthesised(lms_pll) \in 0 .. (REF_CLK \div (2 * lms_pll.div)) + 1

(* What the header calls the "minimum and maximum tunable RF frequency" can be *)
(* tuned to.                                                                *)
TunableRangeCovered ==
  lms_pll # NoPll /\ lms_pll.freq \in FREQ_MIN .. FREQ_MAX => lms_pll.rc = "OK"
=============================================================================
