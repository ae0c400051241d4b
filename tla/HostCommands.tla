---------------------------- MODULE HostCommands -----------------------------
(***************************************************************************)
(* A command on its way from a program to the hardware: the Python binding   *)
(* (pyapex.c), the library (libapex.c), the ioctls of the driver             *)
(* (apex_bridge.c), the SPI link, and the handlers of the firmware           *)
(* (spi_protocol.c).  Every layer checks the command again, each by its own  *)
(* rules.  The link may fail, which the driver reports, or damage a frame,   *)
(* which the firmware drops in silence; frames are handled in order.  What   *)
(* a layer answers depends on the layers above it only.                     *)
(*                                                                         *)
(* A request is [call, a, b]: the function, and its one or two arguments as   *)
(* the program gave them; the library may see others (PyRequest).           *)
(* Frequencies are in kHz and below 2^32 Hz.  Register values, the payload of *)
(* an NFC exchange and the other arguments of sdr_tune are not looked at by  *)
(* any check.                                                              *)
(***************************************************************************)
EXTENDS Integers, Sequences

CONSTANTS
  HcRequests,  \* requests of the programs
  HcLink       \* bound: frames on the way

ASSUME HcAssumption ==
  /\ HcRequests \subseteq [call : STRING, a : Int, b : Int]
  /\ HcLink \in Nat \ {0}

VARIABLES
  hc_open,       \* the program has a handle
  hc_last_error, \* handle->last_error
  hc_rc,         \* result of the last call
  hc_flags,      \* dev->flags of the driver
  hc_frames,     \* frames on the way, each with the request it comes from
  hc_mcu,        \* antenna, streaming and nfc_active of the firmware
  hc_effect      \* history: what the firmware did last, and for which request

hcVars == <<hc_open, hc_last_error, hc_rc, hc_flags, hc_frames, hc_mcu, hc_effect>>

NoEffect == [kind |-> "none", val |-> {}, ask |-> [call |-> "none", a |-> 0, b |-> 0]]
ResetMcu == [antenna |-> 0, streaming |-> FALSE, nfc_active |-> FALSE]

-----------------------------------------------------------------------------
(* The Python binding: "B" takes an integer modulo 256, an int8_t wraps, ...  *)
PyByte(n) == n % 256
PyInt8(n) == ((n + 128) % 256) - 128

PyRadio(r) ==
  CASE r.call \in {"write", "channel"} -> [r EXCEPT !.a = PyByte(r.a)]
    [] r.call = "power"                -> [r EXCEPT !.a = PyInt8(r.a)]

PyRead(r) == [r EXCEPT !.a = PyByte(r.a), !.b = PyByte(r.b)]

(* ... the other arguments are passed on, ...                                *)
PyRequest(r) ==
  CASE r.call \in {"write", "channel", "power"} -> PyRadio(r)
    [] r.call = "read"                          -> PyRead(r)
    [] OTHER                                    -> r

(* ... and two lengths are checked before the library sees them.             *)
PyRegLen(r) == r.call \in {"write", "read"} => r.b \in 1 .. 64
PyNfcLen(r) == r.call = "nfc" => r.a <= 256
PyAccepts(r) == PyRegLen(PyRequest(r)) /\ PyNfcLen(r)

-----------------------------------------------------------------------------
(* The library: what it does not refuse with INVALID_ARG, ...                *)
LibSdr(r) == r.call = "stream" \/ (r.call = "tune" /\ r.a \in 100 .. 3800000)
LibAntenna(r) == r.call = "antenna" /\ r.a \in 0 .. 3
LibWrite(r) == r.call = "write" /\ r.b \in 1 .. 64 /\ r.a <= 61
LibRead(r) == r.call = "read" /\ r.b \in 1 .. 64 /\ r.a <= 61
LibBand(r) == r.call = "band" /\ r.a \in 0 .. 2
LibNfc(r) == r.call \in {"field", "poll"} \/ (r.call = "nfc" /\ r.a <= 256)

LibAccepts(r) ==
  \/ LibSdr(r) \/ LibAntenna(r) \/ LibWrite(r) \/ LibRead(r) \/ LibBand(r)
  \/ LibNfc(r) \/ r.call \in {"channel", "power"}

(* ... and what it hands to the driver: the channel is register 0x0A, the      *)
(* power goes to FREND0 (0x22), a read is the same ioctl with zeros for data, *)
(* a band is the address 0xFF with the band for a length; field_on, field_off *)
(* and poll are NFC exchanges without data.                                  *)
LibFrame(r) ==
  CASE r.call = "tune"              -> [cmd |-> "SDR_TUNE", x |-> r.a, y |-> 8]
    [] r.call = "stream"            -> [cmd |-> "SDR_STREAM", x |-> r.a, y |-> 1]
    [] r.call = "antenna"           -> [cmd |-> "ANT_SELECT", x |-> r.a, y |-> 1]
    [] r.call \in {"write", "read"} -> [cmd |-> "CC1101_CFG", x |-> r.a, y |-> r.b]
    [] r.call = "channel"           -> [cmd |-> "CC1101_CFG", x |-> 10, y |-> 1]
    [] r.call = "power"             -> [cmd |-> "CC1101_CFG", x |-> 34, y |-> 1]
    [] r.call = "band"              -> [cmd |-> "CC1101_CFG", x |-> 255, y |-> r.a]
    [] r.call = "nfc"               -> [cmd |-> "NFC_TRANSACT", x |-> r.a, y |-> r.a]
    [] r.call \in {"field", "poll"} -> [cmd |-> "NFC_TRANSACT", x |-> 0, y |-> 0]

(* The driver copies nothing back: a transaction gives the caller its own      *)
(* data, and a poll, which waits for data, always ends in a timeout.         *)
LibResult(r) == IF r.call = "poll" THEN "TIMEOUT" ELSE "OK"

-----------------------------------------------------------------------------
(* The ioctls that send a frame: the antenna and the two lengths are checked. *)
IoctlSdr(f) == f.cmd \in {"SDR_TUNE", "SDR_STREAM"}
IoctlAntenna(f) == f.cmd = "ANT_SELECT" /\ f.x <= 3
IoctlCc1101(f) == f.cmd = "CC1101_CFG" /\ f.y \in 1 .. 64
IoctlNfc(f) == f.cmd = "NFC_TRANSACT" /\ f.x <= 256
DriverAccepts(f) == IoctlSdr(f) \/ IoctlAntenna(f) \/ IoctlCc1101(f) \/ IoctlNfc(f)

Answer(rc) == hc_rc' = rc /\ hc_last_error' = rc

(* A call without a handle, or with arguments the binding or the library       *)
(* refuses; last_error keeps its value.                                      *)
CallRefused(r) ==
  /\ ~(hc_open /\ LibAccepts(r))
  /\ hc_rc' = "INVALID_ARG"
  /\ UNCHANGED <<hc_open, hc_last_error, hc_flags, hc_frames, hc_mcu, hc_effect>>

(* The ioctl refuses, or finds no memory.                                    *)
CallRejected(r) ==
  /\ hc_open /\ LibAccepts(r)
  /\ Answer("IOCTL_FAILED")
  /\ UNCHANGED <<hc_open, hc_flags, hc_frames, hc_mcu, hc_effect>>

Accepted(r) == hc_open /\ LibAccepts(r) /\ DriverAccepts(LibFrame(r))

(* The frame is on the link, with what the program asked for, unless it was    *)
(* damaged or the MCU is in reset.                                           *)
Sent(r, ask) ==
  IF "MCU_RESET" \in hc_flags THEN UNCHANGED hc_frames
  ELSE \/ UNCHANGED hc_frames
       \/ /\ Len(hc_frames) < HcLink
          /\ hc_frames' = Append(hc_frames, [frame |-> LibFrame(r), ask |-> ask])

(* apex_spi_xfer fails; what the MCU got of the frame is unknown.            *)
CallFails(r, ask) ==
  /\ Accepted(r) /\ Sent(r, ask)
  /\ Answer("IOCTL_FAILED") /\ hc_flags' = hc_flags \cup {"SPI_ERROR"}
  /\ UNCHANGED <<hc_open, hc_mcu, hc_effect>>

(* apex_spi_xfer succeeds.                                                   *)
CallSent(r, ask) ==
  /\ Accepted(r) /\ Sent(r, ask)
  /\ IF LibResult(r) = "OK" THEN Answer("OK")
     ELSE hc_rc' = LibResult(r) /\ hc_last_error' = "OK"
  /\ UNCHANGED <<hc_open, hc_flags, hc_mcu, hc_effect>>

(* A call from C, whose argument types hold no other values, ...             *)
Call(r, ask) ==
  CallRefused(r) \/ CallRejected(r) \/ CallFails(r, ask) \/ CallSent(r, ask)
CCall(r) == r = PyRequest(r) /\ Call(r, r)

(* ... or from Python, which raises errors of its own for a closed device and  *)
(* for a length, and turns the result of the library into None or an IOError. *)
PyCall(r) == hc_open /\ PyAccepts(r) /\ Call(PyRequest(r), r)

PyRaises(r) ==
  /\ ~(hc_open /\ PyAccepts(r))
  /\ hc_rc' = IF hc_open THEN "ValueError" ELSE "RuntimeError"
  /\ UNCHANGED <<hc_open, hc_last_error, hc_flags, hc_frames, hc_mcu, hc_effect>>

apex_open ==
  /\ ~hc_open /\ hc_open' = TRUE /\ Answer("OK")
  /\ UNCHANGED <<hc_flags, hc_frames, hc_mcu, hc_effect>>

apex_close ==
  /\ hc_open /\ hc_open' = FALSE
  /\ UNCHANGED <<hc_last_error, hc_rc, hc_flags, hc_frames, hc_mcu, hc_effect>>

(* apex_mcu_reset: the MCU forgets its state and what it had not handled.    *)
apex_mcu_reset(assert) ==
  /\ hc_open /\ Answer("OK")
  /\ IF assert
     THEN /\ hc_flags' = hc_flags \cup {"MCU_RESET"}
          /\ hc_frames' = << >> /\ hc_mcu' = ResetMcu /\ hc_effect' = NoEffect
     ELSE /\ hc_flags' = (hc_flags \ {"MCU_RESET"}) \cup {"MCU_READY"}
          /\ UNCHANGED <<hc_frames, hc_mcu, hc_effect>>
  /\ UNCHANGED hc_open

-----------------------------------------------------------------------------
(* The handlers of the firmware: what a frame makes them do.                 *)
Effect(kind, val) == [kind |-> kind, val |-> val]
Nothing == Effect("none", {})

handle_cmd_sdr_stream(f) ==
  IF (f.x # 0) # hc_mcu.streaming THEN Effect("stream", {f.x}) ELSE Nothing

handle_cmd_ant_select(f) == IF f.x > 3 THEN Nothing ELSE Effect("antenna", {f.x})

(* Bug shape: a burst may run from the registers into the strobes.           *)
MutCc1101Cfg(f) ==
  IF \/ f.x > 61 \/ f.x = 47
     \/ f.x >= 48 /\ f.x + f.y > 62
  THEN Nothing ELSE Effect("regs", f.x .. f.x + f.y - 1)

(* Not the reserved address, and no burst past the end of either range.      *)
handle_cmd_cc1101_cfg(f) ==
  IF \/ f.x > 61 \/ f.x = 47
     \/ f.x <= 46 /\ f.x + f.y > 47
     \/ f.x >= 48 /\ f.x + f.y > 62
  THEN Nothing ELSE Effect("regs", f.x .. f.x + f.y - 1)

handle_cmd_nfc_transact(f) == IF f.x > 256 THEN Nothing ELSE Effect("nfc", {f.x})

(* sdr_tune checks the frequency and does nothing with it yet.               *)
HandlerEffect(f) ==
  CASE f.cmd = "SDR_TUNE"     -> Nothing
    [] f.cmd = "SDR_STREAM"   -> handle_cmd_sdr_stream(f)
    [] f.cmd = "ANT_SELECT"   -> handle_cmd_ant_select(f)
    [] f.cmd = "CC1101_CFG"   -> handle_cmd_cc1101_cfg(f)
    [] f.cmd = "NFC_TRANSACT" -> handle_cmd_nfc_transact(f)

dispatch_frame ==
  LET f == Head(hc_frames).frame
      e == HandlerEffect(f)
  IN  /\ hc_frames # << >>
      /\ hc_frames' = Tail(hc_frames)
      /\ hc_effect' = [kind |-> e.kind, val |-> e.val, ask |-> Head(hc_frames).ask]
      /\ hc_mcu' = [antenna |-> IF e.kind = "antenna" THEN f.x ELSE hc_mcu.antenna,
                    streaming |-> IF e.kind = "stream" THEN f.x # 0 ELSE hc_mcu.streaming,
                    nfc_active |-> hc_mcu.nfc_active \/ e.kind = "nfc"]
      /\ UNCHANGED <<hc_open, hc_last_error, hc_rc, hc_flags>>

-----------------------------------------------------------------------------
HcInit ==
  /\ hc_open = FALSE /\ hc_last_error = "OK" /\ hc_rc = "OK"
  /\ hc_flags = {"MCU_READY"} /\ hc_frames = << >> /\ hc_mcu = ResetMcu
  /\ hc_effect = NoEffect

HcNext ==
  \/ apex_open \/ apex_close \/ \E assert \in BOOLEAN : apex_mcu_reset(assert)
  \/ \E r \in HcRequests : CCall(r) \/ PyCall(r) \/ PyRaises(r)
  \/ dispatch_frame

HcSpec == HcInit /\ [][HcNext]_hcVars

-----------------------------------------------------------------------------
Registers == 0 .. 46
Strobes == 48 .. 61

(* The registers a request asks to be written: a read asks for none.         *)
AskedRegs(r) ==
  CASE r.call = "write"   -> r.a .. r.a + r.b - 1
    [] r.call = "channel" -> {10}
    [] r.call = "power"   -> {34}
    [] OTHER              -> {}

(* Through all the layers, whatever fails or is lost on the way: the firmware  *)
(* only acts for a request of that kind.  A register burst stays in one range *)
(* and, when it is neither a read nor one whose address Python has wrapped,   *)
(* covers just the registers of its request (a band switch, which travels as  *)
(* an address, writes none); an antenna is the one asked for; a stream starts *)
(* and stops by its own command.                                             *)
DoesWhatWasAsked ==
  LET e == hc_effect
  IN  /\ e.kind = "regs" =>
           /\ e.ask.call \in {"write", "read", "channel", "power"}
           /\ e.ask.call # "read" /\ e.ask = PyRequest(e.ask) => e.val = AskedRegs(e.ask)
           /\ e.val \subseteq Registers \/ e.val \subseteq Strobes
      /\ e.kind = "antenna" => e.ask.call = "antenna" /\ e.val = {e.ask.a}
      /\ e.kind = "stream" => e.ask.call = "stream" /\ e.val = {e.ask.a}
      /\ e.kind = "nfc" => e.ask.call \in {"nfc", "field", "poll"}

(* What the header says of apex_cc1101_read_regs, "Read consecutive CC1101    *)
(* registers": a read writes none.                                           *)
ReadsWriteNothing == hc_effect.kind = "regs" => hc_effect.ask.call # "read"

(* What "Write CC1101 regs: cc1101_write(addr, data)" says: the registers      *)
(* written are those from the address the program gave.                      *)
WritesWhereAsked ==
  hc_effect.kind = "regs" /\ hc_effect.ask.call = "write" =>
    hc_effect.val = AskedRegs(hc_effect.ask)
=============================================================================
