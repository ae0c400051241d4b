------------------------------ MODULE HostProofs ------------------------------
(***************************************************************************)
(* Proofs about the host's side of the bridge: binding and unbinding of the *)
(* Linux driver (BridgeLifecycle), the path of a command through its layers *)
(* (HostCommands), and the path of a measurement (HostTelemetry).          *)
(***************************************************************************)
EXTENDS BridgeLifecycle, HostCommands, HostTelemetry, SequenceTheorems, TLAPS

-----------------------------------------------------------------------------
(* Binding and unbinding.                                                   *)
LcSpec == LcInit /\ [][LcNext]_lcVars

Steps == {"dev", "rx_fifo", "tx_fifo", "spi_setup", "gpio_init", "gpio_to_irq", "irq",
          "chrdev", "cdev", "class", "device", "reset", "pm", "cancel_work", "sg_stop"}

(* The steps of sequence o that are left after the first j.                 *)
Suffix(s, o, j) ==
  /\ s \in Seq(Steps) /\ Len(s) = Len(o) - j
  /\ \A k \in 1 .. Len(o) - j : s[k] = o[j + k]

(* What the first i steps of probe have acquired, ...                       *)
Got(i) == UNION {Holds(ProbeOrder[k]) : k \in 1 .. i}

(* ... and what a way out has still to give back after j steps.             *)
Left(o, j) == {o[k] : k \in j + 1 .. Len(o)} \ {"reset", "cancel_work", "sg_stop"}

(* The orders of the source, step by step.                                  *)
LEMMA ProbeTable ==
  /\ ProbeOrder \in Seq(Steps) /\ Len(ProbeOrder) = 11
  /\ ProbeOrder[1] = "dev" /\ ProbeOrder[2] = "rx_fifo" /\ ProbeOrder[3] = "tx_fifo"
  /\ ProbeOrder[4] = "spi_setup" /\ ProbeOrder[5] = "gpio_init"
  /\ ProbeOrder[6] = "gpio_to_irq" /\ ProbeOrder[7] = "irq" /\ ProbeOrder[8] = "chrdev"
  /\ ProbeOrder[9] = "cdev" /\ ProbeOrder[10] = "class" /\ ProbeOrder[11] = "device"
<1>1. ProbeOrder \in Seq(Steps)
  BY DEF ProbeOrder, Steps
<1>2. Len(ProbeOrder) = 11
  BY DEF ProbeOrder
<1>3. ProbeOrder[1] = "dev"
  BY DEF ProbeOrder
<1>4. ProbeOrder[2] = "rx_fifo"
  BY DEF ProbeOrder
<1>5. ProbeOrder[3] = "tx_fifo"
  BY DEF ProbeOrder
<1>6. ProbeOrder[4] = "spi_setup"
  BY DEF ProbeOrder
<1>7. ProbeOrder[5] = "gpio_init"
  BY DEF ProbeOrder
<1>8. ProbeOrder[6] = "gpio_to_irq"
  BY DEF ProbeOrder
<1>9. ProbeOrder[7] = "irq"
  BY DEF ProbeOrder
<1>10. ProbeOrder[8] = "chrdev"
  BY DEF ProbeOrder
<1>11. ProbeOrder[9] = "cdev"
  BY DEF ProbeOrder
<1>12. ProbeOrder[10] = "class"
  BY DEF ProbeOrder
<1>13. ProbeOrder[11] = "device"
  BY DEF ProbeOrder
<1> QED
  BY <1>1, <1>2, <1>3, <1>4, <1>5, <1>6, <1>7, <1>8, <1>9, <1>10, <1>11, <1>12, <1>13

(* The order of the error labels of probe, entry by entry.                  *)
LEMMA ErrorTable ==
  /\ ErrorExits \in Seq(Steps) /\ Len(ErrorExits) = 7
  /\ ErrorExits[1] = "class" /\ ErrorExits[2] = "cdev" /\ ErrorExits[3] = "chrdev"
  /\ ErrorExits[4] = "irq" /\ ErrorExits[5] = "tx_fifo" /\ ErrorExits[6] = "rx_fifo"
  /\ ErrorExits[7] = "dev"
<1>1. ErrorExits \in Seq(Steps)
  BY DEF ErrorExits, Steps
<1>2. Len(ErrorExits) = 7
  BY DEF ErrorExits
<1>3. ErrorExits[1] = "class"
  BY DEF ErrorExits
<1>4. ErrorExits[2] = "cdev"
  BY DEF ErrorExits
<1>5. ErrorExits[3] = "chrdev"
  BY DEF ErrorExits
<1>6. ErrorExits[4] = "irq"
  BY DEF ErrorExits
<1>7. ErrorExits[5] = "tx_fifo"
  BY DEF ErrorExits
<1>8. ErrorExits[6] = "rx_fifo"
  BY DEF ErrorExits
<1>9. ErrorExits[7] = "dev"
  BY DEF ErrorExits
<1> QED
  BY <1>1, <1>2, <1>3, <1>4, <1>5, <1>6, <1>7, <1>8, <1>9

(* The order of remove, entry by entry.                                     *)
LEMMA RemoveTable ==
  /\ RemoveOrder \in Seq(Steps) /\ Len(RemoveOrder) = 12
  /\ RemoveOrder[1] = "reset" /\ RemoveOrder[2] = "pm" /\ RemoveOrder[3] = "cancel_work"
  /\ RemoveOrder[4] = "sg_stop" /\ RemoveOrder[5] = "device" /\ RemoveOrder[6] = "class"
  /\ RemoveOrder[7] = "cdev" /\ RemoveOrder[8] = "chrdev" /\ RemoveOrder[9] = "irq"
  /\ RemoveOrder[10] = "rx_fifo" /\ RemoveOrder[11] = "tx_fifo" /\ RemoveOrder[12] = "dev"
<1>1. RemoveOrder \in Seq(Steps)
  BY DEF RemoveOrder, Steps
<1>2. Len(RemoveOrder) = 12
  BY DEF RemoveOrder
<1>3. RemoveOrder[1] = "reset"
  BY DEF RemoveOrder
<1>4. RemoveOrder[2] = "pm"
  BY DEF RemoveOrder
<1>5. RemoveOrder[3] = "cancel_work"
  BY DEF RemoveOrder
<1>6. RemoveOrder[4] = "sg_stop"
  BY DEF RemoveOrder
<1>7. RemoveOrder[5] = "device"
  BY DEF RemoveOrder
<1>8. RemoveOrder[6] = "class"
  BY DEF RemoveOrder
<1>9. RemoveOrder[7] = "cdev"
  BY DEF RemoveOrder
<1>10. RemoveOrder[8] = "chrdev"
  BY DEF RemoveOrder
<1>11. RemoveOrder[9] = "irq"
  BY DEF RemoveOrder
<1>12. RemoveOrder[10] = "rx_fifo"
  BY DEF RemoveOrder
<1>13. RemoveOrder[11] = "tx_fifo"
  BY DEF RemoveOrder
<1>14. RemoveOrder[12] = "dev"
  BY DEF RemoveOrder
<1> QED
  BY <1>1, <1>2, <1>3, <1>4, <1>5, <1>6, <1>7, <1>8, <1>9, <1>10, <1>11, <1>12, <1>13, <1>14

(* One step of probe.                                                       *)
LEMMA GotMore ==
  ASSUME NEW i \in 0 .. 10
  PROVE  Got(i + 1) = Got(i) \cup Holds(ProbeOrder[i + 1])
  BY DEF Got

(* What probe holds after each of its steps.                                *)
LEMMA GotTable ==
  /\ Got(0) = {} /\ Got(1) = {"dev"} /\ Got(2) = {"dev", "rx_fifo"}
  /\ Got(3) = {"dev", "rx_fifo", "tx_fifo"} 
  /\ Got(4) = {"dev", "rx_fifo", "tx_fifo"} /\ Got(5) = {"dev", "rx_fifo", "tx_fifo"}
  /\ Got(6) = {"dev", "rx_fifo", "tx_fifo"}
  /\ Got(7) = {"dev", "rx_fifo", "tx_fifo", "irq"}
  /\ Got(8) = {"dev", "rx_fifo", "tx_fifo", "irq", "chrdev"}
  /\ Got(9) = {"dev", "rx_fifo", "tx_fifo", "irq", "chrdev", "cdev"}
  /\ Got(10) = {"dev", "rx_fifo", "tx_fifo", "irq", "chrdev", "cdev", "class"}
  /\ Got(11) = {"dev", "rx_fifo", "tx_fifo", "irq", "chrdev", "cdev", "class", "device"}
<1>0. Got(0) = {}
  BY DEF Got
<1>h. /\ Holds("dev") = {"dev"} /\ Holds("rx_fifo") = {"rx_fifo"}
      /\ Holds("tx_fifo") = {"tx_fifo"} /\ Holds("spi_setup") = {}
      /\ Holds("gpio_init") = {} /\ Holds("gpio_to_irq") = {} /\ Holds("irq") = {"irq"}
      /\ Holds("chrdev") = {"chrdev"} /\ Holds("cdev") = {"cdev"}
      /\ Holds("class") = {"class"} /\ Holds("device") = {"device"}
  BY DEF Holds
<1>1. Got(1) = {"dev"}
  BY <1>0, <1>h, GotMore, ProbeTable
<1>2. Got(2) = {"dev", "rx_fifo"}
  BY <1>1, <1>h, GotMore, ProbeTable
<1>3. Got(3) = {"dev", "rx_fifo", "tx_fifo"}
  BY <1>2, <1>h, GotMore, ProbeTable
<1>4. Got(4) = {"dev", "rx_fifo", "tx_fifo"}
  BY <1>3, <1>h, GotMore, ProbeTable
<1>5. Got(5) = {"dev", "rx_fifo", "tx_fifo"}
  BY <1>4, <1>h, GotMore, ProbeTable
<1>6. Got(6) = {"dev", "rx_fifo", "tx_fifo"}
  BY <1>5, <1>h, GotMore, ProbeTable
<1>7. Got(7) = {"dev", "rx_fifo", "tx_fifo", "irq"}
  BY <1>6, <1>h, GotMore, ProbeTable
<1>8. Got(8) = {"dev", "rx_fifo", "tx_fifo", "irq", "chrdev"}
  BY <1>7, <1>h, GotMore, ProbeTable
<1>9. Got(9) = {"dev", "rx_fifo", "tx_fifo", "irq", "chrdev", "cdev"}
  BY <1>8, <1>h, GotMore, ProbeTable
<1>10. Got(10) = {"dev", "rx_fifo", "tx_fifo", "irq", "chrdev", "cdev", "class"}
  BY <1>9, <1>h, GotMore, ProbeTable
<1>11. Got(11) = {"dev", "rx_fifo", "tx_fifo", "irq", "chrdev", "cdev", "class", "device"}
  BY <1>10, <1>h, GotMore, ProbeTable
<1> QED BY <1>0, <1>1, <1>2, <1>3, <1>4, <1>5, <1>6, <1>7, <1>8, <1>9, <1>10, <1>11

(* Walking along an order.                                                  *)
LEMMA SuffixWalk ==
  ASSUME NEW o \in Seq(Steps), NEW j \in 0 .. Len(o), NEW s, Suffix(s, o, j)
  PROVE  /\ s = << >> => j = Len(o)
         /\ s # << >> => /\ j < Len(o) /\ Head(s) = o[j + 1]
                        /\ Suffix(Tail(s), o, j + 1)
<1>1. s \in Seq(Steps) /\ Len(s) = Len(o) - j
  BY DEF Suffix
<1>2. \A k \in 1 .. Len(o) - j : s[k] = o[j + k]
  BY DEF Suffix
<1>3. s = << >> => j = Len(o)
  BY <1>1
<1>4. ASSUME s # << >>
      PROVE  /\ j < Len(o) /\ Head(s) = o[j + 1] /\ Suffix(Tail(s), o, j + 1)
  <2>1. Len(s) > 0 /\ j < Len(o)
    BY <1>1, <1>4
  <2>2. Head(s) = o[j + 1]
    BY <1>1, <1>2, <2>1
  <2>3. Tail(s) \in Seq(Steps) /\ Len(Tail(s)) = Len(s) - 1
        /\ \A k \in 1 .. Len(s) - 1 : Tail(s)[k] = s[k + 1]
    BY <1>1, <1>4
  <2>4. ASSUME NEW k \in 1 .. Len(o) - (j + 1) PROVE Tail(s)[k] = o[j + 1 + k]
    BY <1>1, <1>2, <2>3
  <2> QED BY <1>1, <2>1, <2>2, <2>3, <2>4 DEF Suffix
<1> QED BY <1>3, <1>4

(* The whole order is what is left before its first step.                   *)
LEMMA SuffixStart ==
  ASSUME NEW o \in Seq(Steps)
  PROVE  Suffix(o, o, 0)
  BY DEF Suffix

(* No order names a step twice, ...                                         *)
LEMMA ErrorOnce ==
  ASSUME NEW k \in 1 .. 7, NEW l \in 1 .. 7, ErrorExits[k] = ErrorExits[l]
  PROVE  k = l
  BY ErrorTable

(* The same for remove.                                                     *)
LEMMA RemoveOnce ==
  ASSUME NEW k \in 1 .. 12, NEW l \in 1 .. 12, RemoveOrder[k] = RemoveOrder[l]
  PROVE  k = l
  BY RemoveTable

(* ... so that one step of a way out gives back exactly what it names.      *)
LEMMA ErrorLess ==
  ASSUME NEW j \in 0 .. 6
  PROVE  Left(ErrorExits, j + 1) = Left(ErrorExits, j) \ {ErrorExits[j + 1]}
<1>1. Len(ErrorExits) = 7
  BY ErrorTable
<1> QED BY <1>1, ErrorOnce DEF Left

(* The same for remove.                                                     *)
LEMMA RemoveLess ==
  ASSUME NEW j \in 0 .. 11
  PROVE  Left(RemoveOrder, j + 1) = Left(RemoveOrder, j) \ {RemoveOrder[j + 1]}
<1>1. Len(RemoveOrder) = 12
  BY RemoveTable
<1> QED BY <1>1, RemoveOnce DEF Left

(* What is still held at each error label.                                  *)
LEMMA ErrorLeft ==
  /\ Left(ErrorExits, 0) = {"class", "cdev", "chrdev", "irq", "tx_fifo", "rx_fifo", "dev"}
  /\ Left(ErrorExits, 1) = {"cdev", "chrdev", "irq", "tx_fifo", "rx_fifo", "dev"}
  /\ Left(ErrorExits, 2) = {"chrdev", "irq", "tx_fifo", "rx_fifo", "dev"}
  /\ Left(ErrorExits, 3) = {"irq", "tx_fifo", "rx_fifo", "dev"}
  /\ Left(ErrorExits, 4) = {"tx_fifo", "rx_fifo", "dev"}
  /\ Left(ErrorExits, 5) = {"rx_fifo", "dev"}
  /\ Left(ErrorExits, 6) = {"dev"}
  /\ Left(ErrorExits, 7) = {}
<1>0. Left(ErrorExits, 0) = {"class", "cdev", "chrdev", "irq", "tx_fifo", "rx_fifo", "dev"}
  BY ErrorTable DEF Left
<1>1. Left(ErrorExits, 1) = {"cdev", "chrdev", "irq", "tx_fifo", "rx_fifo", "dev"}
  BY <1>0, ErrorTable, ErrorLess
<1>2. Left(ErrorExits, 2) = {"chrdev", "irq", "tx_fifo", "rx_fifo", "dev"}
  BY <1>1, ErrorTable, ErrorLess
<1>3. Left(ErrorExits, 3) = {"irq", "tx_fifo", "rx_fifo", "dev"}
  BY <1>2, ErrorTable, ErrorLess
<1>4. Left(ErrorExits, 4) = {"tx_fifo", "rx_fifo", "dev"}
  BY <1>3, ErrorTable, ErrorLess
<1>5. Left(ErrorExits, 5) = {"rx_fifo", "dev"}
  BY <1>4, ErrorTable, ErrorLess
<1>6. Left(ErrorExits, 6) = {"dev"}
  BY <1>5, ErrorTable, ErrorLess
<1>7. Left(ErrorExits, 7) = {}
  BY <1>6, ErrorTable, ErrorLess
<1> QED
  BY <1>0, <1>1, <1>2, <1>3, <1>4, <1>5, <1>6, <1>7

(* What is still held at each step of remove.                               *)
LEMMA RemoveLeft ==
  /\ Left(RemoveOrder, 0) = {"pm", "device", "class", "cdev", "chrdev", "irq", "rx_fifo", "tx_fifo", "dev"}
  /\ Left(RemoveOrder, 1) = {"pm", "device", "class", "cdev", "chrdev", "irq", "rx_fifo", "tx_fifo", "dev"}
  /\ Left(RemoveOrder, 2) = {"device", "class", "cdev", "chrdev", "irq", "rx_fifo", "tx_fifo", "dev"}
  /\ Left(RemoveOrder, 3) = {"device", "class", "cdev", "chrdev", "irq", "rx_fifo", "tx_fifo", "dev"}
  /\ Left(RemoveOrder, 4) = {"device", "class", "cdev", "chrdev", "irq", "rx_fifo", "tx_fifo", "dev"}
  /\ Left(RemoveOrder, 5) = {"class", "cdev", "chrdev", "irq", "rx_fifo", "tx_fifo", "dev"}
  /\ Left(RemoveOrder, 6) = {"cdev", "chrdev", "irq", "rx_fifo", "tx_fifo", "dev"}
  /\ Left(RemoveOrder, 7) = {"chrdev", "irq", "rx_fifo", "tx_fifo", "dev"}
  /\ Left(RemoveOrder, 8) = {"irq", "rx_fifo", "tx_fifo", "dev"}
  /\ Left(RemoveOrder, 9) = {"rx_fifo", "tx_fifo", "dev"}
  /\ Left(RemoveOrder, 10) = {"tx_fifo", "dev"}
  /\ Left(RemoveOrder, 11) = {"dev"}
  /\ Left(RemoveOrder, 12) = {}
<1>0. Left(RemoveOrder, 0) = {"pm", "device", "class", "cdev", "chrdev", "irq", "rx_fifo", "tx_fifo", "dev"}
  BY RemoveTable DEF Left
<1>1. Left(RemoveOrder, 1) = {"pm", "device", "class", "cdev", "chrdev", "irq", "rx_fifo", "tx_fifo", "dev"}
  BY <1>0, RemoveTable, RemoveLess
<1>2. Left(RemoveOrder, 2) = {"device", "class", "cdev", "chrdev", "irq", "rx_fifo", "tx_fifo", "dev"}
  BY <1>1, RemoveTable, RemoveLess
<1>3. Left(RemoveOrder, 3) = {"device", "class", "cdev", "chrdev", "irq", "rx_fifo", "tx_fifo", "dev"}
  BY <1>2, RemoveTable, RemoveLess
<1>4. Left(RemoveOrder, 4) = {"device", "class", "cdev", "chrdev", "irq", "rx_fifo", "tx_fifo", "dev"}
  BY <1>3, RemoveTable, RemoveLess
<1>5. Left(RemoveOrder, 5) = {"class", "cdev", "chrdev", "irq", "rx_fifo", "tx_fifo", "dev"}
  BY <1>4, RemoveTable, RemoveLess
<1>6. Left(RemoveOrder, 6) = {"cdev", "chrdev", "irq", "rx_fifo", "tx_fifo", "dev"}
  BY <1>5, RemoveTable, RemoveLess
<1>7. Left(RemoveOrder, 7) = {"chrdev", "irq", "rx_fifo", "tx_fifo", "dev"}
  BY <1>6, RemoveTable, RemoveLess
<1>8. Left(RemoveOrder, 8) = {"irq", "rx_fifo", "tx_fifo", "dev"}
  BY <1>7, RemoveTable, RemoveLess
<1>9. Left(RemoveOrder, 9) = {"rx_fifo", "tx_fifo", "dev"}
  BY <1>8, RemoveTable, RemoveLess
<1>10. Left(RemoveOrder, 10) = {"tx_fifo", "dev"}
  BY <1>9, RemoveTable, RemoveLess
<1>11. Left(RemoveOrder, 11) = {"dev"}
  BY <1>10, RemoveTable, RemoveLess
<1>12. Left(RemoveOrder, 12) = {}
  BY <1>11, RemoveTable, RemoveLess
<1> QED
  BY <1>0, <1>1, <1>2, <1>3, <1>4, <1>5, <1>6, <1>7, <1>8, <1>9, <1>10, <1>11, <1>12

(* Everything that a held resource needs is held too.                       *)
Closed(S) == \A r \in S : NeededBy(r) \subseteq S

(* What each resource rests on.                                             *)
LEMMA Needs ==
  /\ NeededBy("dev") = {} /\ NeededBy("pm") = {}
  /\ NeededBy("rx_fifo") = {"dev"} /\ NeededBy("tx_fifo") = {"dev"}
  /\ NeededBy("irq") = {"dev", "rx_fifo", "tx_fifo"}
  /\ NeededBy("chrdev") = {"dev", "rx_fifo", "tx_fifo"}
  /\ NeededBy("cdev") = {"chrdev", "irq"} /\ NeededBy("class") = {"cdev"}
  /\ NeededBy("device") = {"class", "cdev"}
  BY DEF NeededBy

(* The sets that occur on the way up and on the way down are closed.        *)
LEMMA ClosedSets ==
  /\ Closed({})
  /\ Closed({"dev"})
  /\ Closed({"dev", "rx_fifo"})
  /\ Closed({"dev", "rx_fifo", "tx_fifo"})
  /\ Closed({"dev", "rx_fifo", "tx_fifo", "irq"})
  /\ Closed({"dev", "rx_fifo", "tx_fifo", "irq", "chrdev"})
  /\ Closed({"dev", "rx_fifo", "tx_fifo", "irq", "chrdev", "cdev"})
  /\ Closed({"dev", "rx_fifo", "tx_fifo", "irq", "chrdev", "cdev", "class"})
  /\ Closed({"dev", "rx_fifo", "tx_fifo", "irq", "chrdev", "cdev", "class", "device"})
  /\ Closed({"dev", "rx_fifo", "tx_fifo", "irq", "chrdev", "cdev", "class", "device", "pm"})
  /\ Closed({"dev", "tx_fifo"})
<1>0. Closed({})
  BY Needs DEF Closed
<1>1. Closed({"dev"})
  BY Needs DEF Closed
<1>2. Closed({"dev", "rx_fifo"})
  BY Needs DEF Closed
<1>3. Closed({"dev", "rx_fifo", "tx_fifo"})
  BY Needs DEF Closed
<1>4. Closed({"dev", "rx_fifo", "tx_fifo", "irq"})
  BY Needs DEF Closed
<1>5. Closed({"dev", "rx_fifo", "tx_fifo", "irq", "chrdev"})
  BY Needs DEF Closed
<1>6. Closed({"dev", "rx_fifo", "tx_fifo", "irq", "chrdev", "cdev"})
  BY Needs DEF Closed
<1>7. Closed({"dev", "rx_fifo", "tx_fifo", "irq", "chrdev", "cdev", "class"})
  BY Needs DEF Closed
<1>8. Closed({"dev", "rx_fifo", "tx_fifo", "irq", "chrdev", "cdev", "class", "device"})
  BY Needs DEF Closed
<1>9. Closed({"dev", "rx_fifo", "tx_fifo", "irq", "chrdev", "cdev", "class", "device", "pm"})
  BY Needs DEF Closed
<1>10. Closed({"dev", "tx_fifo"})
  BY Needs DEF Closed
<1> QED
  BY <1>0, <1>1, <1>2, <1>3, <1>4, <1>5, <1>6, <1>7, <1>8, <1>9, <1>10

(* Probe never holds a resource without what it rests on, ...               *)
LEMMA GotClosed == ASSUME NEW i \in 0 .. 11 PROVE Closed(Got(i))
<1>1. i \in {0, 1, 2, 3, 4, 5, 6, 7, 8, 9, 10, 11}
  OBVIOUS
<1> QED BY <1>1, GotTable, ClosedSets

(* ... neither does its error path, ...                                     *)
LEMMA ErrorClosed == ASSUME NEW j \in 0 .. 7 PROVE Closed(Left(ErrorExits, j))
<1>1. j \in {0, 1, 2, 3, 4, 5, 6, 7}
  OBVIOUS
<1> QED BY <1>1, ErrorLeft, Needs DEF Closed

(* ... nor remove.                                                          *)
LEMMA RemoveClosed == ASSUME NEW j \in 0 .. 12 PROVE Closed(Left(RemoveOrder, j))
<1>1. j \in {0, 1, 2, 3, 4, 5, 6, 7, 8, 9, 10, 11, 12}
  OBVIOUS
<1> QED BY <1>1, RemoveLeft, Needs DEF Closed

(* The end of a sequence.                                                   *)
LEMMA EndCells ==
  ASSUME NEW S, NEW s \in Seq(S), NEW n \in Nat, n = Len(s), NEW m \in 1 .. n
  PROVE  /\ SubSeq(s, m, n) \in Seq(S) /\ Len(SubSeq(s, m, n)) = n + 1 - m
         /\ \A k \in 1 .. n + 1 - m : SubSeq(s, m, n)[k] = s[m + k - 1]
<1>1. \A i \in m .. n : s[i] \in S
  OBVIOUS
<1>2. /\ SubSeq(s, m, n) \in Seq(S)
      /\ Len(SubSeq(s, m, n)) = IF m <= n THEN n - m + 1 ELSE 0
      /\ \A i \in 1 .. n - m + 1 : SubSeq(s, m, n)[i] = s[m + i - 1]
  BY <1>1, SubSeqProperties
<1> QED BY <1>2

(* The label a failing step jumps to gives back what the steps before it    *)
(* have acquired.                                                           *)
LEMMA ExitsSuffix ==
  ASSUME NEW m \in 1 .. 7
  PROVE  Suffix(ExitsFrom(ErrorExits[m]), ErrorExits, m - 1)
<1>1. ErrorExits[m] # "none"
  BY ErrorTable
<1>2. DOMAIN ErrorExits = 1 .. 7
  BY ErrorTable
<1>3. (CHOOSE i \in DOMAIN ErrorExits : ErrorExits[i] = ErrorExits[m]) = m
  BY <1>2, ErrorOnce
<1>4. ExitsFrom(ErrorExits[m]) = SubSeq(ErrorExits, m, 7)
  BY <1>1, <1>3, ErrorTable DEF ExitsFrom
<1>5. ErrorExits \in Seq(Steps) /\ Len(ErrorExits) = 7
  BY ErrorTable
<1>6. /\ SubSeq(ErrorExits, m, 7) \in Seq(Steps) /\ Len(SubSeq(ErrorExits, m, 7)) = 8 - m
      /\ \A k \in 1 .. 8 - m : SubSeq(ErrorExits, m, 7)[k] = ErrorExits[m + k - 1]
  <2> DEFINE n == Len(ErrorExits)
  <2> HIDE DEF n
  <2>1. n = 7 /\ n \in Nat /\ n = Len(ErrorExits) /\ m \in 1 .. n
    BY <1>5 DEF n
  <2>2. /\ SubSeq(ErrorExits, m, n) \in Seq(Steps)
        /\ Len(SubSeq(ErrorExits, m, n)) = n + 1 - m
        /\ \A k \in 1 .. n + 1 - m : SubSeq(ErrorExits, m, n)[k] = ErrorExits[m + k - 1]
    <3>1. ErrorExits \in Seq(Steps)
      BY <1>5
    <3> QED BY <2>1, <3>1, EndCells, ZenonT(60)
  <2> QED BY <2>1, <2>2
<1>7. ASSUME NEW k \in 1 .. 7 - (m - 1)
      PROVE  SubSeq(ErrorExits, m, 7)[k] = ErrorExits[m - 1 + k]
  BY <1>6
<1> QED BY <1>4, <1>5, <1>6, <1>7, SMTT(60) DEF Suffix

(* A step of probe that fails jumps to the label that gives back just what  *)
(* the earlier steps got.                                                   *)
LEMMA ExitsMatch ==
  ASSUME NEW i \in 0 .. 10
  PROVE  \E j \in 0 .. 7 :
           /\ Suffix(ExitsFrom(ErrorLabel(ProbeOrder[i + 1])), ErrorExits, j)
           /\ Left(ErrorExits, j) = Got(i)
<1>l. /\ ErrorLabel("dev") = "none"
      /\ ErrorLabel("rx_fifo") = "dev"
      /\ ErrorLabel("tx_fifo") = "rx_fifo"
      /\ ErrorLabel("spi_setup") = "tx_fifo"
      /\ ErrorLabel("gpio_init") = "tx_fifo"
      /\ ErrorLabel("gpio_to_irq") = "tx_fifo"
      /\ ErrorLabel("irq") = "tx_fifo"
      /\ ErrorLabel("chrdev") = "irq"
      /\ ErrorLabel("cdev") = "chrdev"
      /\ ErrorLabel("class") = "cdev"
      /\ ErrorLabel("device") = "class"
  BY DEF ErrorLabel
<1>0. CASE i = 0
  <2>1. ErrorLabel(ProbeOrder[1]) = "none"
    BY <1>l, ProbeTable
  <2>2. ExitsFrom("none") = << >>
    BY DEF ExitsFrom
  <2>3. Suffix(<< >>, ErrorExits, 7)
    BY ErrorTable DEF Suffix
  <2>4. Left(ErrorExits, 7) = Got(0)
    BY ErrorLeft, GotTable
  <2> QED BY <1>0, <2>1, <2>2, <2>3, <2>4
<1>1. CASE i = 1
  <2>1. ErrorLabel(ProbeOrder[2]) = ErrorExits[7]
    BY <1>l, ProbeTable, ErrorTable
  <2>2. Suffix(ExitsFrom(ErrorExits[7]), ErrorExits, 6)
    BY ExitsSuffix
  <2>3. Left(ErrorExits, 6) = Got(1)
    BY ErrorLeft, GotTable
  <2> QED BY <1>1, <2>1, <2>2, <2>3
<1>2. CASE i = 2
  <2>1. ErrorLabel(ProbeOrder[3]) = ErrorExits[6]
    BY <1>l, ProbeTable, ErrorTable
  <2>2. Suffix(ExitsFrom(ErrorExits[6]), ErrorExits, 5)
    BY ExitsSuffix
  <2>3. Left(ErrorExits, 5) = Got(2)
    BY ErrorLeft, GotTable
  <2> QED BY <1>2, <2>1, <2>2, <2>3
<1>3. CASE i = 3
  <2>1. ErrorLabel(ProbeOrder[4]) = ErrorExits[5]
    BY <1>l, ProbeTable, ErrorTable
  <2>2. Suffix(ExitsFrom(ErrorExits[5]), ErrorExits, 4)
    BY ExitsSuffix
  <2>3. Left(ErrorExits, 4) = Got(3)
    BY ErrorLeft, GotTable
  <2> QED BY <1>3, <2>1, <2>2, <2>3
<1>4. CASE i = 4
  <2>1. ErrorLabel(ProbeOrder[5]) = ErrorExits[5]
    BY <1>l, ProbeTable, ErrorTable
  <2>2. Suffix(ExitsFrom(ErrorExits[5]), ErrorExits, 4)
    BY ExitsSuffix
  <2>3. Left(ErrorExits, 4) = Got(4)
    BY ErrorLeft, GotTable
  <2> QED BY <1>4, <2>1, <2>2, <2>3
<1>5. CASE i = 5
  <2>1. ErrorLabel(ProbeOrder[6]) = ErrorExits[5]
    BY <1>l, ProbeTable, ErrorTable
  <2>2. Suffix(ExitsFrom(ErrorExits[5]), ErrorExits, 4)
    BY ExitsSuffix
  <2>3. Left(ErrorExits, 4) = Got(5)
    BY ErrorLeft, GotTable
  <2> QED BY <1>5, <2>1, <2>2, <2>3
<1>6. CASE i = 6
  <2>1. ErrorLabel(ProbeOrder[7]) = ErrorExits[5]
    BY <1>l, ProbeTable, ErrorTable
  <2>2. Suffix(ExitsFrom(ErrorExits[5]), ErrorExits, 4)
    BY ExitsSuffix
  <2>3. Left(ErrorExits, 4) = Got(6)
    BY ErrorLeft, GotTable
  <2> QED BY <1>6, <2>1, <2>2, <2>3
<1>7. CASE i = 7
  <2>1. ErrorLabel(ProbeOrder[8]) = ErrorExits[4]
    BY <1>l, ProbeTable, ErrorTable
  <2>2. Suffix(ExitsFrom(ErrorExits[4]), ErrorExits, 3)
    BY ExitsSuffix
  <2>3. Left(ErrorExits, 3) = Got(7)
    BY ErrorLeft, GotTable
  <2> QED BY <1>7, <2>1, <2>2, <2>3
<1>8. CASE i = 8
  <2>1. ErrorLabel(ProbeOrder[9]) = ErrorExits[3]
    BY <1>l, ProbeTable, ErrorTable
  <2>2. Suffix(ExitsFrom(ErrorExits[3]), ErrorExits, 2)
    BY ExitsSuffix
  <2>3. Left(ErrorExits, 2) = Got(8)
    BY ErrorLeft, GotTable
  <2> QED BY <1>8, <2>1, <2>2, <2>3
<1>9. CASE i = 9
  <2>1. ErrorLabel(ProbeOrder[10]) = ErrorExits[2]
    BY <1>l, ProbeTable, ErrorTable
  <2>2. Suffix(ExitsFrom(ErrorExits[2]), ErrorExits, 1)
    BY ExitsSuffix
  <2>3. Left(ErrorExits, 1) = Got(9)
    BY ErrorLeft, GotTable
  <2> QED BY <1>9, <2>1, <2>2, <2>3
<1>10. CASE i = 10
  <2>1. ErrorLabel(ProbeOrder[11]) = ErrorExits[1]
    BY <1>l, ProbeTable, ErrorTable
  <2>2. Suffix(ExitsFrom(ErrorExits[1]), ErrorExits, 0)
    BY ExitsSuffix
  <2>3. Left(ErrorExits, 0) = Got(10)
    BY ErrorLeft, GotTable
  <2> QED BY <1>10, <2>1, <2>2, <2>3
<1> QED
  BY <1>0, <1>1, <1>2, <1>3, <1>4, <1>5, <1>6, <1>7, <1>8, <1>9, <1>10

(* Where probe and remove are, what they hold there, and why the work item  *)
(* cannot wait or run once its parts are about to go: the MCU is in reset   *)
(* from gpio_init to the end of probe, and from the first step of remove.   *)
LcTyped ==
  /\ lc_at \in {"unbound", "probe", "release", "unwind", "bound", "remove"}
  /\ lc_running \in BOOLEAN /\ lc_work \in {"idle", "pending", "running"}

InProbe(i) ==
  /\ Suffix(lc_step, ProbeOrder, i) /\ lc_held = Got(i) /\ lc_work = "idle"
  /\ i >= 5 => ~lc_running

InUnwind(j) ==
  /\ Suffix(lc_step, ErrorExits, j) /\ lc_held = Left(ErrorExits, j) /\ lc_work = "idle"
  /\ "irq" \in lc_held => ~lc_running

InRemove(j) ==
  /\ Suffix(lc_step, RemoveOrder, j) /\ lc_held = Left(RemoveOrder, j)
  /\ j >= 1 => ~lc_running
  /\ j >= 3 => lc_work = "idle"

LcInv ==
  /\ LcTyped
  /\ lc_at = "unbound" => lc_held = {} /\ lc_work = "idle"
  /\ lc_at = "probe" => \E i \in 0 .. 11 : InProbe(i)
  /\ lc_at = "unwind" => \E j \in 0 .. 7 : InUnwind(j)
  /\ lc_at = "release" => lc_held = Got(11)
  /\ lc_at = "bound" => lc_held = Left(RemoveOrder, 0)
  /\ lc_at = "remove" => \E j \in 0 .. 12 : InRemove(j)

(* The driver starts in LcInv ...                                           *)
LEMMA LcStart == LcInit => LcInv
  BY DEF LcInit, LcInv, LcTyped

(* ... and every step of probe, of its error path and of remove keeps it.   *)
LEMMA LcStep == LcInv /\ [LcNext]_lcVars => LcInv'
<1> SUFFICES ASSUME LcInv, [LcNext]_lcVars PROVE LcInv'
  OBVIOUS
<1>t. LcTyped
  BY DEF LcInv
<1>1. CASE ProbeBegins
  <2>1. Suffix(ProbeOrder, ProbeOrder, 0)
    BY SuffixStart, ProbeTable
  <2>2. InProbe(0)'
    BY <1>1, <2>1, GotTable DEF ProbeBegins, InProbe, LcInv, Suffix, Got, Holds
  <2>3. LcTyped' /\ lc_at' = "probe"
    BY <1>1, <1>t DEF ProbeBegins, LcTyped
  <2> QED BY <2>2, <2>3 DEF LcInv
<1>2. CASE ProbeStep
  <2>1. PICK i \in 0 .. 11 : InProbe(i)
    BY <1>2 DEF ProbeStep, LcInv
  <2>2. /\ i < 11 /\ Head(lc_step) = ProbeOrder[i + 1]
        /\ Suffix(Tail(lc_step), ProbeOrder, i + 1)
    BY <1>2, <2>1, SuffixWalk, ProbeTable DEF ProbeStep, InProbe
  <2>3. i + 1 \in 0 .. 11 /\ i \in 0 .. 10
    BY <2>2
  <2>4. lc_held' = Got(i + 1)
    BY <1>2, <2>1, <2>2, <2>3, GotMore DEF ProbeStep, InProbe
  <2>5. lc_running' = (lc_running /\ ~InReset(Head(lc_step))) /\ UNCHANGED <<lc_at, lc_work>>
        /\ lc_step' = Tail(lc_step) /\ lc_at = "probe"
    BY <1>2 DEF ProbeStep
  <2>6. i + 1 >= 5 => ~lc_running'
    <3>1. CASE i = 4
      <4>1. Head(lc_step) = "gpio_init"
        BY <2>2, <3>1, ProbeTable
      <4> QED BY <2>5, <4>1 DEF InReset
    <3>2. CASE i >= 5
      BY <2>1, <2>5, <3>2 DEF InProbe
    <3> QED BY <2>3, <3>1, <3>2
  <2>7. InProbe(i + 1)'
    BY <2>1, <2>2, <2>4, <2>5, <2>6 DEF InProbe, Suffix, Got, Holds
  <2>8. LcTyped'
    BY <1>t, <2>5 DEF LcTyped
  <2> QED BY <2>3, <2>5, <2>7, <2>8 DEF LcInv
<1>3. CASE ProbeFails
  <2>1. PICK i \in 0 .. 11 : InProbe(i)
    BY <1>3 DEF ProbeFails, LcInv
  <2>2. i < 11 /\ Head(lc_step) = ProbeOrder[i + 1]
    BY <1>3, <2>1, SuffixWalk, ProbeTable DEF ProbeFails, InProbe
  <2>3. PICK j \in 0 .. 7 : /\ Suffix(ExitsFrom(ErrorLabel(ProbeOrder[i + 1])), ErrorExits, j)
                            /\ Left(ErrorExits, j) = Got(i)
    BY <2>2, ExitsMatch
  <2>4. lc_step' = ExitsFrom(ErrorLabel(ProbeOrder[i + 1])) /\ lc_at' = "unwind"
        /\ UNCHANGED <<lc_held, lc_running, lc_work>>
    BY <1>3, <2>2 DEF ProbeFails
  <2>5. "irq" \in Got(i) => i >= 5
    <3>1. CASE i \in {0, 1, 2, 3, 4}
      BY <3>1, GotTable
    <3> QED BY <3>1
  <2>6. InUnwind(j)'
    BY <2>1, <2>3, <2>4, <2>5 DEF InUnwind, InProbe, Suffix, Left
  <2>7. LcTyped'
    BY <1>t, <2>4 DEF LcTyped
  <2> QED BY <2>4, <2>6, <2>7 DEF LcInv
<1>4. CASE apex_mcu_reset_release
  <2>1. PICK i \in 0 .. 11 : InProbe(i)
    BY <1>4 DEF apex_mcu_reset_release, LcInv
  <2>2. i = 11
    BY <1>4, <2>1, SuffixWalk, ProbeTable DEF apex_mcu_reset_release, InProbe
  <2>3. lc_at' = "release" /\ lc_running' = TRUE /\ UNCHANGED <<lc_step, lc_held, lc_work>>
    BY <1>4 DEF apex_mcu_reset_release
  <2>4. lc_held' = Got(11)
    BY <2>1, <2>2, <2>3 DEF InProbe
  <2>5. LcTyped'
    BY <1>t, <2>3 DEF LcTyped
  <2> QED BY <2>3, <2>4, <2>5 DEF LcInv, Got, Holds
<1>5. CASE ProbeEnds
  <2>1. lc_held' = Got(11) \cup {"pm"}
    BY <1>5 DEF ProbeEnds, LcInv
  <2>2. Got(11) \cup {"pm"} = Left(RemoveOrder, 0)
    BY GotTable, RemoveLeft
  <2>3. LcTyped' /\ lc_at' = "bound"
    BY <1>5, <1>t DEF ProbeEnds, LcTyped
  <2> QED BY <2>1, <2>2, <2>3 DEF LcInv, Left
<1>6. CASE RemoveBegins
  <2>1. Suffix(RemoveOrder, RemoveOrder, 0)
    BY SuffixStart, RemoveTable
  <2>2. lc_held' = Left(RemoveOrder, 0) /\ lc_step' = RemoveOrder
    BY <1>6 DEF RemoveBegins, LcInv
  <2>3. InRemove(0)'
    BY <2>1, <2>2 DEF InRemove, Suffix, Left
  <2>4. LcTyped' /\ lc_at' = "remove"
    BY <1>6, <1>t DEF RemoveBegins, LcTyped
  <2> QED BY <2>3, <2>4 DEF LcInv
<1>7. CASE ExitStep
  <2>0. /\ lc_step # << >> /\ lc_step' = Tail(lc_step) /\ UNCHANGED lc_at
        /\ lc_held' = lc_held \ {Head(lc_step)}
        /\ lc_running' = (lc_running /\ ~InReset(Head(lc_step)))
        /\ lc_work' = IF Head(lc_step) = "cancel_work" THEN "idle" ELSE lc_work
    BY <1>7 DEF ExitStep
  <2>t. LcTyped'
    BY <1>t, <2>0 DEF LcTyped
  <2>1. CASE lc_at = "unwind"
    <3>1. PICK j \in 0 .. 7 : InUnwind(j)
      BY <2>1 DEF LcInv
    <3>2. /\ j < 7 /\ Head(lc_step) = ErrorExits[j + 1]
          /\ Suffix(Tail(lc_step), ErrorExits, j + 1)
      BY <2>0, <3>1, SuffixWalk, ErrorTable DEF InUnwind
    <3>3. j + 1 \in 0 .. 7 /\ lc_held' = Left(ErrorExits, j + 1)
      BY <2>0, <3>1, <3>2, ErrorLess DEF InUnwind
    <3>4. lc_work' = "idle"
      BY <2>0, <3>1 DEF InUnwind
    <3>5. "irq" \in lc_held' => ~lc_running'
      BY <2>0, <3>1 DEF InUnwind
    <3>6. InUnwind(j + 1)'
      BY <2>0, <3>2, <3>3, <3>4, <3>5 DEF InUnwind, Suffix, Left
    <3> QED BY <2>0, <2>1, <2>t, <3>3, <3>6 DEF LcInv
  <2>2. CASE lc_at = "remove"
    <3>1. PICK j \in 0 .. 12 : InRemove(j)
      BY <2>2 DEF LcInv
    <3>2. /\ j < 12 /\ Head(lc_step) = RemoveOrder[j + 1]
          /\ Suffix(Tail(lc_step), RemoveOrder, j + 1)
      BY <2>0, <3>1, SuffixWalk, RemoveTable DEF InRemove
    <3>3. j + 1 \in 0 .. 12 /\ lc_held' = Left(RemoveOrder, j + 1)
      BY <2>0, <3>1, <3>2, RemoveLess DEF InRemove
    <3>4. ~lc_running'
      <4>1. CASE j = 0
        <5>1. Head(lc_step) = "reset"
          BY <3>2, <4>1, RemoveTable
        <5> QED BY <2>0, <5>1 DEF InReset
      <4>2. CASE j >= 1
        BY <2>0, <3>1, <4>2 DEF InRemove
      <4> QED BY <4>1, <4>2
    <3>5. j + 1 >= 3 => lc_work' = "idle"
      <4>1. CASE j = 2
        BY <2>0, <3>2, <4>1, RemoveTable
      <4>2. CASE j >= 3
        BY <2>0, <3>1, <4>2 DEF InRemove
      <4> QED BY <4>1, <4>2
    <3>6. InRemove(j + 1)'
      BY <2>0, <3>2, <3>3, <3>4, <3>5 DEF InRemove, Suffix, Left
    <3> QED BY <2>0, <2>2, <2>t, <3>3, <3>6 DEF LcInv
  <2> QED BY <1>7, <2>1, <2>2 DEF ExitStep
<1>8. CASE Unbound
  <2>0. lc_step = << >> /\ lc_at' = "unbound" /\ UNCHANGED <<lc_step, lc_held, lc_running, lc_work>>
    BY <1>8 DEF Unbound
  <2>3. lc_held' = {} /\ lc_work' = "idle"
    <3>1. CASE lc_at = "unwind"
      <4>1. PICK j \in 0 .. 7 : InUnwind(j)
        BY <3>1 DEF LcInv
      <4>2. j = 7
        BY <2>0, <4>1, SuffixWalk, ErrorTable DEF InUnwind
      <4> QED BY <2>0, <4>1, <4>2, ErrorLeft DEF InUnwind
    <3>2. CASE lc_at = "remove"
      <4>1. PICK j \in 0 .. 12 : InRemove(j)
        BY <3>2 DEF LcInv
      <4>2. j = 12
        BY <2>0, <4>1, SuffixWalk, RemoveTable DEF InRemove
      <4> QED BY <2>0, <4>1, <4>2, RemoveLeft DEF InRemove
    <3> QED BY <1>8, <3>1, <3>2 DEF Unbound
  <2>4. LcTyped'
    BY <1>t, <2>0 DEF LcTyped
  <2> QED BY <2>0, <2>3, <2>4 DEF LcInv
<1>9. CASE apex_irq_handler \/ WorkStarts \/ WorkEnds
  <2>0. UNCHANGED <<lc_at, lc_step, lc_held, lc_running>> /\ LcTyped'
    BY <1>9, <1>t DEF apex_irq_handler, WorkStarts, WorkEnds, LcTyped
  <2>1. (lc_work # "idle" \/ ("irq" \in lc_held /\ lc_running))
    BY <1>9 DEF apex_irq_handler, WorkStarts, WorkEnds
  <2>2. lc_at # "unbound"
    BY <2>1 DEF LcInv
  <2>3. lc_at # "probe"
    <3>1. SUFFICES ASSUME lc_at = "probe" PROVE FALSE
      OBVIOUS
    <3>2. PICK i \in 0 .. 11 : InProbe(i)
      BY <3>1 DEF LcInv
    <3>3. i < 5 /\ "irq" \in Got(i)
      BY <2>1, <3>2 DEF InProbe
    <3>4. i \in {0, 1, 2, 3, 4}
      BY <3>3
    <3> QED BY <3>3, <3>4, GotTable
  <2>4. lc_at # "unwind"
    BY <2>1 DEF LcInv, InUnwind
  <2>5. lc_at = "remove" => \E j \in 0 .. 12 : InRemove(j)'
    <3>1. SUFFICES ASSUME lc_at = "remove" PROVE \E j \in 0 .. 12 : InRemove(j)'
      OBVIOUS
    <3>2. PICK j \in 0 .. 12 : InRemove(j)
      BY <3>1 DEF LcInv
    <3>3. j < 3
      BY <2>1, <3>2 DEF InRemove
    <3> QED BY <2>0, <3>2, <3>3 DEF InRemove, Suffix, Left
  <2> QED BY <2>0, <2>2, <2>3, <2>4, <2>5 DEF LcInv, Got, Holds, Left
<1>10. CASE UNCHANGED lcVars
  <2>1. UNCHANGED <<lc_at, lc_step, lc_held, lc_running, lc_work>>
    BY <1>10 DEF lcVars
  <2> QED BY <2>1 DEF LcInv, LcTyped, InProbe, InUnwind, InRemove, Suffix, Got, Left, Holds
<1> QED BY <1>1, <1>2, <1>3, <1>4, <1>5, <1>6, <1>7, <1>8, <1>9, <1>10 DEF LcNext

(* The invariant implies that resources are nested.                         *)
LEMMA LcNested == LcInv => ResourcesNested
<1> SUFFICES ASSUME LcInv PROVE ResourcesNested
  OBVIOUS
<1>1. Closed(Got(11))
  BY GotClosed
<1>2. Closed(lc_held)
  <2>1. CASE lc_at = "unbound"
    BY <2>1 DEF LcInv, Closed
  <2>2. CASE lc_at = "probe"
    BY <2>2, GotClosed DEF LcInv, InProbe
  <2>3. CASE lc_at = "unwind"
    BY <2>3, ErrorClosed DEF LcInv, InUnwind
  <2>4. CASE lc_at = "release"
    BY <2>4, <1>1 DEF LcInv
  <2>5. CASE lc_at = "bound"
    BY <2>5, RemoveClosed DEF LcInv
  <2>6. CASE lc_at = "remove"
    BY <2>6, RemoveClosed DEF LcInv, InRemove
  <2> QED BY <2>1, <2>2, <2>3, <2>4, <2>5, <2>6 DEF LcInv, LcTyped
<1>3. lc_work # "idle" => {"dev", "rx_fifo"} \subseteq lc_held
  <2>1. SUFFICES ASSUME lc_work # "idle" PROVE {"dev", "rx_fifo"} \subseteq lc_held
    OBVIOUS
  <2>2. lc_at \in {"release", "bound", "remove"}
    BY <2>1 DEF LcInv, LcTyped, InProbe, InUnwind
  <2>3. CASE lc_at = "release"
    BY <2>3, GotTable DEF LcInv
  <2>4. CASE lc_at = "bound"
    BY <2>4, RemoveLeft DEF LcInv
  <2>5. CASE lc_at = "remove"
    <3>1. PICK j \in 0 .. 12 : InRemove(j)
      BY <2>5 DEF LcInv
    <3>2. j \in {0, 1, 2}
      BY <2>1, <3>1 DEF InRemove
    <3> QED BY <3>1, <3>2, RemoveLeft DEF InRemove
  <2> QED BY <2>2, <2>3, <2>4, <2>5
<1> QED BY <1>2, <1>3 DEF ResourcesNested, Closed, LcInv

(* Nothing is registered whose parts are gone, the work item never waits or  *)
(* runs on a device whose queue is freed, and an unbound driver holds        *)
(* nothing: apex_bridge_probe with all its error exits, apex_bridge_remove,  *)
(* and the interrupt at any moment.                                         *)
THEOREM TeardownIsNested == LcSpec => []ResourcesNested
<1>1. LcSpec => []LcInv
  BY LcStart, LcStep, PTL DEF LcSpec
<1> QED BY <1>1, LcNested, PTL

-----------------------------------------------------------------------------
(* The path of a command.                                                   *)
Asks == [call : STRING, a : Int, b : Int]

(* What library and driver let pass; a register address is a byte.          *)
Passed(r) ==
  /\ r \in Asks /\ LibAccepts(r) /\ DriverAccepts(LibFrame(r))
  /\ r.call \in {"write", "read"} => r.a >= 0

(* A frame on the way, and the request it was made from.                    *)
Items == {[frame |-> LibFrame(PyRequest(r)), ask |-> r] :
            r \in {q \in Asks : Passed(PyRequest(q))}}

HcInv == hc_frames \in Seq(Items) /\ DoesWhatWasAsked

(* The registers in the frame of a request, written or meant to be read.    *)
Covered(r) ==
  CASE r.call \in {"write", "read"} -> r.a .. r.a + r.b - 1
    [] r.call = "channel"           -> {10}
    [] r.call = "power"             -> {34}
    [] OTHER                        -> {}

(* An effect is what the request that the library saw is about.             *)
Asked(kind, val, r) ==
  /\ kind = "regs" => /\ val = Covered(r)
                      /\ r.call \in {"write", "read", "channel", "power"}
                      /\ val \subseteq Registers \/ val \subseteq Strobes
  /\ kind = "antenna" => r.call = "antenna" /\ val = {r.a}
  /\ kind = "stream" => r.call = "stream" /\ val = {r.a}
  /\ kind = "nfc" => r.call \in {"nfc", "field", "poll"}

(* The firmware's check of a burst: it lies in one of the two ranges.       *)
LEMMA BurstInRange ==
  ASSUME NEW f, NEW x \in Nat, NEW y \in 1 .. 64, f.x = x, f.y = y,
         handle_cmd_cc1101_cfg(f).kind = "regs"
  PROVE  /\ handle_cmd_cc1101_cfg(f).val = x .. x + y - 1
         /\ x .. x + y - 1 \subseteq Registers \/ x .. x + y - 1 \subseteq Strobes
<1> DEFINE bad == \/ f.x > 61 \/ f.x = 47
                  \/ f.x <= 46 /\ f.x + f.y > 47
                  \/ f.x >= 48 /\ f.x + f.y > 62
<1>1. handle_cmd_cc1101_cfg(f) = IF bad THEN Nothing ELSE Effect("regs", f.x .. f.x + f.y - 1)
  BY DEF handle_cmd_cc1101_cfg
<1> HIDE DEF bad
<1>2. ~bad
  <2>1. SUFFICES ASSUME bad PROVE FALSE
    OBVIOUS
  <2>2. handle_cmd_cc1101_cfg(f) = Nothing
    BY <1>1, <2>1
  <2> QED BY <2>2 DEF Nothing, Effect
<1>3. handle_cmd_cc1101_cfg(f) = Effect("regs", x .. x + y - 1)
  BY <1>1, <1>2
<1>4. handle_cmd_cc1101_cfg(f).val = x .. x + y - 1
  BY <1>3 DEF Effect
<1>5. (x <= 46 /\ x + y <= 47) \/ (x >= 48 /\ x + y <= 62)
  BY <1>2 DEF bad
<1>6. CASE x <= 46 /\ x + y <= 47
  BY <1>4, <1>6 DEF Registers
<1>7. CASE x >= 48 /\ x + y <= 62
  BY <1>4, <1>7 DEF Strobes
<1> QED BY <1>5, <1>6, <1>7

(* Every handler, applied to the frame of a request that got through, does   *)
(* what the request asked for, or nothing.                                  *)
LEMMA EffectAsked ==
  ASSUME NEW r, Passed(r)
  PROVE  Asked(HandlerEffect(LibFrame(r)).kind, HandlerEffect(LibFrame(r)).val, r)
<1> DEFINE f == LibFrame(r)
           e == HandlerEffect(f)
<1>0. r \in Asks /\ LibAccepts(r) /\ DriverAccepts(f)
  BY DEF Passed
<1>n. Nothing.kind = "none"
  BY DEF Nothing, Effect
<1>1. CASE r.call = "tune"
  <2>1. f = [cmd |-> "SDR_TUNE", x |-> r.a, y |-> 8]
    BY <1>1, SMT DEF LibFrame
  <2>2. e = Nothing
    BY <2>1, SMT DEF HandlerEffect
  <2> QED BY <1>n, <2>2 DEF Asked
<1>2. CASE r.call = "stream"
  <2>1. f = [cmd |-> "SDR_STREAM", x |-> r.a, y |-> 1]
    BY <1>2, SMT DEF LibFrame
  <2>2. e = Nothing \/ e = Effect("stream", {r.a})
    BY <2>1, SMT DEF HandlerEffect, handle_cmd_sdr_stream
  <2>3. e.kind = "none" \/ (e.kind = "stream" /\ e.val = {r.a})
    BY <2>2 DEF Nothing, Effect
  <2> QED BY <1>2, <2>3 DEF Asked
<1>3. CASE r.call = "antenna"
  <2>1. f = [cmd |-> "ANT_SELECT", x |-> r.a, y |-> 1]
    BY <1>3, SMT DEF LibFrame
  <2>2. e = Nothing \/ e = Effect("antenna", {r.a})
    BY <2>1, SMT DEF HandlerEffect, handle_cmd_ant_select
  <2>3. e.kind = "none" \/ (e.kind = "antenna" /\ e.val = {r.a})
    BY <2>2 DEF Nothing, Effect
  <2> QED BY <1>3, <2>3 DEF Asked
<1>4. CASE r.call \in {"write", "read", "channel", "power"}
  <2> DEFINE x == f.x
             y == f.y
  <2>1. f = [cmd |-> "CC1101_CFG", x |-> x, y |-> y] /\ Covered(r) = x .. x + y - 1
        /\ x \in Nat
    <3>1. CASE r.call \in {"write", "read"}
      <4>1. f = [cmd |-> "CC1101_CFG", x |-> r.a, y |-> r.b]
        BY <3>1, SMT DEF LibFrame
      <4>2. Covered(r) = r.a .. r.a + r.b - 1
        BY <3>1 DEF Covered
      <4>3. r.a \in Nat
        BY <3>1 DEF Passed, Asks
      <4> QED BY <4>1, <4>2, <4>3
    <3>2. CASE r.call = "channel"
      <4>1. f = [cmd |-> "CC1101_CFG", x |-> 10, y |-> 1]
        BY <3>2, SMT DEF LibFrame
      <4>2. Covered(r) = {10}
        BY <3>2 DEF Covered
      <4>3. {10} = 10 .. 10 + 1 - 1
        OBVIOUS
      <4> QED BY <4>1, <4>2, <4>3
    <3>3. CASE r.call = "power"
      <4>1. f = [cmd |-> "CC1101_CFG", x |-> 34, y |-> 1]
        BY <3>3, SMT DEF LibFrame
      <4>2. Covered(r) = {34}
        BY <3>3 DEF Covered
      <4>3. {34} = 34 .. 34 + 1 - 1
        OBVIOUS
      <4> QED BY <4>1, <4>2, <4>3
    <3> QED BY <1>4, <3>1, <3>2, <3>3
  <2>2. f.cmd = "CC1101_CFG"
    BY <2>1
  <2>3. y \in 1 .. 64
    BY <1>0, <2>2 DEF DriverAccepts, IoctlSdr, IoctlAntenna, IoctlCc1101, IoctlNfc
  <2>4. e = handle_cmd_cc1101_cfg(f)
    BY <2>2 DEF HandlerEffect
  <2>5. e.kind \in {"none", "regs"}
    BY <2>4 DEF handle_cmd_cc1101_cfg, Nothing, Effect
  <2>8. f.x = x /\ f.y = y
    OBVIOUS
  <2> HIDE DEF x, y, f, e
  <2>6. ASSUME e.kind = "regs"
        PROVE  /\ e.val = x .. x + y - 1
               /\ x .. x + y - 1 \subseteq Registers \/ x .. x + y - 1 \subseteq Strobes
    <3>1. x \in Nat /\ handle_cmd_cc1101_cfg(f).kind = "regs"
      BY <2>1, <2>4, <2>6
    <3>2. /\ handle_cmd_cc1101_cfg(f).val = x .. x + y - 1
          /\ x .. x + y - 1 \subseteq Registers \/ x .. x + y - 1 \subseteq Strobes
      BY <2>3, <2>8, <3>1, BurstInRange, ZenonT(60)
    <3> QED BY <2>4, <3>2
  <2>7. Asked(e.kind, e.val, r)
    <3>1. CASE e.kind = "none"
      BY <3>1 DEF Asked
    <3>2. CASE e.kind = "regs"
      <4>1. e.val = Covered(r)
        BY <2>1, <2>6, <3>2
      <4>2. e.val \subseteq Registers \/ e.val \subseteq Strobes
        BY <2>6, <3>2
      <4> QED BY <1>4, <3>2, <4>1, <4>2 DEF Asked
    <3> QED BY <2>5, <3>1, <3>2
  <2> QED BY <2>7 DEF e, f
<1>5. CASE r.call = "band"
  <2>1. f = [cmd |-> "CC1101_CFG", x |-> 255, y |-> r.a]
    BY <1>5, SMT DEF LibFrame
  <2>2. e = Nothing
    BY <2>1, SMT DEF HandlerEffect, handle_cmd_cc1101_cfg
  <2> QED BY <1>n, <2>2 DEF Asked
<1>6. CASE r.call \in {"nfc", "field", "poll"}
  <2>1. f.cmd = "NFC_TRANSACT"
    BY <1>6, SMT DEF LibFrame
  <2>2. e = handle_cmd_nfc_transact(f)
    BY <2>1, SMT DEF HandlerEffect
  <2>3. e.kind \in {"none", "nfc"}
    BY <2>2 DEF handle_cmd_nfc_transact, Nothing, Effect
  <2> QED BY <1>6, <2>3 DEF Asked
<1>7. r.call \in {"tune", "stream", "antenna", "write", "read", "channel", "power", "band",
                 "nfc", "field", "poll"}
  <2>1. LibSdr(r) => r.call = "stream" \/ r.call = "tune"
    BY PTL DEF LibSdr
  <2>2. LibAntenna(r) => r.call = "antenna"
    BY DEF LibAntenna
  <2>3. LibWrite(r) => r.call = "write"
    BY DEF LibWrite
  <2>4. LibRead(r) => r.call = "read"
    BY DEF LibRead
  <2>5. LibBand(r) => r.call = "band"
    BY DEF LibBand
  <2>6. LibNfc(r) => r.call \in {"nfc", "field", "poll"}
    BY SMT DEF LibNfc
  <2> QED BY <1>0, <2>1, <2>2, <2>3, <2>4, <2>5, <2>6 DEF LibAccepts
<1> QED BY <1>1, <1>2, <1>3, <1>4, <1>5, <1>6, <1>7

(* What the Python binding makes of a request, and what a C caller can ask.  *)
LEMMA PyKeeps ==
  ASSUME NEW r \in Asks
  PROVE  /\ PyRequest(r) \in Asks
         /\ PyRequest(r).call \in {"write", "read"} => PyRequest(r).a >= 0
<1>0. r.a \in Int /\ r.b \in Int /\ r.call \in STRING
  BY DEF Asks
<1>1. PyByte(r.a) \in Nat /\ PyByte(r.b) \in Nat /\ PyInt8(r.a) \in Int
  BY <1>0 DEF PyByte, PyInt8
<1>2. CASE r.call \in {"write", "channel"}
  <2>1. PyRequest(r) = [r EXCEPT !.a = PyByte(r.a)]
    BY <1>2 DEF PyRequest, PyRadio
  <2> QED BY <1>0, <1>1, <2>1 DEF Asks
<1>3. CASE r.call = "power"
  <2>1. PyRequest(r) = [r EXCEPT !.a = PyInt8(r.a)]
    BY <1>3 DEF PyRequest, PyRadio
  <2>2. PyRequest(r) \in Asks
    BY <1>0, <1>1, <2>1 DEF Asks
  <2>3. PyRequest(r).call = "power"
    BY <1>3, <2>1 DEF Asks
  <2> QED BY <2>2, <2>3
<1>4. CASE r.call = "read"
  <2>1. PyRequest(r) = [r EXCEPT !.a = PyByte(r.a), !.b = PyByte(r.b)]
    BY <1>4 DEF PyRequest, PyRead
  <2>2. PyRequest(r) = [call |-> r.call, a |-> PyByte(r.a), b |-> PyByte(r.b)]
    BY <2>1 DEF Asks
  <2> QED BY <1>0, <1>1, <2>2 DEF Asks
<1>5. CASE r.call \notin {"write", "channel", "power", "read"}
  <2>1. PyRequest(r) = r
    BY <1>5 DEF PyRequest
  <2> QED BY <1>5, <2>1
<1> QED BY <1>2, <1>3, <1>4, <1>5

(* The binding changes arguments only, and those of the radio calls only.    *)
LEMMA PyShape ==
  ASSUME NEW r \in Asks
  PROVE  /\ PyRequest(r).call = r.call
         /\ r.call \notin {"write", "channel", "power", "read"} => PyRequest(r) = r
<1>1. CASE r.call \in {"write", "channel"}
  BY <1>1 DEF PyRequest, PyRadio, Asks
<1>2. CASE r.call = "power"
  BY <1>2 DEF PyRequest, PyRadio, Asks
<1>3. CASE r.call = "read"
  <2>1. PyRequest(r) = [r EXCEPT !.a = PyByte(r.a), !.b = PyByte(r.b)]
    BY <1>3 DEF PyRequest, PyRead
  <2>2. PyRequest(r) = [call |-> r.call, a |-> PyByte(r.a), b |-> PyByte(r.b)]
    BY <2>1 DEF Asks
  <2> QED BY <1>3, <2>2
<1>4. CASE r.call \notin {"write", "channel", "power", "read"}
  BY <1>4 DEF PyRequest
<1> QED BY <1>1, <1>2, <1>3, <1>4

(* What the library's request is about, and what the program asked for.     *)
LEMMA AskedByProgram ==
  ASSUME NEW r \in Asks, NEW kind, NEW val, Asked(kind, val, PyRequest(r)),
         hc_effect'.kind = kind, hc_effect'.val = val, hc_effect'.ask = r
  PROVE  DoesWhatWasAsked'
<1>1. ASSUME kind = "regs"
      PROVE  /\ r.call \in {"write", "read", "channel", "power"}
             /\ r.call # "read" /\ r = PyRequest(r) => val = AskedRegs(r)
             /\ val \subseteq Registers \/ val \subseteq Strobes
  <2>1. /\ r.call \in {"write", "read", "channel", "power"}
        /\ val \subseteq Registers \/ val \subseteq Strobes
    BY <1>1, PyShape DEF Asked
  <2>2. ASSUME r.call # "read", r = PyRequest(r) PROVE val = AskedRegs(r)
    <3>1. val = Covered(r)
      BY <1>1, <2>2 DEF Asked
    <3>2. CASE r.call = "write"
      BY <3>1, <3>2 DEF Covered, AskedRegs
    <3>3. CASE r.call = "channel"
      BY <3>1, <3>3 DEF Covered, AskedRegs
    <3>4. CASE r.call = "power"
      BY <3>1, <3>4 DEF Covered, AskedRegs
    <3> QED BY <2>1, <2>2, <3>2, <3>3, <3>4
  <2> QED BY <2>1, <2>2
<1>2. /\ kind = "antenna" => r.call = "antenna" /\ val = {r.a}
      /\ kind = "stream" => r.call = "stream" /\ val = {r.a}
      /\ kind = "nfc" => r.call \in {"nfc", "field", "poll"}
  BY PyShape DEF Asked
<1> QED BY <1>1, <1>2 DEF DoesWhatWasAsked, PyRequest, PyRadio, PyRead, AskedRegs

(* A call puts at most the frame of its own request on the link.            *)
LEMMA CallSends ==
  ASSUME HcInv, NEW ask \in Asks, NEW r, r = PyRequest(ask), r \in Asks,
         r.call \in {"write", "read"} => r.a >= 0, Call(r, ask)
  PROVE  HcInv'
<1>1. UNCHANGED hc_effect
  BY DEF Call, CallRefused, CallRejected, CallFails, CallSent
<1>2. DoesWhatWasAsked'
  BY <1>1 DEF HcInv, DoesWhatWasAsked
<1>3. CASE hc_frames' = hc_frames
  BY <1>2, <1>3 DEF HcInv
<1>4. CASE Accepted(r) /\ Sent(r, ask)
  <2>1. Passed(r)
    BY <1>4 DEF Accepted, Passed
  <2>2. [frame |-> LibFrame(r), ask |-> ask] \in Items
    BY <2>1 DEF Items
  <2> HIDE DEF Items
  <2>3. CASE hc_frames' = Append(hc_frames, [frame |-> LibFrame(r), ask |-> ask])
    <3>1. hc_frames' \in Seq(Items)
      BY <2>2, <2>3 DEF HcInv
    <3> QED BY <1>2, <3>1 DEF HcInv
  <2> QED BY <1>3, <1>4, <2>3 DEF Sent
<1> QED BY <1>3, <1>4 DEF Call, CallRefused, CallRejected, CallFails, CallSent

(* The handler acts on a frame and nothing else.                            *)
LEMMA DispatchAsked ==
  ASSUME HcInv, dispatch_frame
  PROVE  HcInv'
<1> DEFINE x == Head(hc_frames)
           e == HandlerEffect(x.frame)
<1>1. hc_frames \in Seq(Items) /\ hc_frames # << >> /\ hc_frames' = Tail(hc_frames)
  BY DEF HcInv, dispatch_frame
<1>2. hc_frames' \in Seq(Items) /\ x \in Items
  BY <1>1
<1>3. PICK r \in Asks : /\ Passed(PyRequest(r))
                        /\ x = [frame |-> LibFrame(PyRequest(r)), ask |-> r]
  BY <1>2 DEF Items
<1>4. x.frame = LibFrame(PyRequest(r)) /\ x.ask = r
  BY <1>3
<1>5. hc_effect' = [kind |-> e.kind, val |-> e.val, ask |-> r]
  BY <1>4 DEF dispatch_frame
<1>6. Asked(e.kind, e.val, PyRequest(r))
  BY <1>3, <1>4, EffectAsked
<1>7. hc_effect'.kind = e.kind /\ hc_effect'.val = e.val /\ hc_effect'.ask = r
  BY <1>5
<1> HIDE DEF e
<1>8. DoesWhatWasAsked'
  BY <1>6, <1>7, AskedByProgram
<1> QED BY <1>2, <1>8 DEF HcInv

(* A reset of the MCU leaves no effect behind.                              *)
LEMMA NoEffectAsked ==
  ASSUME hc_effect' = NoEffect
  PROVE  DoesWhatWasAsked'
<1>1. hc_effect'.kind = "none"
  BY DEF NoEffect
<1> QED BY <1>1 DEF DoesWhatWasAsked

(* Through binding, library, driver, link and firmware, whatever fails or is *)
(* lost on the way, and however many frames are in flight: the firmware acts *)
(* for a request of that kind only and keeps a register burst in one range,  *)
(* and covers just the registers asked for, except that a read writes those  *)
(* it names and an address wrapped by Python those it wraps to               *)
(* (DoesWhatWasAsked).                                                      *)
THEOREM CommandsAreFaithful == HcSpec => []DoesWhatWasAsked
<1>1. HcInit => HcInv
  <2> SUFFICES ASSUME HcInit PROVE HcInv
    OBVIOUS
  <2>1. hc_effect.kind = "none" /\ hc_frames = << >>
    BY DEF HcInit, NoEffect
  <2>2. << >> \in Seq(Items)
    OBVIOUS
  <2> QED BY <2>1, <2>2 DEF HcInv, DoesWhatWasAsked
<1>2. HcInv /\ [HcNext]_hcVars => HcInv'
  <2> SUFFICES ASSUME HcInv, [HcNext]_hcVars PROVE HcInv'
    OBVIOUS
  <2>1. CASE UNCHANGED <<hc_frames, hc_effect>>
    BY <2>1 DEF HcInv, DoesWhatWasAsked
  <2>2. CASE \E assert \in BOOLEAN : apex_mcu_reset(assert)
    <3>1. PICK assert \in BOOLEAN : apex_mcu_reset(assert)
      BY <2>2
    <3>2. CASE assert = TRUE
      <4>1. hc_frames' = << >> /\ hc_effect' = NoEffect
        BY <3>1, <3>2 DEF apex_mcu_reset
      <4>2. << >> \in Seq(Items)
        OBVIOUS
      <4> QED BY <4>1, <4>2, NoEffectAsked DEF HcInv
    <3>3. CASE assert = FALSE
      BY <2>1, <3>1, <3>3 DEF apex_mcu_reset
    <3> QED BY <3>2, <3>3
  <2>3. CASE dispatch_frame
    BY <2>3, DispatchAsked
  <2>4. ASSUME NEW r \in HcRequests, CCall(r) \/ PyCall(r) \/ PyRaises(r)
        PROVE  HcInv'
    <3>1. r \in Asks
      BY HcAssumption DEF Asks
    <3>2. /\ PyRequest(r) \in Asks
          /\ PyRequest(r).call \in {"write", "read"} => PyRequest(r).a >= 0
      BY <3>1, PyKeeps
    <3>3. CASE CCall(r)
      <4>1. r = PyRequest(r) /\ Call(r, r)
        BY <3>3 DEF CCall
      <4>2. r.call \in {"write", "read"} => r.a >= 0
        BY <3>2, <4>1
      <4> QED BY <3>1, <4>1, <4>2, CallSends
    <3>4. CASE PyCall(r)
      <4>1. Call(PyRequest(r), r)
        BY <3>4 DEF PyCall
      <4> QED BY <3>1, <3>2, <4>1, CallSends
    <3>5. CASE PyRaises(r)
      BY <2>1, <3>5 DEF PyRaises
    <3> QED BY <2>4, <3>3, <3>4, <3>5
  <2>5. CASE apex_open \/ apex_close
    BY <2>1, <2>5 DEF apex_open, apex_close
  <2>6. CASE UNCHANGED hcVars
    BY <2>1, <2>6 DEF hcVars
  <2> QED BY <2>2, <2>3, <2>4, <2>5, <2>6 DEF HcNext
<1>3. HcInv => DoesWhatWasAsked
  BY DEF HcInv
<1> QED BY <1>1, <1>2, <1>3, PTL DEF HcSpec

-----------------------------------------------------------------------------
(* The path of a measurement.                                               *)
Measures == [temp : INT16_MIN .. INT16_MAX, rssi : -1 .. 255, mv : 0 .. UINT16_MAX]
Words == [temp : Int, cc_rssi : Int, mv : Int, flags : Int]
Telemetries == [words : Words, of : Measures, bits : SUBSET HtBits]

(* The words are those of the measurement and of the conditions they go with. *)
RssiWord(m) == IF m.rssi < 0 THEN 0 ELSE Word(cc1101_get_rssi_x10(m.rssi))
Encodes(t) ==
  /\ t \in Telemetries
  /\ t.words.temp = Word(t.of.temp) /\ t.words.mv = t.of.mv
  /\ t.words.cc_rssi = RssiWord(t.of) /\ t.words.flags = FlagWord(t.bits)

(* Each word of the driver's cache is that of one frame; without a wipe since  *)
(* the last one, they are all of that frame.                                 *)
TelemInv ==
  /\ ht_telem = [f \in HtFields |-> ht_telem[f]]
  /\ \A f \in HtFields : Encodes(ht_telem[f])
  /\ ~ht_torn => ht_wipe = {} /\ \A f, g \in HtFields : ht_telem[f] = ht_telem[g]

HtInv ==
  /\ ht_bits \subseteq HtBits
  /\ Encodes(ht_cache) /\ Encodes(ht_frame) /\ TelemInv

(* A signed 16-bit value survives its journey as an unsigned word, ...      *)
LEMMA SignKept ==
  ASSUME NEW n \in Int, -32768 <= n, n <= 32767
  PROVE  Word(n) \in Int /\ SignedWord(Word(n)) = n
<1>1. CASE n >= 0
  <2>1. Word(n) = n
    BY <1>1, SMT DEF Word
  <2> QED BY <2>1, SMT DEF SignedWord, INT16_MAX
<1>2. CASE n < 0
  <2>1. Word(n) = n + 65536
    BY <1>2, SMT DEF Word
  <2> QED BY <1>2, <2>1, SMT DEF SignedWord, INT16_MAX
<1> QED BY <1>1, <1>2, SMT

(* ... the conditions survive theirs as bits of the flag word, ...           *)
LEMMA FlagsKept ==
  ASSUME NEW bits \in SUBSET HtBits
  PROVE  FlagWord(bits) \in Int /\ FlagSet(FlagWord(bits)) = bits
<1> DEFINE w == FlagWord(bits)
<1>1. w = (IF "SDR_RX" \in bits THEN 1 ELSE 0) + (IF "LOW_BATTERY" \in bits THEN 128 ELSE 0)
  BY SMT DEF FlagWord
<1>2. w \in Int /\ (w % 2 = 1 <=> "SDR_RX" \in bits)
  <2>1. w \in {0, 1, 128, 129} /\ (w \in {1, 129} <=> "SDR_RX" \in bits)
    BY <1>1, SMT
  <2> HIDE DEF w
  <2> QED BY <2>1, SMT
<1>3. (w \div 128) % 2 = 1 <=> "LOW_BATTERY" \in bits
  <2>1. w \in {0, 1, 128, 129} /\ (w \in {128, 129} <=> "LOW_BATTERY" \in bits)
    BY <1>1, SMT
  <2> HIDE DEF w
  <2> QED BY <2>1, SMT
<1> HIDE DEF w
<1>4. ASSUME NEW b \in HtBits
      PROVE  b \in FlagSet(w) <=> b \in bits
  <2>1. CASE b = "SDR_RX"
    BY <1>2, <2>1, SMT DEF FlagSet, HtBits
  <2>2. CASE b = "LOW_BATTERY"
    BY <1>3, <2>2, SMT DEF FlagSet, HtBits
  <2> QED BY <2>1, <2>2 DEF HtBits
<1>5. FlagSet(w) \subseteq HtBits
  <2>1. SUFFICES ASSUME NEW b \in FlagSet(w) PROVE b \in HtBits
    OBVIOUS
  <2> QED BY <2>1, SMT DEF FlagSet, HtBits
<1> QED BY <1>2, <1>4, <1>5, SMT DEF w

(* ... the RSSI is within half a dB of the register's, ...                   *)
LEMMA RssiKept ==
  ASSUME NEW reg \in Int, 0 <= reg, reg <= 255
  PROVE  /\ cc1101_get_rssi_x10(reg) \in Int
         /\ -32768 <= cc1101_get_rssi_x10(reg) /\ cc1101_get_rssi_x10(reg) <= 32767
         /\ cc1101_get_rssi_x10(reg) - RssiReference(reg) \in -5 .. 5
<1>1. CASE reg >= 128
  <2>1. cc1101_get_rssi_x10(reg) = 10 * (-((256 - reg) \div 2) - 74)
    BY <1>1, SMT DEF cc1101_get_rssi_x10, cc1101_get_rssi_dbm
  <2>2. RssiReference(reg) = 5 * (reg - 256) - 740
    BY <1>1, SMT DEF RssiReference
  <2> QED BY <1>1, <2>1, <2>2, SMT
<1>2. CASE reg < 128
  <2>1. cc1101_get_rssi_x10(reg) = 10 * ((reg \div 2) - 74)
    BY <1>2, SMT DEF cc1101_get_rssi_x10, cc1101_get_rssi_dbm
  <2>2. RssiReference(reg) = 5 * reg - 740
    BY <1>2, SMT DEF RssiReference
  <2> QED BY <1>2, <2>1, <2>2, SMT
<1> QED BY <1>1, <1>2, SMT

(* ... and the host's percentage is below 10 just when the battery is low.   *)
LEMMA PercentInStep ==
  ASSUME NEW mv \in Int
  PROVE  mv < 3300 <=> apex_battery_percent(mv) < 10
<1>1. CASE mv >= 4200
  <2>1. apex_battery_percent(mv) = 100
    BY <1>1, SMT DEF apex_battery_percent
  <2> QED BY <1>1, <2>1, SMT
<1>2. CASE mv <= 3000
  <2>1. apex_battery_percent(mv) = 0
    BY <1>2, SMT DEF apex_battery_percent
  <2> QED BY <1>2, <2>1, SMT
<1>3. CASE 3700 <= mv /\ mv < 4200
  <2>1. apex_battery_percent(mv) = ((mv - 3700) * 50) \div 500 + 50
    BY <1>3, SMT DEF apex_battery_percent
  <2> QED BY <1>3, <2>1, SMT
<1>4. CASE 3300 <= mv /\ mv < 3700
  <2>1. apex_battery_percent(mv) = ((mv - 3300) * 40) \div 400 + 10
    BY <1>4, SMT DEF apex_battery_percent
  <2> QED BY <1>4, <2>1, SMT
<1>5. CASE 3000 < mv /\ mv < 3300
  <2>1. apex_battery_percent(mv) = ((mv - 3000) * 10) \div 300
    BY <1>5, SMT DEF apex_battery_percent
  <2> QED BY <1>5, <2>1, SMT
<1> QED BY <1>1, <1>2, <1>3, <1>4, <1>5, SMT

(* Nothing sent yet: the zeros are those of no measurement.                 *)
LEMMA NoneEncodes == Encodes(NoTelemetry)
<1>1. NoMeasure \in Measures
  <2>1. INT16_MIN \in Int /\ INT16_MAX \in Int /\ UINT16_MAX \in Int
        /\ INT16_MIN <= 0 /\ 0 <= INT16_MAX /\ 0 <= UINT16_MAX
    BY SMT DEF INT16_MIN, INT16_MAX, UINT16_MAX
  <2> QED BY <2>1, SMT DEF NoMeasure, Measures
<1>2. ZeroWords \in Words
  BY DEF ZeroWords, Words
<1>3. NoTelemetry \in Telemetries
  BY <1>1, <1>2, SMT DEF NoTelemetry, Telemetries
<1>4. Word(0) = 0
  BY SMT DEF Word
<1>5. FlagWord({}) = 0
  BY SMT DEF FlagWord
<1>6. RssiWord(NoMeasure) = 0
  BY SMT DEF RssiWord, NoMeasure
<1>7. /\ NoTelemetry.words.temp = 0 /\ NoTelemetry.words.mv = 0
      /\ NoTelemetry.words.cc_rssi = 0 /\ NoTelemetry.words.flags = 0
      /\ NoTelemetry.of = NoMeasure /\ NoTelemetry.bits = {}
      /\ NoTelemetry.of.temp = 0 /\ NoTelemetry.of.mv = 0
  BY SMT DEF NoTelemetry, NoMeasure, ZeroWords
<1> QED BY <1>3, <1>4, <1>5, <1>6, <1>7, SMT DEF Encodes

(* The three numbers of a measurement.                                      *)
LEMMA MeasureRange ==
  ASSUME NEW m \in Measures
  PROVE  /\ m.temp \in Int /\ -32768 <= m.temp /\ m.temp <= 32767
         /\ m.rssi \in Int /\ -1 <= m.rssi /\ m.rssi <= 255
         /\ m.mv \in Int /\ 0 <= m.mv
<1>1. INT16_MIN \in Int /\ INT16_MAX \in Int /\ UINT16_MAX \in Int
  BY SMT DEF INT16_MIN, INT16_MAX, UINT16_MAX
<1>0. INT16_MIN = -32768 /\ INT16_MAX = 32767
  BY SMT DEF INT16_MIN, INT16_MAX, UINT16_MAX
<1>2. /\ m.temp \in INT16_MIN .. INT16_MAX /\ m.mv \in 0 .. UINT16_MAX
      /\ m.rssi \in -1 .. 255
  BY SMT DEF Measures
<1>3. m.temp \in Int /\ INT16_MIN <= m.temp /\ m.temp <= INT16_MAX
      /\ m.mv \in Int /\ 0 <= m.mv
  BY <1>1, <1>2, SMT
<1>4. m.rssi \in Int /\ -1 <= m.rssi /\ m.rssi <= 255
  BY <1>2, SMT
<1> QED BY <1>0, <1>1, <1>3, <1>4, SMT

(* collect_telemetry caches the words of its measurement.                   *)
LEMMA CollectEncodes ==
  ASSUME NEW m \in Measures
  PROVE  Encodes([words |-> [temp |-> Word(m.temp), mv |-> m.mv, flags |-> 0,
                             cc_rssi |-> RssiWord(m)],
                  of |-> m, bits |-> {}])
<1> DEFINE w == [temp |-> Word(m.temp), mv |-> m.mv, flags |-> 0, cc_rssi |-> RssiWord(m)]
           t == [words |-> w, of |-> m, bits |-> {}]
<1>1. Word(m.temp) \in Int /\ m.mv \in Int
  BY MeasureRange, SignKept, SMT
<1>2. RssiWord(m) \in Int
  <2>1. CASE m.rssi < 0
    BY <2>1, SMT DEF RssiWord
  <2>2. CASE m.rssi >= 0
    <3>1. m.rssi \in Int /\ m.rssi <= 255
      BY MeasureRange
    <3>2. Word(cc1101_get_rssi_x10(m.rssi)) \in Int
      BY <2>2, <3>1, RssiKept, SignKept, SMT
    <3> QED BY <2>2, <3>1, <3>2, SMT DEF RssiWord
  <2> QED BY <2>1, <2>2, MeasureRange, SMT
<1>3. FlagWord({}) = 0
  BY SMT DEF FlagWord
<1>4. w.temp = Word(m.temp) /\ w.mv = m.mv /\ w.flags = 0 /\ w.cc_rssi = RssiWord(m)
  OBVIOUS
<1>5. w \in Words
  BY <1>1, <1>2, SMT DEF Words
<1> HIDE DEF w
<1>6. t \in Telemetries /\ t.words = w /\ t.of = m /\ t.bits = {}
  BY <1>5, SMT DEF Telemetries
<1> HIDE DEF t
<1>7. Encodes(t)
  BY <1>3, <1>4, <1>6, SMT DEF Encodes
<1> QED BY <1>7 DEF t, w

(* spi_protocol_send_telemetry adds the conditions of the moment.           *)
LEMMA SendEncodes ==
  ASSUME NEW t, Encodes(t), NEW bits \in SUBSET HtBits
  PROVE  Encodes([t EXCEPT !.words.flags = FlagWord(bits), !.bits = bits])
<1> DEFINE w == [t.words EXCEPT !.flags = FlagWord(bits)]
           t1 == [t EXCEPT !.words = w]
           u == [t1 EXCEPT !.bits = bits]
<1>1. t \in Telemetries /\ t.words \in Words /\ t.of \in Measures
  BY SMT DEF Encodes, Telemetries
<1>2. [t EXCEPT !.words.flags = FlagWord(bits), !.bits = bits] = u
  BY Zenon
<1>3. FlagWord(bits) \in Int
  BY FlagsKept
<1>4. /\ w.temp = t.words.temp /\ w.mv = t.words.mv /\ w.cc_rssi = t.words.cc_rssi
      /\ w.flags = FlagWord(bits) /\ w \in Words
  BY <1>1, <1>3, SMT DEF Words
<1> HIDE DEF w
<1>t. t1 \in Telemetries /\ t1.words = w /\ t1.of = t.of
  BY <1>1, <1>4 DEF Telemetries
<1> HIDE DEF t1
<1>5. u \in Telemetries /\ u.words = w /\ u.of = t.of /\ u.bits = bits
  BY <1>t DEF Telemetries
<1> HIDE DEF u
<1>6. Encodes(u)
  BY <1>4, <1>5, SMT DEF Encodes
<1> QED BY <1>2, <1>6

(* A word of a frame is decoded back into the measurement or the conditions,  *)
(* whatever the other words are.                                             *)
LEMMA WordFaithful ==
  ASSUME NEW t, Encodes(t), NEW w, NEW f \in HtFields, w[f] = t.words[f]
  PROVE  /\ Faithful(f, apex_get_telemetry(w)[f], t)
         /\ Faithful(f, sysfs_show(f, w), t)
<1> DEFINE x == t.words
           m == t.of
           v == apex_get_telemetry(w)
<1>1. /\ x.temp = Word(m.temp) /\ x.mv = m.mv /\ x.cc_rssi = RssiWord(m)
      /\ x.flags = FlagWord(t.bits)
      /\ m \in Measures /\ t.bits \in SUBSET HtBits
  BY SMT DEF Encodes, Telemetries
<1>x. w[f] = x[f]
  OBVIOUS
<1>2. /\ v.temp = SignedWord(w.temp) /\ v.cc_rssi = SignedWord(w.cc_rssi) /\ v.mv = w.mv
      /\ v.flags = FlagSet(w.flags)
  BY SMT DEF apex_get_telemetry
<1>s. /\ sysfs_show("temp", w) = v.temp /\ sysfs_show("cc_rssi", w) = v.cc_rssi
      /\ sysfs_show("mv", w) = v.mv /\ sysfs_show("flags", w) = v.flags
  <2> HIDE DEF v
  <2> QED BY <1>2, SMT DEF sysfs_show
<1> SUFFICES /\ Faithful(f, v[f], t)
             /\ Faithful(f, sysfs_show(f, w), t)
  OBVIOUS
<1>m. m = t.of
  OBVIOUS
<1> HIDE DEF x, m, v
<1>3. CASE f = "temp"
  <2>0. w.temp = x.temp
    BY <1>x, <1>3
  <2>1. v.temp = m.temp
    BY <1>1, <1>2, <2>0, MeasureRange, SignKept, SMT
  <2> QED BY <1>3, <1>s, <1>m, <2>1, SMT DEF Faithful, apex_is_overtemp
<1>4. CASE f = "mv"
  <2>0. w.mv = x.mv
    BY <1>x, <1>4
  <2>1. v.mv = m.mv /\ v.mv \in Int
    BY <1>1, <1>2, <2>0, MeasureRange, SMT
  <2>2. apex_is_low_battery(v.mv) <=> apex_battery_percent(v.mv) < 10
    BY <2>1, PercentInStep, SMT DEF apex_is_low_battery
  <2> QED BY <1>4, <1>s, <1>m, <2>1, <2>2, SMT DEF Faithful
<1>5. CASE f = "flags"
  <2>0. w.flags = x.flags
    BY <1>x, <1>5
  <2>1. v.flags = t.bits
    BY <1>1, <1>2, <2>0, FlagsKept
  <2> QED BY <1>5, <1>s, <2>1, SMT DEF Faithful
<1>6. CASE f = "cc_rssi"
  <2>0. w.cc_rssi = x.cc_rssi
    BY <1>x, <1>6
  <2>r. IF m.rssi < 0 THEN v.cc_rssi = 0 ELSE v.cc_rssi - RssiReference(m.rssi) \in -5 .. 5
    <3>0. m.rssi \in Int /\ m.rssi <= 255
      BY <1>1, MeasureRange
    <3>1. CASE m.rssi < 0
      <4>1. w.cc_rssi = 0
        BY <1>1, <2>0, <3>1, SMT DEF RssiWord
      <4>2. SignedWord(0) = 0
        BY SMT DEF SignedWord, INT16_MAX
      <4> QED BY <1>2, <3>1, <4>1, <4>2
    <3>2. CASE ~(m.rssi < 0)
      <4>1. w.cc_rssi = Word(cc1101_get_rssi_x10(m.rssi))
        BY <1>1, <2>0, <3>2 DEF RssiWord
      <4>2. v.cc_rssi = cc1101_get_rssi_x10(m.rssi)
        BY <1>2, <3>0, <3>2, <4>1, RssiKept, SignKept, SMT
      <4>3. v.cc_rssi - RssiReference(m.rssi) \in -5 .. 5
        BY <3>0, <3>2, <4>2, RssiKept, SMT
      <4> QED BY <3>2, <4>3
    <3> QED BY <3>1, <3>2
  <2> QED BY <1>6, <1>s, <1>m, <2>r, SMT DEF Faithful
<1> QED BY <1>3, <1>4, <1>5, <1>6 DEF HtFields

(* So whoever reads the words of the cache is told what was measured.        *)
LEMMA ReadersAreTold == TelemInv => ReportedIsMeasured
<1> SUFFICES ASSUME TelemInv PROVE ReportedIsMeasured
  OBVIOUS
<1>1. ASSUME NEW f \in HtFields
      PROVE  /\ Faithful(f, apex_get_telemetry(LastTelem)[f], ht_telem[f])
             /\ Faithful(f, sysfs_show(f, LastTelem), ht_telem[f])
  <2>1. Encodes(ht_telem[f])
    BY DEF TelemInv
  <2>2. LastTelem[f] = ht_telem[f].words[f]
    BY DEF LastTelem
  <2> QED BY <2>1, <2>2, WordFaithful
<1>2. ASSUME ~ht_torn, NEW f \in HtFields, NEW g \in HtFields
      PROVE  ht_telem[f] = ht_telem[g]
  BY <1>2 DEF TelemInv
<1> QED BY <1>1, <1>2 DEF ReportedIsMeasured, pyapex_get_telemetry

(* What any of the three readers is told is of a measurement or wiped, and    *)
(* of one measurement if it is told in one copy and nothing was wiped,        *)
(* whatever is lost, reset or overtaken on the way (ReportedIsMeasured), for  *)
(* every measurement a sensor can deliver.                                   *)
THEOREM TelemetryIsFaithful == HtSpec => []ReportedIsMeasured
<1>1. HtInit => HtInv
  <2> SUFFICES ASSUME HtInit PROVE HtInv
    OBVIOUS
  <2>1. ht_bits = {} /\ ht_wipe = {}
        /\ ht_telem = [f \in HtFields |-> NoTelemetry]
    BY DEF HtInit
  <2>2. Encodes(ht_cache) /\ Encodes(ht_frame)
    BY NoneEncodes DEF HtInit
  <2>3. TelemInv
    BY <2>1, NoneEncodes DEF TelemInv
  <2> QED BY <2>1, <2>2, <2>3 DEF HtInv
<1>2. HtInv /\ [HtNext]_htVars => HtInv'
  <2> SUFFICES ASSUME HtInv, [HtNext]_htVars PROVE HtInv'
    OBVIOUS
  <2>0. /\ ht_bits \subseteq HtBits /\ Encodes(ht_cache) /\ Encodes(ht_frame)
        /\ TelemInv
    BY DEF HtInv
  <2>h. UNCHANGED htHost => TelemInv'
    BY <2>0 DEF htHost, TelemInv
  <2>1. ASSUME NEW m \in HtMeasures, collect_telemetry(m) PROVE HtInv'
    <3>1. m \in Measures
      BY HtAssumption, SMT DEF Measures
    <3>2. Encodes(ht_cache')
      BY <2>1, <3>1, CollectEncodes DEF collect_telemetry, RssiWord
    <3>3. UNCHANGED <<ht_bits, ht_frame, htHost>>
      BY <2>1 DEF collect_telemetry
    <3> QED BY <2>0, <2>h, <3>2, <3>3 DEF HtInv
  <2>2. ASSUME NEW b \in HtBits, ConditionChanges(b) PROVE HtInv'
    <3>1. UNCHANGED <<ht_cache, ht_frame, htHost>>
          /\ ht_bits' = (ht_bits \ {b}) \cup ({b} \ ht_bits)
      BY <2>2 DEF ConditionChanges
    <3>2. ht_bits' \subseteq HtBits
      BY <2>0, <3>1
    <3> QED BY <2>0, <2>h, <3>1, <3>2 DEF HtInv
  <2>3. CASE spi_protocol_send_telemetry
    <3>1. ht_frame' = [ht_cache EXCEPT !.words.flags = FlagWord(ht_bits), !.bits = ht_bits]
          /\ UNCHANGED <<ht_bits, ht_cache, htHost>>
      BY <2>3 DEF spi_protocol_send_telemetry
    <3>2. Encodes(ht_frame')
      BY <2>0, <3>1, SendEncodes
    <3> QED BY <2>0, <2>h, <3>1, <3>2 DEF HtInv
  <2>4. CASE TelemetryArrives
    <3>1. ht_telem' = [f \in HtFields |-> ht_frame] /\ ht_frame' = NoTelemetry
          /\ UNCHANGED <<ht_bits, ht_cache, ht_wipe>>
          /\ ht_torn' = (ht_wipe # {})
      BY <2>4 DEF TelemetryArrives
    <3>2. TelemInv'
      BY <2>0, <3>1 DEF TelemInv
    <3> QED BY <2>0, <3>1, <3>2, NoneEncodes DEF HtInv
  <2>5. CASE TelemetryLost
    <3>1. ht_frame' = NoTelemetry
          /\ UNCHANGED <<ht_bits, ht_cache, htHost>>
      BY <2>5 DEF TelemetryLost
    <3> QED BY <2>0, <2>h, <3>1, NoneEncodes DEF HtInv
  <2>6. CASE HtReset
    <3>1. ht_bits' = {} /\ ht_cache' = NoTelemetry /\ ht_frame' = NoTelemetry
          /\ UNCHANGED htHost
      BY <2>6 DEF HtReset
    <3>2. ht_bits' \subseteq HtBits
      BY <3>1
    <3> QED BY <2>0, <2>h, <3>1, <3>2, NoneEncodes DEF HtInv
  <2>7. CASE ReleaseWipes
    <3>1. ht_torn' = TRUE
          /\ UNCHANGED <<ht_bits, ht_cache, ht_frame, ht_telem>>
      BY <2>7 DEF ReleaseWipes
    <3>2. TelemInv'
      BY <2>0, <3>1 DEF TelemInv
    <3> QED BY <2>0, <3>1, <3>2 DEF HtInv
  <2>8. ASSUME NEW f \in HtFields, WipeWord(f) PROVE HtInv'
    <3>1. f \in ht_wipe /\ ht_telem' = [ht_telem EXCEPT ![f] = NoTelemetry]
          /\ UNCHANGED <<ht_bits, ht_cache, ht_frame, ht_torn>>
      BY <2>8 DEF WipeWord
    <3>2. ht_torn
      BY <2>0, <3>1 DEF TelemInv
    <3>3. TelemInv'
      BY <2>0, <3>1, <3>2, NoneEncodes DEF TelemInv
    <3> QED BY <2>0, <3>1, <3>3 DEF HtInv
  <2>9. CASE UNCHANGED htVars
    <3>1. UNCHANGED <<ht_bits, ht_cache, ht_frame, htHost>>
      BY <2>9 DEF htVars, htHost
    <3> QED BY <2>0, <2>h, <3>1 DEF HtInv
  <2> QED BY <2>1, <2>2, <2>3, <2>4, <2>5, <2>6, <2>7, <2>8, <2>9 DEF HtNext
<1>3. HtInv => ReportedIsMeasured
  BY ReadersAreTold DEF HtInv
<1> QED BY <1>1, <1>2, <1>3, PTL DEF HtSpec

===============================================================================
