------------------------------ MODULE Ns16550 ------------------------------
(***************************************************************************)
(* The emulated NS16550A of src/arch/riscv64/emul_uart.c (g_uart_state).    *)
(* The receive ring is its count of characters: head and tail follow from   *)
(* it, and no property here tells characters apart.  The divisor, FCR, MCR, *)
(* MSR and SCR bytes have no effect on the rest and are left out; LCR is    *)
(* its DLAB bit.                                                            *)
(***************************************************************************)
EXTENDS Integers

CONSTANTS FifoSize      \* UART_EMUL_FIFO_SIZE

ASSUME FifoAssumption == FifoSize \in Nat \ {0}

(* uart_register_emul                                                       *)
UartRegisterEmul ==
    [rx |-> 0, ier |-> {}, iir |-> "none", txPending |-> FALSE, dlab |-> FALSE]

(* Faulty variant, for mutation runs: an empty ring is popped.              *)
RxPopAlways(u) == [u EXCEPT !.rx = @ - 1]

(* ns16550a_rx_push and ns16550a_rx_pop                                     *)
RxFull(u) == u.rx = FifoSize
RxPush(u) == IF RxFull(u) THEN u ELSE [u EXCEPT !.rx = @ + 1]
RxPop(u)  == IF u.rx = 0 THEN u ELSE [u EXCEPT !.rx = @ - 1]

(* The choice in ns16550a_update_irq: received data before an empty THR.    *)
Source(u) ==
    CASE u.rx > 0 /\ "RDI" \in u.ier -> "RDI"
      [] ~(u.rx > 0 /\ "RDI" \in u.ier) /\ u.txPending /\ "THRI" \in u.ier -> "THRI"
      [] OTHER -> "none"

(* ns16550a_update_irq, up to the unlock                                    *)
UpdateIir(u) == [u EXCEPT !.iir = Source(u)]

(* ns16550a_read: RBR pops, the other registers change nothing here.  IIR   *)
(* is read in two steps, TxClear being the second (RvCore).                 *)
UartRead(u, reg) == IF reg = "RBR" /\ ~u.dlab THEN RxPop(u) ELSE u
TxClear(u) == [u EXCEPT !.txPending = FALSE]

(* ns16550a_write                                                           *)
UartWrite(u, reg, val) ==
    CASE reg = "THR" /\ ~u.dlab -> [u EXCEPT !.txPending = TRUE]
      [] reg = "IER" /\ ~u.dlab ->
            [u EXCEPT !.ier = val, !.txPending = @ \/ "THRI" \in val]
      [] reg = "FCR" -> IF "RXRST" \in val THEN [u EXCEPT !.rx = 0] ELSE u
      [] reg = "LCR" -> [u EXCEPT !.dlab = "DLAB" \in val]
      [] OTHER -> u

(* Which accesses end in ns16550a_update_irq                                *)
UpdatesAfterRead(u, reg)  == reg = "IIR" \/ (reg = "RBR" /\ ~u.dlab)
UpdatesAfterWrite(u, reg) == reg = "FCR" \/ (reg \in {"THR", "IER"} /\ ~u.dlab)
=============================================================================
