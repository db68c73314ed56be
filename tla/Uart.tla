-------------------------------- MODULE Uart --------------------------------
(***************************************************************************)
(* The emulated PL011 of src/core/emul_uart.c between the host's PL011 and  *)
(* the guest.  Every pCPU drains the host's receive FIFO, at each tick and  *)
(* on the host UART's interrupt (pl011_maybe_receive of traps.c), while     *)
(* vCPUs trap into the emulated registers.  A step is one critical section  *)
(* of g_uart_lock or one access outside it.                                 *)
(*                                                                         *)
(* The vIRQ is for vCPU0, whose task is pinned to pCPU0 and cannot be found *)
(* while sched_yield has it in its hands there.  Of the scheduler, which is *)
(* A64Core's, this module keeps what the search sees: each pCPU's current   *)
(* task, and whether vCPU0's is on the ready list.                          *)
(*                                                                         *)
(* The registers that only hold what was written (IBRD, FBRD, LCR_H, IFLS,  *)
(* DMACR) and the constant ones are left out; so is transmission, which     *)
(* keeps no state.  Characters are numbered in order of their arrival.      *)
(***************************************************************************)
EXTENDS Integers, Sequences, FiniteSets, SequencesExt

CONSTANTS
    NCpu,       \* pCPUs that serve the host UART
    FifoSize,   \* UART_EMUL_FIFO_SIZE
    NChar       \* characters the host receives (bound)

ASSUME CpuAssumption  == NCpu \in Nat \ {0}
ASSUME FifoAssumption == FifoSize \in Nat \ {0}
ASSUME CharAssumption == NChar \in Nat

Cpu  == 0..(NCpu - 1)
Char == 1..NChar
Junk == 0           \* what UARTDR of an empty PL011 returns
Slot == 0..(FifoSize - 1)

Other  == NCpu              \* any task that pCPU0 runs besides vCPU0's
Task   == Cpu \cup {Other}  \* a task of pCPU c > 0 is called c, whichever it is
NoTask == -1

VARIABLES
    host,       \* receive FIFO of the host's PL011 (external)
    arrived,    \* characters that have arrived there (history)
    rx_fifo, rx_head, rx_tail, rx_count,    \* g_uart_emul
    imsc,       \* ... its RX and RT bits, which the guest sets together
    ris,        \* ... likewise
    irq_latched,
    cur,        \* current_task of each pCPU
    listed,     \* vCPU0's task is on g_ready_list
    virq,       \* tasks that uart.guest_irq is on its way to
    isr,        \* tasks in the guest's UART interrupt handler
    lost,       \* a full queue dropped the last uart.guest_irq (history)
    pc, ch,     \* control state and character of uart_emul_service_host
    got,        \* what the guest has read from UARTDR (history)
    dropped     \* characters read from the host into a full FIFO (history)

fifo  == <<rx_fifo, rx_head, rx_tail, rx_count>>
outer == <<host, arrived>>
sched == <<cur, listed>>
guest == <<virq, isr, lost>>
hist  == <<got, dropped>>
vars  == <<host, arrived, rx_fifo, rx_head, rx_tail, rx_count, imsc, ris,
           irq_latched, cur, listed, virq, isr, lost, pc, ch, got, dropped>>

Init ==
    /\ host = <<>> /\ arrived = 0
    /\ rx_fifo = [s \in Slot |-> Junk] /\ rx_head = 0 /\ rx_tail = 0 /\ rx_count = 0
    /\ imsc = FALSE /\ ris = FALSE /\ irq_latched = FALSE
    /\ cur = [c \in Cpu |-> NoTask] /\ listed = TRUE
    /\ virq = {} /\ isr = {} /\ lost = FALSE
    /\ pc = [c \in Cpu |-> "out"] /\ ch = [c \in Cpu |-> Junk]
    /\ got = <<>> /\ dropped = {}

Goto(c, label) == pc' = [pc EXCEPT ![c] = label]

RxEmpty == rx_count = 0
RxFull  == rx_count = FifoSize

-----------------------------------------------------------------------------
(* The host's PL011 receives a character (external)                         *)
HostReceive ==
    /\ arrived < NChar
    /\ arrived' = arrived + 1
    /\ host' = Append(host, arrived')
    /\ UNCHANGED <<fifo, imsc, ris, irq_latched, sched, guest, pc, ch, hist>>

(* A tick, or the host UART's interrupt: uart_emul_service_host begins      *)
ServiceHost(c) ==
    /\ pc[c] = "out"
    /\ Goto(c, "flag")
    /\ UNCHANGED <<outer, fifo, imsc, ris, irq_latched, sched, guest, ch, hist>>

(* ... its loop condition: UARTFR.RXFE                                      *)
PollFlag(c) ==
    /\ pc[c] = "flag"
    /\ Goto(c, IF host = <<>> THEN "out" ELSE "data")
    /\ UNCHANGED <<outer, fifo, imsc, ris, irq_latched, sched, guest, ch, hist>>

(* ... UARTDR, which another pCPU may have emptied since                    *)
ReadData(c) ==
    /\ pc[c] = "data"
    /\ ch' = [ch EXCEPT ![c] = IF host = <<>> THEN Junk ELSE Head(host)]
    /\ host' = IF host = <<>> THEN host ELSE Tail(host)
    /\ Goto(c, "push")
    /\ UNCHANGED <<arrived, fifo, imsc, ris, irq_latched, sched, guest, hist>>

(* Faulty variants of the next step, for mutation runs: no test for a full  *)
(* FIFO; a head that does not advance.                                      *)
InjectRxOverrun(c) ==
    /\ pc[c] = "push"
    /\ ch' = [ch EXCEPT ![c] = Junk]
    /\ rx_fifo' = [rx_fifo EXCEPT ![rx_head] = ch[c]]
    /\ rx_head' = (rx_head + 1) % FifoSize
    /\ rx_count' = rx_count + 1
    /\ Goto(c, "update")
    /\ UNCHANGED <<outer, rx_tail, imsc, ris, irq_latched, sched, guest, hist>>
InjectRxHeadStuck(c) ==
    /\ pc[c] = "push" /\ ~RxFull
    /\ ch' = [ch EXCEPT ![c] = Junk]
    /\ rx_fifo' = [rx_fifo EXCEPT ![rx_head] = ch[c]]
    /\ rx_count' = rx_count + 1
    /\ Goto(c, "update")
    /\ UNCHANGED <<outer, rx_head, rx_tail, imsc, ris, irq_latched, sched, guest, hist>>

(* uart_vcpu_inject_rx, the locked part: a full FIFO ends the service and   *)
(* the character with it                                                    *)
InjectRx(c) ==
    /\ pc[c] = "push"
    /\ ch' = [ch EXCEPT ![c] = Junk]
    /\ IF RxFull
       THEN /\ dropped' = dropped \cup ({ch[c]} \ {Junk})
            /\ Goto(c, "out")
            /\ UNCHANGED fifo
       ELSE /\ rx_fifo' = [rx_fifo EXCEPT ![rx_head] = ch[c]]
            /\ rx_head' = (rx_head + 1) % FifoSize
            /\ rx_count' = rx_count + 1
            /\ Goto(c, "update")
            /\ UNCHANGED <<rx_tail, dropped>>
    /\ UNCHANGED <<outer, imsc, ris, irq_latched, sched, guest, got>>

-----------------------------------------------------------------------------
(* uart_emul_update_irq, called by the service ("update") and by the guest's *)
(* register accesses ("update_guest")                                        *)

Returns(label) == IF label = "update" THEN "flag" ELSE "out"

(* Faulty variant, for mutation runs: the latch survives an empty FIFO.     *)
UpdateIrqStickyLatch(c) ==
    /\ pc[c] \in {"update", "update_guest"}
    /\ ris' = ~RxEmpty
    /\ irq_latched' = (irq_latched \/ (ris' /\ imsc))
    /\ Goto(c, IF ~(ris' /\ imsc) \/ irq_latched THEN Returns(pc[c])
               ELSE IF pc[c] = "update" THEN "inject" ELSE "inject_guest")
    /\ UNCHANGED <<outer, fifo, imsc, sched, guest, ch, hist>>

(* The locked part: refresh RIS, then clear the latch, leave it, or set it  *)
UpdateIrq(c) ==
    /\ pc[c] \in {"update", "update_guest"}
    /\ ris' = ~RxEmpty
    /\ irq_latched' = (ris' /\ imsc)
    /\ Goto(c, IF ~(ris' /\ imsc) \/ irq_latched THEN Returns(pc[c])
               ELSE IF pc[c] = "update" THEN "inject" ELSE "inject_guest")
    /\ UNCHANGED <<outer, fifo, imsc, sched, guest, ch, hist>>

(* uart_emul_target_task, after the unlock: vCPU0's task if                 *)
(* find_task_by_mpidr sees it, else the current task of this pCPU           *)
Found     == cur[0] = 0 \/ listed
Target(c) == IF Found THEN 0 ELSE cur[c]

(* gic_vcpu_inject_virq: a queue that is full of other vIRQs drops this one *)
Inject(t) ==
    \/ virq' = virq \cup {t} /\ lost' = FALSE
    \/ t \notin virq /\ lost' = TRUE /\ UNCHANGED virq

(* Faulty variant, for mutation runs: no current task to fall back on.      *)
InjectIrqVcpu0Only(c) ==
    /\ pc[c] \in {"inject", "inject_guest"}
    /\ IF Found THEN Inject(0) ELSE UNCHANGED <<virq, lost>>
    /\ Goto(c, IF pc[c] = "inject" THEN "flag" ELSE "out")
    /\ UNCHANGED <<outer, fifo, imsc, ris, irq_latched, sched, isr, ch, hist>>

(* The vIRQ; without any target the latch stays set and nothing is sent     *)
InjectIrq(c) ==
    /\ pc[c] \in {"inject", "inject_guest"}
    /\ IF Target(c) = NoTask THEN UNCHANGED <<virq, lost>> ELSE Inject(Target(c))
    /\ Goto(c, IF pc[c] = "inject" THEN "flag" ELSE "out")
    /\ UNCHANGED <<outer, fifo, imsc, ris, irq_latched, sched, isr, ch, hist>>

-----------------------------------------------------------------------------
(* sched_yield on pCPU0, as far as the search for vCPU0's task sees it      *)

(* simple_scheduler_next: vCPU0's task comes off the list, or goes on the   *)
(* way out for another.  There is another task for pCPU0 only by a CPU_ON   *)
(* made on another pCPU: it is pinned to pCPU0 until psci_vcpu_on binds it, *)
(* and pCPU0 does not yield between creating and binding one itself.        *)
YieldNext ==
    /\ pc[0] = "out"
    /\ \/ cur[0] # 0 /\ listed
       \/ cur[0] = 0 /\ \E c \in Cpu \ {0} : cur[c] # NoTask
    /\ listed' = FALSE
    /\ Goto(0, "publish")
    /\ UNCHANGED <<outer, fifo, imsc, ris, irq_latched, cur, guest, ch, hist>>

(* ... set_current, after the unlock                                        *)
Publish ==
    /\ pc[0] = "publish"
    /\ cur' = [cur EXCEPT ![0] = IF cur[0] = 0 THEN Other ELSE 0]
    /\ Goto(0, "requeue")
    /\ UNCHANGED <<outer, fifo, imsc, ris, irq_latched, listed, guest, ch, hist>>

(* ... simple_scheduler_sched of the outgoing task                          *)
Requeue ==
    /\ pc[0] = "requeue"
    /\ listed' = (cur[0] # 0)
    /\ Goto(0, "out")
    /\ UNCHANGED <<outer, fifo, imsc, ris, irq_latched, cur, guest, ch, hist>>

(* A vCPU that the guest has turned on gets its pCPU, which from then on    *)
(* always has a current task                                                *)
StartVcpu(c) ==
    /\ c # 0 /\ pc[c] = "out" /\ cur[c] = NoTask
    /\ cur[0] # NoTask
    /\ cur' = [cur EXCEPT ![c] = c]
    /\ UNCHANGED <<outer, fifo, imsc, ris, irq_latched, listed, guest, pc, ch, hist>>

-----------------------------------------------------------------------------
(* The guest: register accesses that trap (uart_emul_read, _write).  Its    *)
(* driver makes them one at a time and, while a vCPU is in the interrupt    *)
(* handler, from there (external: the lock of the guest's driver).          *)

InGuest(c) == pc[c] = "out" /\ cur[c] # NoTask

Access(c) ==
    /\ InGuest(c)
    /\ \A d \in Cpu : pc[d] \notin {"update_guest", "inject_guest"}
    /\ isr = {} \/ cur[c] \in isr

(* UARTDR: uart_emul_rx_pop                                                 *)
GuestReadDr(c) ==
    /\ Access(c)
    /\ IF RxEmpty
       THEN UNCHANGED <<got, fifo>>
       ELSE /\ got' = Append(got, rx_fifo[rx_tail])
            /\ rx_tail' = (rx_tail + 1) % FifoSize
            /\ rx_count' = rx_count - 1
            /\ UNCHANGED <<rx_fifo, rx_head>>
    /\ Goto(c, "update_guest")
    /\ UNCHANGED <<outer, imsc, ris, irq_latched, sched, guest, ch, dropped>>

(* UARTIMSC                                                                 *)
GuestWriteImsc(c, on) ==
    /\ Access(c)
    /\ imsc' = on
    /\ Goto(c, "update_guest")
    /\ UNCHANGED <<outer, fifo, ris, irq_latched, sched, guest, ch, hist>>

(* UARTICR with the RX and RT bits, and UARTCR                              *)
GuestWriteIcr(c) ==
    /\ Access(c)
    /\ ris' = FALSE
    /\ Goto(c, "update_guest")
    /\ UNCHANGED <<outer, fifo, imsc, irq_latched, sched, guest, ch, hist>>

GuestWriteCr(c) ==
    /\ Access(c)
    /\ Goto(c, "update_guest")
    /\ UNCHANGED <<outer, fifo, imsc, ris, irq_latched, sched, guest, ch, hist>>

(* The guest's handler (external): it reads UARTMIS, which refreshes RIS,   *)
(* and returns when no interrupt is left; else it reads a character.        *)
GuestTakeIrq(c) ==
    /\ InGuest(c) /\ cur[c] \in virq \ isr
    /\ virq' = virq \ {cur[c]} /\ isr' = isr \cup {cur[c]}
    /\ UNCHANGED <<outer, fifo, imsc, ris, irq_latched, sched, lost, pc, ch, hist>>

GuestIsrDone(c) ==
    /\ Access(c) /\ cur[c] \in isr
    /\ ris' = ~RxEmpty
    /\ ~(ris' /\ imsc)
    /\ isr' = isr \ {cur[c]}
    /\ UNCHANGED <<outer, fifo, imsc, irq_latched, sched, virq, lost, pc, ch, hist>>

GuestIsrRead(c) == cur[c] \in isr /\ imsc /\ GuestReadDr(c)

-----------------------------------------------------------------------------
Service(c) == PollFlag(c) \/ ReadData(c) \/ InjectRx(c) \/ UpdateIrq(c) \/ InjectIrq(c)

Yield == YieldNext \/ Publish \/ Requeue

Guest(c) ==
    \/ GuestReadDr(c) \/ GuestWriteIcr(c) \/ GuestWriteCr(c)
    \/ \E on \in BOOLEAN : GuestWriteImsc(c, on)
    \/ GuestTakeIrq(c) \/ GuestIsrDone(c)

Next ==
    \/ HostReceive
    \/ Yield
    \/ \E c \in Cpu : ServiceHost(c) \/ Service(c) \/ StartVcpu(c) \/ Guest(c)

Spec == Init /\ [][Next]_vars

(* A pCPU goes on with what it is doing, at a tick vCPU0's task gets its    *)
(* pCPU back, and the guest takes a pending vIRQ and goes on in its handler.*)
Handler(c) == GuestTakeIrq(c) \/ GuestIsrRead(c) \/ GuestIsrDone(c)

Fairness ==
    /\ WF_vars(Publish \/ Requeue) /\ SF_vars(cur[0] # 0 /\ YieldNext)
    /\ \A c \in Cpu : WF_vars(Service(c)) /\ SF_vars(Handler(c))

FairSpec == Spec /\ Fairness

-----------------------------------------------------------------------------
(* Properties                                                               *)

(* Every variable keeps its type: the ring's indices and its count stay     *)
(* within the FIFO, although two pCPUs push and the guest pops.             *)
TypeOK ==
    /\ host \in Seq(Char) /\ arrived \in 0..NChar
    /\ rx_fifo \in [Slot -> Char \cup {Junk}]
    /\ rx_head \in Slot /\ rx_tail \in Slot /\ rx_count \in 0..FifoSize
    /\ imsc \in BOOLEAN /\ ris \in BOOLEAN /\ irq_latched \in BOOLEAN
    /\ cur \in [Cpu -> Task \cup {NoTask}] /\ listed \in BOOLEAN
    /\ virq \subseteq Task /\ isr \subseteq Task /\ lost \in BOOLEAN
    /\ pc \in [Cpu -> {"out", "flag", "data", "push", "update", "update_guest",
                       "inject", "inject_guest", "publish", "requeue"}]
    /\ ch \in [Cpu -> Char \cup {Junk}]
    /\ got \in Seq(Char \cup {Junk}) /\ dropped \subseteq Char

(* The characters in the ring, oldest first.                                *)
Ring == [i \in 1..rx_count |-> rx_fifo[(rx_tail + i - 1) % FifoSize]]

(* How often x occurs in a sequence.                                        *)
Count(s, x) == Cardinality({i \in 1..Len(s) : s[i] = x})

(* No character is lost inside the emulation or delivered twice: each that  *)
(* arrived is in one place, with the host, in a pCPU's hands, in the ring,  *)
(* read by the guest, or dropped because the ring was full.                 *)
Conserved ==
    \A x \in 1..arrived :
        Count(host, x) + Cardinality({c \in Cpu : ch[c] = x}) + Count(Ring, x)
        + Count(got, x) + Cardinality({x} \cap dropped) = 1

(* irq_latched, which suppresses further vIRQs, is never set without one:   *)
(* it is on its way to a vCPU, or the guest's handler has not finished, or  *)
(* a pCPU is about to send it.  In particular a search that misses vCPU0's  *)
(* task finds another that runs.  Only a full queue, which drops the vIRQ,  *)
(* leaves the latch alone.                                                  *)
LatchHasIrq ==
    irq_latched =>
        \/ virq # {} \/ isr # {} \/ lost
        \/ \E c \in Cpu : pc[c] \in {"inject", "inject_guest"}

(* Characters in the FIFO are read, or the guest has the interrupt masked,  *)
(* or a full queue has dropped the vIRQ.                                    *)
RxServiced == (~RxEmpty /\ imsc) ~> (RxEmpty \/ ~imsc \/ lost)

(* The guest reads what the host received, in that order (some of it may be *)
(* dropped): no character overtakes another, none appears from nowhere.     *)
InOrder == \A i, j \in 1..Len(got) : i < j => Junk < got[i] /\ got[i] < got[j]
=============================================================================
