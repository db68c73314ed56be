------------------------------ MODULE RvConfig ------------------------------
(***************************************************************************)
(* What RISC-V boot reads from the host's flattened device tree and what it *)
(* writes for the guest (src/arch/riscv64/riscv_features.c, guest_dtb.c).   *)
(* A flattened tree is the sequence of its tokens: "begin" with a name,     *)
(* "prop" with a name and a value, "end", "nop", "stop" for FDT_END; <<>>   *)
(* has no magic.  A value is a sequence of cells or strings.  Addresses are *)
(* as wide as two cells.                                                    *)
(***************************************************************************)
EXTENDS BootCfg

CONSTANTS
    RvDefaults,     \* the RISCV_DEFAULT_GUEST_... and no initrd, one vCPU
    RvCpuNum,       \* CONFIG_SMP_CPU_NUM
    Timebase,       \* g_timebase_frequency's initial value
    GuestUart, GuestPlic,   \* base and size of the guest's devices
    PlicPhandle,    \* GUEST_PLIC_PHANDLE
    StringsSize     \* how many names g_strings has room for

ASSUME RvConfigAssumption == RvCpuNum \in Nat \ {0}

Begin(name) == <<[tok |-> "begin", name |-> name, val |-> <<>>]>>
PropTok(name, val) == [tok |-> "prop", name |-> name, val |-> val]
EndNode == <<[tok |-> "end", name |-> "", val |-> <<>>]>>

(* The loop that find_bootargs and riscv_features_init share: it stops at   *)
(* FDT_END or at a token it does not know, and passes over a property whose *)
(* name lies behind the strings ("?").                                      *)
ScanProps(fdt) ==
    LET odd == {i \in DOMAIN fdt : fdt[i].tok \notin {"begin", "prop", "end", "nop"}}
    IN  SelectSeq(SubSeq(fdt, 1, IF odd = {} THEN Len(fdt) ELSE Min(odd) - 1),
                  LAMBDA x : x.tok = "prop" /\ x.name # "?")

-----------------------------------------------------------------------------

(* parse_isa_string, parse_isa_extensions, and the timebase: what one       *)
(* property changes.  An ISA string is the letters of its first word and    *)
(* its other words.                                                         *)
ReadFeature(f, p) ==
    LET isa == p.val[1]
        One(s) == \E i \in DOMAIN p.val : p.val[i] \in s
    IN  CASE p.name = "timebase-frequency" /\ p.val # <<>> -> [f EXCEPT !.timebase = isa]
          [] p.name = "riscv,isa" -> [f EXCEPT !.svvptc = @ \/ "svvptc" \in isa.words,
                                               !.fpu = @ \/ isa.letters \cap {"f", "d"} # {},
                                               !.vector = @ \/ "v" \in isa.letters]
          [] p.name = "riscv,isa-extensions" ->
                [f EXCEPT !.svvptc = @ \/ One({"svvptc"}), !.fpu = @ \/ One({"f", "d"}),
                          !.vector = @ \/ One({"v", "zve64d", "zve64f", "zve64x"})]
          [] OTHER -> f

(* riscv_features_init: a later property overrules the timebase, and adds   *)
(* to the rest.                                                             *)
NoFeatures == [svvptc |-> FALSE, fpu |-> FALSE, vector |-> FALSE, timebase |-> Timebase]
RiscvFeatures(fdt) == FoldLeft(ReadFeature, NoFeatures, ScanProps(fdt))

-----------------------------------------------------------------------------
(* parse_num: a number is its base and its digits, with something else for  *)
(* a character that is none.  Without digits it fails where the string      *)
(* ends; in front of another word it is 0.                                  *)
ParseNum(n, last) ==
    IF (n.digits = <<>> /\ last) \/ \E i \in DOMAIN n.digits : n.digits[i] \notin 0..(n.base - 1) THEN <<>>
    ELSE <<FoldLeft(LAMBDA v, d : (v * n.base + d) % (Cell * Cell), 0, n.digits)>>

(* parse_bootarg_u64: the first word that begins with the key decides.      *)
ParseBootarg(args, key) ==
    LET found == {i \in DOMAIN args : args[i].key = key}
    IN  IF found = {} THEN <<>> ELSE ParseNum(args[Min(found)].num, Min(found) = Len(args))

(* find_bootargs, wherever it is in the tree; <<>> for NULL                 *)
FindBootargs(fdt) ==
    LET found == SelectSeq(ScanProps(fdt), LAMBDA p : p.name = "bootargs" /\ p.val # <<>>)
    IN  IF found = <<>> THEN <<>> ELSE found[1].val

(* riscv_guest_config_init.  vCPUs are clamped, an initrd that does not end *)
(* behind its start is dropped, nothing else is looked at.                  *)
GuestConfig(fdt) ==
    LET args == FindBootargs(fdt)
        Arg(key, default) == Or(ParseBootarg(args, key), default)
        start == Arg("guest_initrd_start", 0)
        end   == Arg("guest_initrd_end", 0)
    IN  [entry  |-> Arg("guest_entry", RvDefaults.entry),
         dtb    |-> Arg("guest_dtb", RvDefaults.dtb),
         ram    |-> <<Arg("guest_ram_base", RvDefaults.ram[1]), Arg("guest_ram_size", RvDefaults.ram[2])>>,
         initrd |-> IF end <= start THEN <<0, 0>> ELSE <<start, end>>,
         vcpus  |-> Min({Max({Arg("guest_vcpus", 1), 1}), RvCpuNum})]

-----------------------------------------------------------------------------
(* string_offset and prop_raw: with no room for another name the property   *)
(* is left out.                                                             *)
EmitProps(props) ==
    LET Names(k) == {props[i].name : i \in {j \in 1..k : props[j].tok = "prop"}}
    IN  [i \in 1..Len(props) |->
            IF props[i].tok = "prop" /\ Cardinality(Names(i)) > StringsSize
            THEN [props[i] EXCEPT !.tok = "nop"] ELSE props[i]]

U32(name, v) == <<PropTok(name, <<v>>)>>
Str(name, s) == <<PropTok(name, <<s>>)>>
Empty(name) == <<PropTok(name, <<>>)>>
U64(name, v) == <<PropTok(name, <<v \div Cell, v % Cell>>)>>
Reg2(name, r) == <<PropTok(name, <<r[1] \div Cell, r[1] % Cell, r[2] \div Cell, r[2] % Cell>>)>>

(* prop_interrupts_extended: S-mode external interrupt of every hart        *)
InterruptsExtended(n) == <<PropTok("interrupts-extended", FlattenSeq([i \in 1..n |-> <<i, 9>>]))>>

ChosenNode(c) ==
    LET initrd == c.initrd[2] > c.initrd[1]
    IN  Begin("chosen") \o Str("bootargs", IF initrd THEN "rdinit" ELSE "console")
          \o Str("stdout-path", "/soc/serial")
          \o (IF initrd THEN U64("linux,initrd-start", c.initrd[1]) \o U64("linux,initrd-end", c.initrd[2]) ELSE <<>>)
          \o EndNode

(* Faulty variant, for mutation runs: every hart has the phandle 1.         *)
CpuNodeSamePhandle(i) ==
    Begin("cpu") \o Str("device_type", "cpu") \o Str("compatible", "riscv") \o Str("status", "okay")
      \o Str("riscv,isa", "rv64imafdch") \o Str("mmu-type", "riscv,sv48") \o U32("reg", i)
      \o Begin("interrupt-controller") \o Empty("interrupt-controller") \o Str("compatible", "riscv,cpu-intc")
      \o U32("#interrupt-cells", 1) \o U32("phandle", 1) \o EndNode
      \o EndNode

CpuNode(i) ==
    Begin("cpu") \o Str("device_type", "cpu") \o Str("compatible", "riscv") \o Str("status", "okay")
      \o Str("riscv,isa", "rv64imafdch") \o Str("mmu-type", "riscv,sv48") \o U32("reg", i)
      \o Begin("interrupt-controller") \o Empty("interrupt-controller") \o Str("compatible", "riscv,cpu-intc")
      \o U32("#interrupt-cells", 1) \o U32("phandle", i + 1) \o EndNode
      \o EndNode

SocNode(c) ==
    Begin("soc") \o U32("#address-cells", 2) \o U32("#size-cells", 2) \o Str("compatible", "simple-bus")
      \o Empty("ranges")
      \o Begin("serial") \o Str("compatible", "ns16550a") \o Reg2("reg", GuestUart)
      \o U32("interrupt-parent", PlicPhandle) \o U32("interrupts", 10) \o EndNode
      \o Begin("plic") \o Str("compatible", "sifive,plic-1.0.0") \o Reg2("reg", GuestPlic)
      \o Empty("interrupt-controller") \o U32("#interrupt-cells", 1) \o U32("riscv,ndev", 32)
      \o U32("phandle", PlicPhandle) \o InterruptsExtended(c.vcpus) \o EndNode
      \o EndNode

(* riscv_guest_dtb_init                                                     *)
GuestDtb(c, timebase) ==
    EmitProps(Begin("") \o U32("#address-cells", 2) \o U32("#size-cells", 2) \o Str("compatible", "riscv-virtio")
      \o U32("interrupt-parent", PlicPhandle)
      \o ChosenNode(c)
      \o Begin("memory") \o Str("device_type", "memory") \o Reg2("reg", c.ram) \o EndNode
      \o Begin("cpus") \o U32("#address-cells", 1) \o U32("#size-cells", 0) \o U32("timebase-frequency", timebase)
      \o FlattenSeq([i \in 1..c.vcpus |-> CpuNode(i - 1)]) \o EndNode
      \o SocNode(c) \o EndNode)
      \o <<[tok |-> "stop", name |-> "", val |-> <<>>]>>

-----------------------------------------------------------------------------
(* A flattened tree as the guest's libfdt takes it in: the nodes in order,  *)
(* each with the properties up to its first child or its end.               *)
Unflatten(fdt) ==
    LET opens  == SelectSeq([i \in 1..Len(fdt) |-> i], LAMBDA i : fdt[i].tok = "begin")
        Depth(i) == Cardinality({j \in 1..i : fdt[j].tok = "begin"}) - Cardinality({j \in 1..i : fdt[j].tok = "end"})
        Own(i) == LET next == Min({j \in (i + 1)..Len(fdt) : fdt[j].tok \in {"begin", "end"}})
                  IN  {j \in (i + 1)..(next - 1) : fdt[j].tok = "prop"}
        Value(i, p) == fdt[Min({j \in Own(i) : fdt[j].name = p})].val
    IN  [n \in 1..Len(opens) |->
            LET i     == opens[n]
                above == {k \in 1..(n - 1) : Depth(opens[k]) = Depth(i) - 1}
                names == {fdt[j].name : j \in Own(i)}
            IN  [parent |-> IF above = {} THEN 0 ELSE Max(above), name |-> fdt[i].name,
                 compat |-> IF "compatible" \in names THEN {Value(i, "compatible")[1]} ELSE {},
                 prop |-> [p \in names |-> Value(i, p)]]]
=============================================================================
