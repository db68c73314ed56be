------------------------------- MODULE MCBoot -------------------------------
(* hyper.dts and linux.dts in small, with cells of three bits, and what can *)
(* be wrong with them; a boot CPU and two secondaries.                      *)
EXTENDS Boot

Node(parent, name, compat, prop) == [parent |-> parent, name |-> name, compat |-> compat, prop |-> prop]
Cells(na, ns) == "#address-cells" :> <<na>> @@ "#size-cells" :> <<ns>>

HyperDts == <<
    Node(0, "/", {"hypervisor,platform"}, Cells(2, 2)),
    Node(1, "guest0", {"hypervisor,guest"},
         Cells(2, 2) @@ "guest-entry" :> <<5, 2>> @@ "guest-dtb" :> <<6, 5>> @@ "vcpu-count" :> <<2>>
             @@ "vcpu-mpidrs" :> <<0, 0, 0, 1>> @@ "hyp-timer-ppi" :> <<6>>),
    Node(2, "uart", {"arm,pl011"}, "interrupts" :> <<0, 1, 4>> @@ "reg" :> <<1, 1, 0, 1>>),
    Node(2, "memory", {}, "device_type" :> <<"memory">> @@ "reg" :> <<5, 0, 1, 0>>),
    Node(2, "vgic", {"hypervisor,vgic-v3"}, "redistributor-stride" :> <<0, 2>> @@ "reg" :> <<2, 0, 0, 1, 2, 4, 0, 4>>),
    Node(1, "cpus", {}, Cells(2, 0)),
    Node(6, "cpu", {}, "device_type" :> <<"cpu">> @@ "reg" :> <<0, 0>> @@ "enable-method" :> <<"psci">>),
    Node(6, "cpu", {}, "device_type" :> <<"cpu">> @@ "reg" :> <<0, 1>> @@ "enable-method" :> <<"psci">>),
    Node(6, "cpu", {}, "device_type" :> <<"cpu">> @@ "reg" :> <<0, 2>> @@ "enable-method" :> <<"psci">>),
    Node(1, "memory", {}, "device_type" :> <<"memory">> @@ "reg" :> <<6, 0, 1, 0>>),
    Node(1, "gic", {"arm,gic-v3"}, "redistributor-stride" :> <<0, 2>> @@ "reg" :> <<2, 0, 0, 1, 2, 4, 0, 6>>),
    Node(1, "uart", {"arm,pl011"}, "interrupts" :> <<0, 1, 4>> @@ "reg" :> <<1, 1, 0, 1>>)>>

LinuxDts == <<
    Node(0, "/", {}, Cells(2, 2)),
    Node(1, "uart", {"arm,pl011"}, "interrupts" :> <<0, 1, 4>> @@ "reg" :> <<1, 1, 0, 1>>),
    Node(1, "gic", {"arm,gic-v3"}, "reg" :> <<2, 0, 0, 1, 2, 4, 0, 4>>),
    Node(1, "cpus", {}, Cells(1, 0)),
    Node(4, "cpu", {}, "device_type" :> <<"cpu">> @@ "reg" :> <<0>>),
    Node(4, "cpu", {}, "device_type" :> <<"cpu">> @@ "reg" :> <<1>>)>>

Set(t, n, p, v) == [t EXCEPT ![n].prop = p :> v @@ @]
Drop(t, n, p) == [t EXCEPT ![n].prop = [q \in DOMAIN @ \ {p} |-> @[q]]]

MCHostTrees == {
    HyperDts,
    [HyperDts EXCEPT ![1].compat = {}],                                 \* no platform
    [HyperDts EXCEPT ![2].compat = {}],                                 \* no guest
    Drop(Drop(HyperDts, 4, "device_type"), 10, "device_type"),          \* no memory
    Set(HyperDts, 4, "reg", <<5, 0, 1>>),                               \* short reg
    Drop(HyperDts, 2, "vcpu-mpidrs"),
    Set(HyperDts, 2, "vcpu-mpidrs", <<0, 1>>),                          \* one vCPU, whatever the count says
    Set(Set(HyperDts, 2, "vcpu-mpidrs", <<1, 1, 1, 0>>), 11, "redistributor-stride", <<0, 4>>),
    Set(Set(HyperDts, 7, "reg", <<0, 1>>), 8, "reg", <<0, 0>>),         \* CPUs in another order
    Set(HyperDts, 11, "reg", <<2, 0, 0, 1, 2, 4, 0, 2>>),               \* one frame mapped
    Set(Drop(HyperDts, 9, "enable-method"), 8, "reg", <<1>>),           \* one usable CPU
    [HyperDts EXCEPT ![6].name = "processors"],                         \* no /cpus
    Set(HyperDts, 5, "reg", <<2, 0, 0, 1, 1, 0, 0, 4>>),                \* GICR below GICD
    Set(HyperDts, 5, "reg", <<2, 0, 2, 0, 2, 4, 0, 4>>),                \* GICD beyond GICR
    Set(HyperDts, 3, "reg", <<2, 5, 0, 1>>)}                            \* UART between GIC frames

MCGuestTrees == {
    <<>>,
    LinuxDts,
    [LinuxDts EXCEPT ![4].name = "processors"],
    SubSeq(LinuxDts, 1, 5),                                             \* one CPU
    Set(LinuxDts, 6, "reg", <<0>>),                                     \* a CPU named twice
    Set(LinuxDts, 6, "reg", <<2>>),                                     \* a stranger
    Drop(LinuxDts, 6, "reg"),
    Set(LinuxDts, 4, "#address-cells", <<2>>),                          \* cells that do not fit
    Set(SubSeq(LinuxDts, 1, 5), 5, "reg", <<1>>),
    Set(LinuxDts, 3, "reg", <<2, 0, 0, 1, 2, 4, 0, 6>>),
    Set(LinuxDts, 3, "reg", <<2, 0, 0, 1, 1, 0, 0, 4>>),
    Set(LinuxDts, 3, "reg", <<2, 0, 2, 0, 2, 4, 0, 4>>),
    Set(LinuxDts, 2, "reg", <<2, 5, 0, 1>>),
    Set(LinuxDts, 2, "interrupts", <<1, 1, 4>>)}

MCDefaults == [
    memory |-> <<0, 0>>,
    gic |-> [gicd |-> <<16, 1>>, gicr |-> <<20, 6>>, stride |-> 2, count |-> 3, virt |-> 0],
    hostUart |-> <<9, 1>>, hostIrq |-> 33, uart |-> <<9, 1>>, irq |-> 33, hypPpi |-> 26, virtPpi |-> 27,
    entry |-> 42, dtb |-> 53, ram |-> <<40, 8>>, count |-> 2, mpidr |-> <<0, 1, 2>>,
    gicd |-> <<16, 1>>, gicr |-> <<20, 4>>, stride |-> 2]

MCJunks == {<<0, 0>>, <<63, 63>>}
MCWindowJunk == {{3, 12}, {5, 12, 13}, {5, 7, 13}}      \* behind the pages used; in their way; and no room for the frames
MCRdistAff == <<0, 1, 2>>

-----------------------------------------------------------------------------
(* The RISC-V machine: three harts, pages of two bytes, RAM at page 28.     *)
Num(base, digits) == [base |-> base, digits |-> digits]
Arg(key, num) == [key |-> key, num |-> num]
End == [tok |-> "end", name |-> "", val |-> <<>>]
Isa(letters, words) == [letters |-> letters, words |-> words]
VirtFdt(args) ==
    Begin("") \o Begin("cpus") \o <<PropTok("timebase-frequency", <<5>>)>>
      \o Begin("cpu") \o <<PropTok("riscv,isa", <<Isa({"i", "d", "h"}, {"svvptc"})>>), PropTok("?", <<1>>), End, End>>
      \o Begin("chosen") \o <<PropTok("bootargs", args), End, End>>

MCRvHostFdts == {
    <<>>,
    VirtFdt(<<>>),
    VirtFdt(<<Arg("guest_vcpus", Num(10, <<2>>)), Arg("guest_initrd_start", Num(16, <<3, 12>>)),
              Arg("guest_initrd_end", Num(16, <<3, 14>>))>>),
    VirtFdt(<<Arg("guest_vcpus", Num(10, <<9>>)), Arg("guest_ram_size", Num(10, <<5>>)),
              Arg("guest_initrd_start", Num(10, <<4>>)), Arg("guest_initrd_end", Num(16, <<>>))>>),
    VirtFdt(<<Arg("guest_vcpus", Num(10, <<>>)), Arg("guest_initrd_start", Num(16, <<>>)),
              Arg("guest_initrd_end", Num(10, <<4>>))>>),               \* no digits: 0
    VirtFdt(<<Arg("guest_vcpus", Num(10, <<0>>)), Arg("guest_ram_base", Num(16, <<3, 9>>))>>),     \* not on a page
    VirtFdt(<<Arg("guest_ram_base", Num(16, <<0>>)), Arg("guest_vcpus", Num(10, <<-1>>)),
              Arg("guest_vcpus", Num(10, <<3>>))>>),                    \* over the UART; the first word is no number
    <<[tok |-> "junk", name |-> "", val |-> <<>>]>> \o VirtFdt(<<>>),
    VirtFdt(<<>>) \o <<PropTok("riscv,isa-extensions", <<"i", "f", "v", "svvptc">>), PropTok("timebase-frequency", <<6>>)>>}

MCRvDefaults == [entry |-> 57, dtb |-> 62, ram |-> <<56, 8>>, initrd |-> <<0, 0>>, vcpus |-> 1]
MCGuestUart == <<2, 2>>
MCGuestPlic == <<6, 4>>
MCRegionUart == <<2, 2>>
MCRegionPlic == <<6, 4>>
MCRvImage == <<24, 6>>
MCRvUart == <<14, 2>>
MCRvPlic == <<6, 4>>
MCRvDirect == <<192, 8, 32>>
=============================================================================
