----------------------------- MODULE MCCreateVm -----------------------------
(* An instance of CreateVm for TLC: the inputs are a union of families, each *)
(* of which varies one part of the configuration.                            *)
EXTENDS CreateVm, TLC

MCText == STRING
MCMultiplier == "" :> 1 @@ "Ki" :> 4 @@ "Gi" :> 16
MCImages == "fedora" :> [magic |-> TRUE, size |-> 4] @@ "cirros" :> [magic |-> FALSE, size |-> 2]

File(base, ext, magic) == [base |-> base, ext |-> ext, spaced |-> FALSE, magic |-> magic, size |-> 4]
MCLocalFiles ==
    "root"  :> File("root", "qcow2", TRUE) @@ "other" :> File("root", "img", TRUE) @@
    "data"  :> File("data", "img", FALSE) @@ "upper" :> File("root", "QCOW2", TRUE) @@
    "fake"  :> File("data", "qcow2", FALSE) @@
    "my disk" :> [File("my disk", "img", FALSE) EXCEPT !.spaced = TRUE]

Q(num, suffix) == [num |-> num, suffix |-> suffix]
Eight == Q(2, "Ki")
Wrapped == Q(5, "Gi")   \* 80 bytes: 16 of them are left in a uint64 of 64 values

Local(name, file, size) ==
    [name |-> name, image |-> LocalFile(file), containerImage |-> "", size |-> size]
Container(name, image, size) ==
    [name |-> name, image |-> NoPath, containerImage |-> image, size |-> size]

DiskSpecs ==
    {Local("root", "root", NoQuantity), Local("disk0", "other", Eight),
     Local("containerdisk", "data", Eight),
     Local("d", "other", NoQuantity), Local("same", "other", NoQuantity),
     Container("root", "fedora", Wrapped), Container("containerdisk", "cirros", NoQuantity),
     [Local("both", "root", NoQuantity) EXCEPT !.containerImage = "fedora"]}
OddDisks ==
    {Local("d", "upper", NoQuantity), Local("d", "fake", NoQuantity), Local("d", "my disk", NoQuantity),
     Local("d", "missing", NoQuantity), Local("", "root", NoQuantity),
     Local("d", "data", Q(0, "Ki")), Local("d", "data", Q(1, "")),
     [Local("d", "root", NoQuantity) EXCEPT !.image = NoPath]}
DiskLists ==
    {<<>>} \cup {<<d>> : d \in DiskSpecs \cup OddDisks} \cup (DiskSpecs \X DiskSpecs)
    \cup {<<Local("root", "root", NoQuantity), Container("c", "cirros", Eight), d>> : d \in DiskSpecs}

Port(h, v, proto) == [hostPort |-> h, vmPort |-> v, protocol |-> proto]
Net(type, ports) == [type |-> type, ports |-> ports]
NetworkLists ==
    {<<>>, <<Net("masquerade", <<Port(2222, 22, "")>>)>>,
     <<Net("", <<Port(8080, 80, "tcp")>>), Net("masquerade", <<Port(5353, 53, "udp")>>)>>,
     <<Net("", <<>>), Net("", <<Port(2222, 22, "tcp")>>)>>, <<Net("bridge", <<>>)>>}
PortLists ==
    {<<>>, <<Port(2222, 22, "tcp")>>, <<Port(8080, 80, "udp"), Port(0, 22, "tcp")>>,
     <<Port(65536 + 22, 22, "tcp")>>, <<Port(22, 65535, "tcp"), Port(22, 65535, "tcp")>>}

Logins ==
    {NoCloudInit, [NoCloudInit EXCEPT !.set = TRUE],
     [set |-> TRUE, user |-> "fedora", password |-> "", keys |-> {"filekey"}],
     [set |-> TRUE, user |-> "", password |-> "secret", keys |-> {}]}

PlainVM == [EmptyVM EXCEPT !.name = "web"]
PlainOpts ==
    [config |-> TRUE, name |-> "", cpus |-> 1, cpusChanged |-> FALSE,
     memory |-> DefaultMemory, memoryChanged |-> FALSE, disk |-> "", image |-> "",
     diskSize |-> NoQuantity, ports |-> <<>>, keys |-> {}, user |-> "", password |-> ""]
In(file, flags, home) == [file |-> file, opts |-> flags, home |-> home]

Cpus == {<<1, FALSE>>, <<-1, TRUE>>, <<0, TRUE>>, <<2, TRUE>>, <<257, TRUE>>, <<Word32 + 1, TRUE>>}
Memories == {<<DefaultMemory, FALSE>>, <<Q(3, "Ki"), TRUE>>, <<NoQuantity, TRUE>>, <<Q(64, "Ki"), TRUE>>}

MCInputs ==
    {In([PlainVM EXCEPT !.disks = disks],
        [PlainOpts EXCEPT !.disk = disk, !.image = image, !.diskSize = size], {}) :
        disks \in DiskLists, disk \in {"", "data"}, image \in {"", "cirros"},
        size \in {NoQuantity, Eight}}
    \cup
    {In(EmptyVM, [PlainOpts EXCEPT !.config = FALSE, !.name = "db", !.disk = disk,
                                   !.image = image, !.diskSize = size], {}) :
        disk \in {"", "other", "missing"}, image \in {"", "fedora"},
        size \in {NoQuantity, Eight, Wrapped}}
    \cup
    {In([PlainVM EXCEPT !.name = file, !.cores = cores, !.memory = memory],
        [PlainOpts EXCEPT !.config = config, !.name = name, !.cpus = c[1], !.cpusChanged = c[2],
                          !.memory = q[1], !.memoryChanged = q[2]], {}) :
        file \in {"", "web", "Web_1"}, cores \in {0, 4}, memory \in {NoQuantity, Q(2, "Gi")},
        config \in BOOLEAN, name \in {"", "db"}, c \in Cpus, q \in Memories}
    \cup
    {In([PlainVM EXCEPT !.networks = networks],
        [PlainOpts EXCEPT !.config = config, !.name = "db", !.ports = ports], {}) :
        networks \in NetworkLists, ports \in PortLists, config \in BOOLEAN}
    \cup
    {In([PlainVM EXCEPT !.cloudInit = login],
        [PlainOpts EXCEPT !.config = config, !.name = "db", !.keys = keys, !.user = user,
                          !.password = password], home) :
        login \in Logins, config \in BOOLEAN, keys \in {{}, {"flagkey"}},
        user \in {"", "core"}, password \in {"", "pw"}, home \in {{}, {"homekey"}}}
=============================================================================
