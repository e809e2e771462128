---------------------------- MODULE MCDiscovery ----------------------------
(* Four questions, each with what it needs around it: every short boot.conf  *)
(* (and its theme), the search of three volumes, the running loader among    *)
(* deployments, and snapshots by manifest or found on the volumes.           *)
EXTENDS Discovery

Words == {"", "0", "1", "yes", "Yes", "off", "cycle", "nord", "quick", "manifest",
          "Arch", "Arch Linux", "Fedora", "/vmlinuz", "/visor.efi", "/win", "root", "other",
          "42", "esp", "data", "hash", "random", "/other"}
MCBeginnings ==
    [w \in Words |-> CASE w \in {"0"} -> {"0"} [] w = "1" -> {"1"} [] w = "42" -> {"4"}
                       [] w = "yes" -> {"y"} [] w = "Yes" -> {"Y"} [] OTHER -> {}]
MCNumber == [w \in Words |-> CASE w = "1" -> 1 [] w = "42" -> 42 [] OTHER -> 0]
Plain(w) == [key |-> w, args |-> <<>>]
NoSubvol == [base |-> "", dir |-> "", id |-> 0]
Flag(name, base) == [name |-> name, value |-> [NoSubvol EXCEPT !.base = base]]
RootFlags(args) == [key |-> "rootflags", args |-> args]
Root(d) == [key |-> "root", args |-> <<Flag(d, "")>>]
MCCmdline ==
    [w \in Words |->
      CASE w = "root" -> <<Root("A"), RootFlags(<<Flag("compress", ""), Flag("subvol", "@")>>),
                           Plain("quiet")>>
        [] w = "other" -> <<Root("B"), RootFlags(<<Flag("subvolid", ""), Flag("subvol", "x"),
                                                   Flag("compress", "")>>),
                            Plain("rw"), RootFlags(<<Flag("noatime", "")>>)>>
        [] OTHER -> <<Plain("quiet")>>]

Line(kind, key, value) == [kind |-> kind, key |-> key, value |-> value]
K(key, value) == Line("key", key, value)
Open == Line("open", "entry", "")
Bare == Line("header", "entry", "")
Close == Line("close", "", "")
Blank == Line("blank", "", "")

MCOrder == <<"esp", "data", "usb">>
MCBeside == {<<"esp", "data">>}
MCWithin == {<<"Arch", "Arch">>, <<"Arch", "Arch Linux">>}
Empty == [guid |-> TRUE, opens |-> TRUE, boots |-> FALSE, windows |-> <<>>, ukis |-> <<>>,
          raw |-> <<>>, options |-> <<>>, fstab |-> Nothing, vendors |-> <<>>, bls |-> <<>>,
          snaps |-> <<>>]
Esp == [Empty EXCEPT !.boots = TRUE]
Base ==
    [conf |-> Nothing, themes |-> <<>>, themeOrder |-> <<>>, rank |-> <<>>,
     self |-> [path |-> "/visor.efi", volume |-> "esp",
               copies |-> {<<"esp", "/copy.efi">>, <<"data", "/visor.efi">>}],
     volumes |-> [esp |-> Esp, data |-> Empty, usb |-> Empty],
     parts |-> {"esp"}, roots |-> <<>>, manifest |-> Nothing]

(* Every file of up to five of these lines, with a theme or without.         *)
Lines == {Open, Bare, Close, Blank, K("log", "Yes"), K("no_log", "1"), K("checkpoints", "0"),
          K("name", "Arch"), K("kernel", "/vmlinuz")}
Files == UNION {[1..n -> Lines] : n \in 0..4}
Parsing == {[Base EXCEPT !.conf = f] : f \in Files}
Theming ==
    {[Base EXCEPT !.conf = <<K("theme", t), K("cmdline", "root"), K("recovery", "1")>>,
                  !.themes = [nord |-> <<K("log", "0"), Open, K("theme", "off")>>,
                              Arch |-> <<K("cmdline", "")>>],
                  !.themeOrder = o, !.rank = [nord |-> 2, Arch |-> 1],
                  !.volumes.data.raw = <<[name |-> "vmlinuz", path |-> "/vmlinuz",
                                          kernel |-> TRUE, initrds |-> <<"/initrd">>]>>]
     : t \in {"cycle", "nord", "off", "random"}, o \in {<<>>, <<"nord">>, <<"nord", "Arch">>}}

(* What is on three volumes, the stick without a partition table.            *)
Raw(kernel) == [name |-> "vmlinuz", path |-> "/vmlinuz", kernel |-> kernel, initrds |-> <<>>]
Uki(loader, cmdline) ==
    [name |-> "Arch", path |-> "/uki.efi", loader |-> loader, cmdline |-> cmdline]
Searching ==
    {[Base EXCEPT !.conf = conf, !.parts = parts,
        !.roots = roots,
        !.volumes.esp.ukis = ukis, !.volumes.esp.windows = windows,
        !.volumes.data.raw = <<Raw(TRUE), Raw(FALSE)>>,
        !.volumes.data.fstab = fstab, !.volumes.data.options = options,
        !.volumes.usb = [Empty EXCEPT !.guid = FALSE, !.boots = boots, !.raw = <<Raw(TRUE)>>,
                           !.opens = opens, !.vendors = <<"/shim">>,
                           !.windows = windows, !.fstab = MCCmdline["other"]]]
     : conf \in {Nothing, <<K("scan", "quick")>>, <<K("cmdline", "root"), K("recovery", "1")>>},
       parts \in {{}, {"esp"}, {"esp", "data"}},
       roots \in {<<>>, <<[disk |-> "usb", cmdline |-> MCCmdline["root"]],
                         [disk |-> "esp", cmdline |-> MCCmdline["1"]]>>},
       ukis \in {<<>>, <<Uki(TRUE, Nothing), Uki(FALSE, MCCmdline["other"])>>},
       windows \in {<<>>, <<"/win">>}, fstab \in {Nothing, MCCmdline["root"]},
       options \in {<<>>, [vmlinuz |-> MCCmdline["other"]]},
       boots \in BOOLEAN, opens \in BOOLEAN}

(* Two groups, with the running loader at any place of them.                 *)
Dep(path, left, cmdline) ==
    [title |-> "Arch", path |-> path, left |-> left, cmdline |-> cmdline,
     initrd |-> IF path = "/vmlinuz" THEN "/initrd" ELSE Nothing]
Deps == {Dep("/visor.efi", 1, Nothing), Dep("/visor.efi", 0, Nothing), Dep("/vmlinuz", 1, Nothing), Dep("/vmlinuz", 0, Nothing),
         Dep("/other", 1, MCCmdline["root"]), Dep("/shim", 1, Nothing)}
DepSeqs == UNION {[1..n -> Deps] : n \in 1..3}
Excluding ==
    {[Base EXCEPT !.conf = <<K("default", d), K("cmdline", c), K("exclude_self", x)>>,
        !.volumes.esp.bls = <<deps>>, !.volumes.data.bls = << <<Dep("/visor.efi", 1, Nothing)>> >>,
        !.volumes.esp.ukis = <<[Uki(FALSE, Nothing) EXCEPT !.path = p]>>]
     : d \in {"0", "1"}, c \in {"", "root"}, x \in {"0", "1"}, deps \in DepSeqs,
       p \in {"/visor.efi", "/uki.efi", "/copy.efi"}}
Listing ==
    {[Base EXCEPT !.conf = <<Open, K("name", "Arch"), K("kernel", k), K("uuid", u), Close, Open,
                             K("name", "Fedora"), K("kernel", "/visor.efi"), Close>>,
                  !.self.volume = v, !.volumes.usb.guid = FALSE]
     : k \in {"/visor.efi", "/vmlinuz"}, u \in {"esp", "data"}, v \in {"esp", "usb"}}

(* Snapshots: a manifest of one or two records, or directories of volumes.   *)
Entries(c) == <<K("cmdline", c), Open, K("name", "Arch"), K("kernel", "/vmlinuz"),
                K("uuid", "data"), Close>>
Second(name) == <<Open, K("name", name), K("kernel", "/other"), K("cmdline", "1"), Close>>
Record == {<<Line("open", "snapshot", ""), K(key, value), K("id", id), K("cmdline", c), Close>>
           : key \in {"entry", "os"}, value \in {"Arch", "Fedora", "Arch Linux", ""},
             id \in {"1", "42"}, c \in {"root", "other"}}
Manifests ==
    {[Base EXCEPT !.conf = Entries("root") \o Second(name), !.manifest = r \o s]
     : name \in {"Arch", "Fedora", "Arch Linux"}, r \in Record, s \in Record \cup {<<>>}}
    \cup {[Base EXCEPT !.conf = <<K("snapshots", m)>> \o Entries("root"), !.manifest = r]
          : m \in {"0", "manifest"}, r \in Record \cup {Nothing}}
Names == {<<>>, <<[id |-> 1, whole |-> TRUE]>>,
          <<[id |-> 2, whole |-> TRUE], [id |-> 5, whole |-> FALSE], [id |-> 9, whole |-> TRUE],
            [id |-> 4, whole |-> TRUE]>>}
Snapped ==
    {[Base EXCEPT !.conf = Entries(c),
        !.volumes.data.snaps = (<<"@", ".snapshots">> :> s) @@ (<<"", ".snapshots">> :> t)
                               @@ (<<"x", "@snapshots">> :> t),
        !.volumes.usb.snaps = (<<"", "timeshift">> :> u) @@ (<<"@", ".snapshots">> :> s)]
     : c \in {"root", "other", "1"}, s \in Names, t \in Names, u \in Names}

MCInputs ==
    Parsing \cup Theming \cup Searching \cup Excluding \cup Listing \cup Manifests \cup Snapped
MCBudgets == {0, 1, 3, 6, 60}
=============================================================================
