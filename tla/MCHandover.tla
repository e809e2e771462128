----------------------------- MODULE MCHandover -----------------------------
(* The boot volume, a second ESP and a root volume that needs a driver.  The *)
(* same paths exist on several of them, with other contents.                 *)
EXTENDS Handover

MCVolumeOrder == <<"usb", "esp", "root">>
MCFiles == {"vmlinuz", "/boot/vmlinuz", "initrd", "bootmgfw", "bootx64"}
MCDefaultKeyPath == <<"crypto_keyfile.bin">>
MCBootMgrPaths == <<"bootmgfw", "bootx64">>
MCHostPath == "/boot/vmlinuz" :> "vmlinuz"

Nothing == [f \in MCFiles |-> Missing]
With(d, v, f, c) == [d EXCEPT ![v] = [@ EXCEPT ![f] = c]]
Empty == [v \in Volumes |-> Nothing]
Put(d, pairs) == FoldLeft(LAMBDA a, p : With(a, p[1], p[2], p[3]), d, pairs)

Twins == Put(Empty, << <<"esp", "vmlinuz", "stub">>, <<"esp", "initrd", "ird">>,
                       <<"root", "vmlinuz", "other">>, <<"root", "initrd", "ird2">>,
                       <<"usb", "initrd", "ird2">>, <<"esp", "bootmgfw", "win">> >>)
Swapped == Put(Empty, << <<"usb", "vmlinuz", "other">>, <<"esp", "vmlinuz", "other">>,
                         <<"root", "initrd", "ird">>, <<"usb", "bootx64", "other">> >>)
Raw == Put(Empty, << <<"root", "vmlinuz", "raw">>, <<"usb", "initrd", "ird">>,
                     <<"esp", "vmlinuz", Unreadable>> >>)
SealedDisk == Put(Empty, << <<"esp", "vmlinuz", "sealedstub">>, <<"esp", "initrd", "sealedird">>, <<"usb", "initrd", "tampered">>,
                            <<"root", "vmlinuz", "stub">> >>)
Far == Put(Empty, << <<"root", "vmlinuz", "stub">>, <<"root", "initrd", "ird">>,
                     <<"esp", "initrd", "ird2">> >>)
MCDisks == {Twins, Swapped, Raw, SealedDisk, Far}
Container(plain, p, salt, intact) ==
    LET body == [under |-> Derived(p, salt, 1), text |-> plain]
    IN  [salt |-> salt, body |-> IF intact THEN body ELSE [body EXCEPT !.text = "other"],
         tag |-> Tag(Derived(p, salt, 2), [salt |-> salt, body |-> body]), sound |-> TRUE]
MCSealed == "sealedstub" :> Container("stub", "p", "s1", TRUE)
         @@ "sealedird" :> Container("ird", "p", "s2", TRUE)
         @@ "tampered" :> Container("ird", "p", "s2", FALSE)
MCPasswordBytes == [p \in {"p", "q"} |-> p]

Header(rel, align, pref, max) ==
    [relocatable |-> rel, align |-> align, minAlign |-> 1, init |-> 2, pref |-> pref,
     initrdMax |-> max, cmdlineSize |-> 3]
MCSetupOf == "raw" :> Header(TRUE, 2, 2, 3) @@ "stub" :> Header(FALSE, 1, 1, 5)

Base == [kernel |-> "vmlinuz", uuid |-> NoVolume, own |-> NoVolume, sealed |-> FALSE,
         pin |-> None, initrd |-> "initrd", initrdSealed |-> FALSE, luks |-> FALSE,
         keyPath |-> <<>>, cmdline |-> <<"root", "quiet">>, luksCmdline |-> <<>>,
         verbose |-> FALSE, windows |-> FALSE]

MCEntries ==
    { Base, [Base EXCEPT !.uuid = "root", !.kernel = "/boot/vmlinuz"],
      [Base EXCEPT !.pin = "stub", !.initrd = None, !.own = "esp"],
      [Base EXCEPT !.luks = TRUE, !.luksCmdline = <<"key">>, !.verbose = TRUE, !.uuid = "root"],
      [Base EXCEPT !.luks = TRUE, !.initrd = None, !.keyPath = <<"etc", "..">>],
      [Base EXCEPT !.luks = TRUE, !.initrd = None, !.cmdline = <<>>, !.keyPath = <<"etc", "keys", "k">>],
      [Base EXCEPT !.sealed = TRUE, !.initrdSealed = TRUE, !.own = "esp"],
      [Base EXCEPT !.kernel = None, !.initrd = None, !.uuid = "esp"],
      [Base EXCEPT !.kernel = "bootmgfw", !.initrd = None, !.cmdline = <<>>, !.windows = TRUE] }

Policy(sb, shim, tpm, bn, counter) ==
    [secureBoot |-> sb, shim |-> shim, tpm |-> tpm, bootnext |-> bn, counter |-> counter]
Tpm == [protocol |-> TRUE, methods |-> TRUE, complete |-> TRUE, active |-> TRUE,
        banks |-> FALSE, banksOnRequest |-> TRUE]
NoTpm == [Tpm EXCEPT !.active = FALSE]
MCPolicies == { Policy(FALSE, FALSE, Tpm, TRUE, TRUE), Policy(TRUE, FALSE, Tpm, FALSE, FALSE),
                Policy(TRUE, TRUE, NoTpm, TRUE, FALSE) }

Option(a, w, p) == [readable |-> TRUE, active |-> a, windows |-> w, part |-> p]
MCBootOptions == { <<Option(TRUE, FALSE, "usb"), Option(TRUE, TRUE, "esp")>>,
                   <<Option(TRUE, TRUE, "root"), Option(FALSE, TRUE, "esp"),
                     Option(TRUE, TRUE, "esp")>> }
=============================================================================
