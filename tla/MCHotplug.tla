----------------------------- MODULE MCHotplug -----------------------------
(* The boot volume and two sticks.  One stick holds a UKI and raw kernels; *)
(* both have a loader of the same vendor, and a fallback, so two files of  *)
(* one path: \EFI\BOOT\BOOTX64.EFI is the same on every stick.             *)
EXTENDS Hotplug

Nothing == [s \in Stages |-> <<>>]
Plain == [Nothing EXCEPT ![VendorStage] = <<"grub">>, ![FallbackStage] = <<"bootx64">>]
Rich == [Plain EXCEPT ![UkiStage] = <<"uki">>, ![4] = <<"vmlinuz", "vmlinuz-lts">>]

Sticks(a, b) == [v \in Handles |-> IF v = "a" THEN a ELSE IF v = "b" THEN b ELSE Nothing]
MCContent == Sticks(Rich, Plain)

Configured == [path |-> "linux", vol |-> Nowhere, uuid |-> Nowhere]
OnStick(p, v) == [path |-> p, vol |-> v, uuid |-> v]

(* One stick has been found and is listed before what boot.conf lists. *)
MCStartLists == {<<OnStick("uki", "a"), Configured>>}
(* Nothing has been found yet.                                         *)
MCConfigured == {<<Configured>>}
=============================================================================
