----------------------------- MODULE MCBootFlow -----------------------------
(* A plain and a locked entry; boot.conf from every display mode and         *)
(* autoboot choice that leads to different screens.                          *)
EXTENDS BootFlow

MCEntryOf ==
    [plain |-> [cmdline |-> <<"quiet">>, kernel |-> "/vmlinuz", initrd |-> "/initrd",
                uuid |-> None, volume |-> None],
     luks |-> [cmdline |-> <<>>, kernel |-> "/linux.efi", initrd |-> None,
               uuid |-> "u1", volume |-> "esp"]]
MCSnapshots ==
    [plain |-> {[cmdline |-> <<"snap">>, kernel |-> Unset, initrd |-> Unset]}, luks |-> {}]
MCUuidOf == [disk |-> "u2", stick |-> Unset]

Common == [list |-> <<"plain", "luks">>, textMenu |-> FALSE, gop |-> TRUE,
           autoboot |-> FALSE, splash |-> FALSE, intro |-> FALSE, introBoot |-> FALSE,
           timeout |-> 5, quiet |-> FALSE, rememberLast |-> FALSE, default |-> 2,
           pick |-> None]
MCConfigs ==
    {[Common EXCEPT !.autoboot = TRUE],
     [Common EXCEPT !.autoboot = TRUE, !.splash = TRUE, !.rememberLast = TRUE],
     [Common EXCEPT !.autoboot = TRUE, !.textMenu = TRUE, !.pick = 1],
     [Common EXCEPT !.autoboot = TRUE, !.gop = FALSE, !.default = 9],
     [Common EXCEPT !.intro = TRUE, !.introBoot = TRUE, !.rememberLast = TRUE, !.pick = 1],
     [Common EXCEPT !.list = <<>>, !.autoboot = TRUE]}
=============================================================================
