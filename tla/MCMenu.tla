------------------------------- MODULE MCMenu -------------------------------
(* A dual-deployment entry with snapshots, a plain one, and a stick that     *)
(* comes and goes; two entries to a page.                                    *)
EXTENDS Menu

MCDeploys == [atomic |-> 2, plain |-> 0, stick |-> 0]
MCDefault == [atomic |-> 1, plain |-> 0, stick |-> 0]
MCSnaps == [atomic |-> <<{"cmdline"}, {"kernel", "initrd"}>>, plain |-> <<>>, stick |-> <<>>]

Common == [text |-> FALSE, anim |-> FALSE, center |-> FALSE, editor |-> FALSE,
           hotplug |-> FALSE, saver |-> FALSE, blanks |-> FALSE, mouse |-> FALSE,
           capture |-> FALSE, volumes |-> FALSE, powerTop |-> FALSE, perPage |-> 2,
           timeout |-> "never", start |-> <<"atomic", "plain">>, default |-> 0]
MCSetups ==
    {[Common EXCEPT !.text = TRUE, !.hotplug = TRUE, !.timeout = "counts", !.default = 1],
     [Common EXCEPT !.mouse = TRUE, !.powerTop = TRUE, !.editor = TRUE],
     [Common EXCEPT !.anim = TRUE, !.hotplug = TRUE],
     [Common EXCEPT !.saver = TRUE, !.blanks = TRUE, !.timeout = "counts", !.hotplug = TRUE,
                    !.start = <<>>],
     [Common EXCEPT !.capture = TRUE, !.volumes = TRUE,
                    !.timeout = "counts"],
     [Common EXCEPT !.timeout = "now"]}
=============================================================================
