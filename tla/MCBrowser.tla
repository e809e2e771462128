----------------------------- MODULE MCBrowser -----------------------------
(* An internal disk, a stick, and a device without a file system.  The root  *)
(* directory comes in several orders and sizes.                              *)
EXTENDS Browser, TLC

MCNames == {"dot", "boot", "EFI", "vmlinuz", "VMLINUZ", "initrd", "shim"}
MCRank == ("dot" :> 0) @@ ("boot" :> 1) @@ ("EFI" :> 2) @@ ("initrd" :> 3) @@ ("shim" :> 4)
          @@ ("vmlinuz" :> 5) @@ ("VMLINUZ" :> 5)
MCPrefix == ("dot" :> "dot") @@ ("boot" :> "none") @@ ("EFI" :> "none") @@ ("initrd" :> "initrd")
            @@ ("shim" :> "none") @@ ("vmlinuz" :> "kernel") @@ ("VMLINUZ" :> "kernel")
MCSize == ("dot" :> 1) @@ ("boot" :> 2) @@ ("EFI" :> 2) @@ ("initrd" :> 3) @@ ("shim" :> 9)
          @@ ("vmlinuz" :> 3) @@ ("VMLINUZ" :> 3)

Dir(n) == [name |-> n, dir |-> TRUE]
Plain(n) == [name |-> n, dir |-> FALSE]
Root == {Plain("vmlinuz"), Plain("VMLINUZ"), Plain("initrd"), Dir("boot"), Plain("dot")}
Shuffled == {q \in [1..5 -> Root] : Range(q) = Root /\ q[1] = Plain("dot")}
Sub == <<Plain("dot"), Plain("vmlinuz"), Dir("EFI")>>
Tree(root) == [disk |-> (<<>> :> root) @@ (<<"boot">> :> Sub),
               stick |-> (<<>> :> <<Plain("initrd"), Plain("shim"), Dir("EFI")>>)
                         @@ (<<"EFI">> :> <<Plain("VMLINUZ")>>),
               bare |-> <<>> :> <<>>]
Common == [text |-> FALSE, cached |-> TRUE, handles |-> <<"bare", "stick", "disk">>,
           bootVolume |-> "disk", rows |-> 2, perRead |-> 1, initial |-> <<"boot">>,
           has |-> [disk |-> "conf", stick |-> "EFI", bare |-> "nothing"],
           tree |-> Tree(<<>>)]
MCSetups ==
    {[Common EXCEPT !.tree = Tree(q)] : q \in Shuffled}
    \cup {[Common EXCEPT !.tree = Tree(q), !.text = TRUE] :
             q \in {q \in Shuffled : q[2] = Plain("initrd")}}
    \cup {[Common EXCEPT !.tree = Tree(CHOOSE q \in Shuffled : TRUE), !.cached = FALSE,
                         !.perRead = 3, !.bootVolume = None]}
=============================================================================
