----------------------------- MODULE MCStartUp -----------------------------
(* A counted deployment and an older one on the second volume, and Windows.  *)
EXTENDS StartUp

Conf(base, left, title, sort) ==
    [base |-> base, left |-> left, done |-> 0,
     lines |-> <<<<"title", title>>, <<"sort-key", sort>>, <<"linux", base>>,
                 <<"options", "root">>>>]
MCVolumes == <<"esp", "boot">>
MCConfs == [esp |-> <<>>,
            boot |-> <<Conf("new", 2, "Linux", 1), Conf("old", None, "Linux", 2)>>]
MCOthers == <<"windows">>
MCConfigs == {[tpm |-> TRUE, loaderVars |-> TRUE, autoboot |-> FALSE, once |-> FALSE]}
=============================================================================
