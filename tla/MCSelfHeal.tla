----------------------------- MODULE MCSelfHeal -----------------------------
(* Three Boot#### slots, one other system, and a copy of Visor on another  *)
(* disk whose entry has the same file path.                                *)
EXTENDS SelfHeal

Windows == [path |-> "windows", here |-> TRUE]
Twin == [path |-> "main", here |-> FALSE]
MCLoaders == {Own("main"), Own("fallback"), Windows, Twin}

Entries(a, b, c) == [s \in Slots |-> IF s = 0 THEN a ELSE IF s = 1 THEN b ELSE c]

MCFirstEntries == {Entries(Windows, Own("main"), None),
                   Entries(None, Windows, Broken),
                   Entries(Own("main"), Windows, Twin),
                   Entries(Twin, Windows, Windows)}
MCFirstOrders == {<<0, 1>>, <<1, 2, 0>>, Missing, Malformed}
MCOtherOrders == {<<0>>, <<1, 0, 1>>, Missing}

Config(o, f) == [order |-> o, fallback |-> f, dry |-> FALSE]
MCConfigPolicies == {Config("ensure", TRUE), Config("first", FALSE), Config("off", TRUE)}
MCShellPolicies == {[order |-> "ensure", fallback |-> TRUE, dry |-> TRUE],
                    Config("first", TRUE)}
=============================================================================
