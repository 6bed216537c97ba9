----------------------------- MODULE MCSettings -----------------------------
(* The protected remote, a configured one whose index has moved to another    *)
(* address, and one that can be imported or restored.                         *)
EXTENDS Settings

MCRemote(n, u) == [name |-> n, url |-> u, enabled |-> TRUE, auto |-> "global"]

MCFirst == <<MCRemote("ReaPack", "u0"), MCRemote("r", "u1")>>

MCDefaults == <<MCRemote("s", "u3")>>

MCNameOf == [u \in Urls |-> CASE u = "u0" -> "ReaPack" [] u \in {"u1", "u2"} -> "r"
                              [] u = "u3" -> "s"]

MCInputs == {<<"u2", "u3">>, <<"u1">>}

MCScript == {[MCRemote("r", "u1") EXCEPT !.enabled = FALSE], MCRemote("s", "u3")}
=============================================================================
