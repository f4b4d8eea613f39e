----------------------------- MODULE MCForward -----------------------------
(* Four URLs: two of an https origin, one of another, and an http URL of the *)
(* first host.  One address belongs to the host, one is private.             *)
EXTENDS Forward, TLC

MCTargets == {"a1", "a2", "b1", "pa"}
MCListed == {"a1", "a2", "pa"}
MCHttps == {"a1", "a2", "b1"}
MCOrigin == "a1" :> "A" @@ "a2" :> "A" @@ "b1" :> "B" @@ "pa" :> "PA"
=============================================================================
