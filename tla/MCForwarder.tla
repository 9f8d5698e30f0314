---------------------------- MODULE MCForwarder ----------------------------
(* Values of the constants of Forwarder for TLC. *)
EXTENDS Forwarder, TLC

\* Mail 1 is forwarded and extracted from, the last mail is extracted from, and
\* of three mails the second matches no rule.
MCMatching == {1, N}
MCForwards == [m \in MCMatching |-> IF m = 1 THEN {"f"} ELSE {}]
MCExtracts == [m \in MCMatching |-> {"x"}]
=============================================================================
