---------------------------- MODULE AuditChainMC ----------------------------
(* Small instances of AuditChain for TLC: one logger process.                *)
EXTENDS AuditChain

CONSTANT p1

OneProcess == {p1}
=============================================================================
