----------------------------- MODULE MCSiteAudit -----------------------------
(* An audit's two halves on small instances. *)
EXTENDS SiteAudit

CONSTANTS GPTBot, ClaudeBot, CCBot, any, public, private

Untyped == [kind |-> "object", type |-> {}]
Malformed == [kind |-> "malformed"]
FirstBlocks == {Organization, Untyped, InGraph(Untyped), Malformed}
JSON == Advised \union FirstBlocks \union {InArray(Untyped)}

FairSpec == AuditSpec /\ Fairness /\ Fetcher!Fairness
=============================================================================
