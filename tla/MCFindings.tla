----------------------------- MODULE MCFindings -----------------------------
(* One Baseline of one target, and a Subscription with a cooldown, one      *)
(* whose Sink is missing and one that works.                                *)
EXTENDS Findings

CONSTANTS web, chat, lost, pager

Alphabetical == {<<chat, lost>>, <<chat, pager>>, <<lost, pager>>}
=============================================================================
