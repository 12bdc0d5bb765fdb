------------------------ MODULE MCDistributedInvalidator ------------------------
(* The instance of DistributedInvalidator that is model-checked.           *)
EXTENDS DistributedInvalidator

CONSTANTS n1, n2, c1

\* The call is made on either node, for a pattern or a tag.
AnyAsk == [x \in Call |-> Node \X {"pattern", "tag"}]

\* Both nodes' caches have tags, or the first one's only.
OneOrBoth == {{n1}, {n1, n2}}
=============================================================================
