---------------------------- MODULE MCAdminClient ----------------------------
(* Two names, lists of none, one and both, a topic of two partitions.        *)
EXTENDS AdminClient
CONSTANTS n1, n2
MCPartitions == <<n1, n2>>
MCArguments == {<<>>, <<n1>>, <<n1, n2>>}
MCMethods == AllMethods
=============================================================================
