------------------------------ MODULE MCServer ------------------------------
(* Two connections to two keys of one shard, of which the replay restored one. *)
EXTENDS Server

=============================================================================
