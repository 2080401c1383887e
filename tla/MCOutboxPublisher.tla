-------------------------- MODULE MCOutboxPublisher --------------------------
(***************************************************************************)
(* Two replicas and two events of one schema, so that one may block the    *)
(* other, or make up a full batch; another schema to pass over.            *)
(***************************************************************************)
EXTENDS OutboxPublisher

CONSTANTS p1, p2

MCEvents == {1, 2}
MCSchema == <<"activity", "activity">>
MCSchemaOrder == <<"activity", "identity">>
=============================================================================
