---------------------------- MODULE MCEventStore ----------------------------
(* Small instances of EventStore for TLC. *)
EXTENDS EventStore

CONSTANTS RawModel, PlainModel

(* The target's normaliser folds the raw model id into the plain one.      *)
MCModels == {RawModel, PlainModel}
MCNormalModel == [m \in MCModels |-> PlainModel]

OneContent == {[kind |-> "message", model |-> RawModel]}
=============================================================================
