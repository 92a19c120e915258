------------------------ MODULE MCReplicationPipeline ------------------------
(* Small instances of ReplicationPipeline: "aws" is served by                *)
(* MultipleBackendTask, "dr" by ReplicateObject                              *)
EXTENDS ReplicationPipeline

BothSites == {"aws", "dr"}
CloudOnly == {"aws"}
DrOnly == {"dr"}
NoSites == {}

NoReplay == <<>>
OneReplay == <<[topicName |-> "replay", retries |-> 1]>>
TwoReplays == <<[topicName |-> "replay-1", retries |-> 1],
                [topicName |-> "replay-2", retries |-> 1]>>

(* The data of an object sent in parts, the metadata of a small one that one  *)
(* of the sites holds, and a delete marker                                    *)
Object(content, multipart, held) == [content |-> content, multipart |-> multipart, held |-> held]
AnyObject == {Object("DATA", TRUE, {}), Object("METADATA", FALSE, {"aws"}),
              Object("METADATA", FALSE, {"dr"}), Object("MARKER", FALSE, {})}

(* New metadata of an object that the site holds *)
HeldObject == {Object("METADATA", FALSE, {"dr"})}
==============================================================================
