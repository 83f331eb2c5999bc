------------------------------ MODULE SqsTopics ------------------------------
(***************************************************************************)
(* The topic manager of plugins/sqs/topic.go: the AWS region and a plain   *)
(* Go map from a topic's name to the topic object.  The map has no lock;   *)
(* the operations below are called by application code at any time, and    *)
(* GetTopic by the worker and by every goroutine that handles a message.   *)
(* A topic is identified with its name, so the map is its set of keys.     *)
(***************************************************************************)
CONSTANTS
    Topics,   \* names a topic can have
    NoTopic   \* the nil *Topic

ASSUME NoTopicAssumption == NoTopic \notin Topics

VARIABLES
    region,   \* Region # "": read from AWS_REGION, changed by SetRegion
    topics    \* keys of TopicMaps

topicVars == <<region, topics>>

TopicsTypeOK == region \in BOOLEAN /\ topics \subseteq Topics

NewAwsTopicManager == region \in BOOLEAN /\ topics = {}

\* The nil pointer is the answer for a name that is not in the map.
GetTopic(t) == IF t \in topics THEN t ELSE NoTopic

SetRegion == region' \in BOOLEAN /\ UNCHANGED topics

AddTopic(t) == topics' = topics \union {t} /\ UNCHANGED region

RemoveTopic(t) == topics' = topics \ {t} /\ UNCHANGED region
=============================================================================
