CONSTANTS
    ServerTopics <- MCServerTopics
    SensorTopic = "sensor"
SPECIFICATION Spec
PROPERTIES
    SubscribeSubscribes
CHECK_DEADLOCK FALSE
