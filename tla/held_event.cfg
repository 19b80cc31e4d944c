\* Stop current run while the worker looks at an event.
SPECIFICATION Spec
PROPERTIES
    StopRestarts
CHECK_DEADLOCK FALSE
