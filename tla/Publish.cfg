SPECIFICATION Spec
CONSTANTS
    Publishers = {"request_task", "upload_task"}
    Caller = "request_task"
    MaxPublishes = 3
INVARIANTS OwnProperties
PROPERTIES PublishReturns
