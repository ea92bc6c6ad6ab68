SPECIFICATION Spec
CONSTANTS
    w1 = w1
    w2 = w2
    move = move
    pause = pause
    Conns = {w1, w2}
    Ids = {move, pause}
    Controls = {pause}
    QueueLimit = 1
    Batch = 1
    MaxTickets = 3
INVARIANT SameAnswer
PROPERTIES AbandonedEnds ClientsAnswered StopJoins
CHECK_DEADLOCK FALSE
