\* The code violates ReplyIsTheAnswer.
CONSTANTS
    c1 = c1
    Conns = {c1}
    MaxRequests = 1
    MaxMessages = 1
SPECIFICATION Spec
INVARIANT
    ReplyIsTheAnswer
