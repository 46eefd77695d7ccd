\* Two connections with three requests each, the later ones over the upstream
\* connection of the first one, or two WebSocket messages.
CONSTANTS
    c1 = c1
    c2 = c2
    Conns = {c1, c2}
    MaxRequests = 3
    MaxMessages = 2
SPECIFICATION FairSpec
INVARIANTS
    TypeOK
    RequestOnlyOverTls
    ForwardedInOrder
    RepliesFollowAnswers
    Deadlines
    EchoesWhatItRead
PROPERTY
    EndsOrAwaitsUpstream
