\* Two answers of one piece per attempt and two attempts, in chats of three
\* platforms, two of them WeChat's; the limit of marks is one, so that a mark is
\* dropped.
CONSTANTS
    t1 = t1
    w1 = w1
    w2 = w2
    f1 = f1
    r1 = r1
    r2 = r2
    Requests = {r1, r2}
    Triggers = {r2}
    Chats = {t1, w1, w2, f1}
    ChatsOf <- MCChatsOf
    Platform <- MCPlatform
    NoChat = NoChat
    Pieces <- MCPieces
    MaxChunks = 1
    MaxAttempts = 2
    MaxBuffer = 3
    MaxTracked = 1
    MaxLag = 1
SPECIFICATION FairSpec
INVARIANTS
    TypeOK
    OneWayOnly
    RepliesStayHome
PROPERTIES
    ReplyIsShown
CHECK_DEADLOCK FALSE
