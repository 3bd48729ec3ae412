CONSTANTS
    webhook = webhook
    timer = timer
    m1 = m1
    Threads = {webhook, timer}
    Webhook = webhook
    Timer = timer
    Games = {"", "chess"}
    NoGame = ""
    TTL = 2
    NoEntry = NoEntry
    MaxTime = 2
    Messages = {m1}
    Reactions = {"counter", "moderation"}
    Skew = 1
    Ahead = 2
    NotANumber = NotANumber
    NoMessage = NoMessage
    MaxTries = 2
    MaxBacklog = 2
    MaxRestarts = 1
SPECIFICATION FairSpec
INVARIANTS GameIsRecent AnsweredIsActedOn
PROPERTY EventsComeToAnEnd
CHECK_DEADLOCK FALSE
