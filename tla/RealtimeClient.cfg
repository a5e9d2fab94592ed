SPECIFICATION Spec
CONSTANTS
    news = news
    mail = mail
    typing = typing
    Channels = {news, mail}
    Commands = {typing}
    AppSteps = 5
    Faults = 2
INVARIANTS
    OneLiveSocket
    NeverStranded
    SubscribedMeansListening
    NoPromiseIsLost
PROPERTIES
    ActiveChannelsSettle
CHECK_DEADLOCK FALSE
